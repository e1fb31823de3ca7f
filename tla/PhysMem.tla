------------------------------- MODULE PhysMem -------------------------------
(***************************************************************************)
(* Physical frames, kernel/mem/phys/physmem.c: the bitmap is set up from   *)
(* the memory map of the boot loader, and runs of frames are taken and     *)
(* given back.  Reference counts are the subject of the module CowSpaces.  *)
(***************************************************************************)
EXTENDS Integers, Sequences, FiniteSets

CONSTANTS
    PAGE_SIZE,
    FRAME_RECORD,   \* sizeof(physmem_pageframe_t)
    HIGH, MIDDLE,   \* where the tracking data should rather be (16 MB, 1 MB)
    LOW_FRAMES,     \* frames below 1 MB, kept back (256)
    MemoryMaps,     \* memory maps: sequences of [base, length, type]
    RunLengths      \* how many frames are asked for at once

MapEntries == [base : Nat, length : Nat, type : {"usable", "reclaimable", "reserved"}]

\* The boot loader starts usable memory at a page; other entries may start
\* and end anywhere.
ASSUME PhysMemAssumption ==
    /\ PAGE_SIZE \in Nat \ {0} /\ FRAME_RECORD \in Nat \ {0}
    /\ HIGH \in Nat /\ MIDDLE \in Nat /\ LOW_FRAMES \in Nat \ {0}
    /\ RunLengths \subseteq Nat
    /\ MemoryMaps \subseteq Seq(MapEntries)
    /\ \A m \in MemoryMaps : \A i \in 1 .. Len(m) :
           m[i].type = "usable" => m[i].base % PAGE_SIZE = 0

VARIABLES
    mpr,        \* the memory map, constant
    bitmap,     \* frames whose bit is set
    runs        \* what callers hold: [at, len] in frames

pvars == <<mpr, bitmap, runs>>

entries(m, types) == {m[i] : i \in {j \in DOMAIN m : m[j].type \in types}}
Greatest(S) == CHOOSE x \in S : \A y \in S : y <= x

\* Frames up to the end of the last usable or reclaimable entry.
total(m) ==
    Greatest({e.base + e.length : e \in entries(m, {"usable", "reclaimable"})} \cup {0})
        \div PAGE_SIZE

\* Records and bitmap, one bit a frame.
tracking_size(m) == total(m) * FRAME_RECORD + (total(m) + 7) \div 8

\* The first usable entry with room, above 16 MB if there is one, else above
\* 1 MB, else anywhere; -1: there is none and the kernel panics.
tracking_at(m) ==
    LET fits(i, least) == /\ m[i].type = "usable" /\ m[i].length >= tracking_size(m)
                          /\ m[i].base >= least
        first(least) == {i \in DOMAIN m : fits(i, least)
                            /\ \A j \in 1 .. i - 1 : ~fits(j, least)}
        pick == IF first(HIGH) # {} THEN first(HIGH)
                ELSE IF first(MIDDLE) # {} THEN first(MIDDLE) ELSE first(0)
    IN  IF pick = {} THEN -1 ELSE m[CHOOSE i \in pick : TRUE].base

\* used_bytes_to_frame_count
frame_count(size) == (size + PAGE_SIZE - 1) \div PAGE_SIZE

\* physmem_addr_mark: an entry sets or clears the frames it reaches.
frames_of(m, e) ==
    {f \in 0 .. total(m) - 1 : f >= e.base \div PAGE_SIZE
                             /\ f < (e.base + e.length) \div PAGE_SIZE}
mark_entry(m, set, e) ==
    IF e.type = "usable" THEN set \ frames_of(m, e) ELSE set \cup frames_of(m, e)
marked(m) ==
    LET mark[i \in 0 .. Len(m)] ==
            IF i = 0 THEN 0 .. total(m) - 1 ELSE mark_entry(m, mark[i - 1], m[i])
    IN  mark[Len(m)]

mark_used(m, b, addr, count) ==
    b \cup {f \in 0 .. total(m) - 1 : f >= addr \div PAGE_SIZE
                                    /\ f < addr \div PAGE_SIZE + count}

physmem_init(m) ==
    mark_used(m, mark_used(m, marked(m), tracking_at(m), frame_count(tracking_size(m))),
              0, LOW_FRAMES)

PhysMemInit ==
    /\ mpr \in MemoryMaps /\ tracking_at(mpr) >= 0
    /\ bitmap = physmem_init(mpr)
    /\ runs = {}

\* Fault: a used frame does not end the row.
search_gaps(m, b, count) ==
    LET clear == (0 .. total(m) - 1) \ b
    IN  IF count > 0 /\ Cardinality(clear) >= count
        THEN CHOOSE f \in clear : \A g \in clear : f <= g ELSE 0

\* The scan for `count' clear bits in a row: how many are in a row so far,
\* where they began, and whether they are enough.  0: there are none.
scan_bit(b, count, s, f) ==
    IF s.found THEN s
    ELSE IF f \in b THEN [row |-> 0, start |-> s.start, found |-> FALSE]
    ELSE [row   |-> s.row + 1,
          start |-> IF s.row = 0 THEN f ELSE s.start,
          found |-> s.row + 1 >= count]
no_row == [row |-> 0, start |-> 0, found |-> FALSE]
search(m, b, count) ==
    LET scan[f \in 0 .. total(m)] ==
            IF f = 0 THEN no_row ELSE scan_bit(b, count, scan[f - 1], f - 1)
        s == scan[total(m)]
    IN  IF count > 0 /\ s.found THEN s.start ELSE 0

physmem_alloc_to(count) ==
    LET f == search(mpr, bitmap, count) IN
    /\ f # 0
    /\ bitmap' = mark_used(mpr, bitmap, f * PAGE_SIZE, count)
    /\ runs' = runs \cup {[at |-> f, len |-> count]}
    /\ UNCHANGED mpr

physmem_free_to(r) ==
    /\ bitmap' = bitmap \ (r.at .. r.at + r.len - 1)
    /\ runs' = runs \ {r}
    /\ UNCHANGED mpr

PhysMemNext == \/ \E n \in RunLengths : physmem_alloc_to(n)
               \/ \E r \in runs : physmem_free_to(r)

PhysMemSpec == PhysMemInit /\ [][PhysMemNext]_pvars
-----------------------------------------------------------------------------
\* Nobody gets a frame that is not memory, that the boot loader or firmware
\* keeps, that lies below 1 MB, or that holds the records and the bitmap.
FramesAreUsable ==
    \A r \in runs : \A f \in r.at .. r.at + r.len - 1 :
        /\ \E e \in entries(mpr, {"usable"}) :
             f * PAGE_SIZE >= e.base /\ (f + 1) * PAGE_SIZE <= e.base + e.length
        /\ f >= LOW_FRAMES
        /\ \/ (f + 1) * PAGE_SIZE <= tracking_at(mpr)
           \/ f * PAGE_SIZE >= tracking_at(mpr) + tracking_size(mpr)

\* A request is refused only when there is no such run of free frames; else
\* it gets the lowest one.
FirstRun ==
    \A n \in RunLengths \ {0} :
        LET free(f) == f + n <= total(mpr) /\ \A g \in f .. f + n - 1 : g \notin bitmap
            f == search(mpr, bitmap, n)
        IN  /\ f # 0 => free(f)
            /\ \A g \in 0 .. total(mpr) : free(g) => f # 0 /\ f <= g

\* Every set bit is reserved since the start or belongs to one run, so what
\* is freed can be taken again and nothing is taken twice.
FramesAccounted ==
    /\ bitmap = physmem_init(mpr) \cup UNION {r.at .. r.at + r.len - 1 : r \in runs}
    /\ \A r, q \in runs : r # q => r.at + r.len <= q.at \/ q.at + q.len <= r.at

\* The frames handed out exist, are the lowest run that fits, and are counted.
FramesSound == FramesAreUsable /\ FirstRun /\ FramesAccounted
=============================================================================
