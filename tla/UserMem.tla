------------------------------- MODULE UserMem -------------------------------
(***************************************************************************)
(* mmap, munmap and brk of kernel/arch/x86_64/user/sys_mem.c for one       *)
(* process, over the sorted list of regions that vmm.c keeps.              *)
(*                                                                         *)
(* Addresses are bytes and wrap at WORD (2^64 in the code); the limits of  *)
(* the user half keep their order and their being one below a page.       *)
(***************************************************************************)
EXTENDS Integers, Sequences, SequencesExt, FiniteSets

CONSTANTS
    UM_PAGE,                \* PAGE_SIZE
    WORD,                   \* 2^64
    LOW, BRK_START, MMAP_START, TOP,
    UM_FRAMES,              \* frames of memory, 1 .. UM_FRAMES
    Hints, Lengths, Breaks, \* what programs pass
    MmapSituations

\* overlap:   MAP_FIXED over part of a region, or brk over pages still mapped
\*            (it never unmaps when it shrinks, and starts anew in a child)
\* unaligned: brk grows from a break inside a page
\* oom:       the frames run out, as they do for every length that passes the
\*            checks because its end wraps around the address space
AllMmapSituations == {"overlap", "unaligned", "oom"}

ASSUME UserMemAssumption ==
    /\ UM_PAGE \in Nat \ {0} /\ UM_FRAMES \in Nat \ {0}
    /\ {WORD, LOW, BRK_START, MMAP_START, TOP} \subseteq Nat /\ WORD % UM_PAGE = 0
    /\ 0 < LOW /\ LOW <= BRK_START /\ BRK_START <= MMAP_START /\ MMAP_START < TOP
    /\ TOP + 2 * (UM_FRAMES * UM_PAGE) < WORD
    /\ BRK_START % UM_PAGE = 0 /\ MMAP_START % UM_PAGE = 0
    /\ Hints \subseteq 0 .. WORD - 1 /\ Lengths \subseteq 0 .. WORD - 1 /\ Breaks \subseteq 0 .. WORD - 1
    /\ MmapSituations \subseteq AllMmapSituations

VARIABLES
    um_space,       \* [regions, frame, used]: the space, its pages, the frames taken
    heap_break      \* proc_t.heap_break, 0: brk has not been called

umvars == <<um_space, heap_break>>

PageBases == {a \in 0 .. WORD - 1 : a % UM_PAGE = 0}

UserMemInit ==
    /\ um_space = [regions |-> <<>>, frame |-> [a \in PageBases |-> 0], used |-> {}]
    /\ heap_break = 0

align_down(a) == a - (a % UM_PAGE)
page_count(bytes) == ((bytes + UM_PAGE - 1) % WORD) \div UM_PAGE
region_end(r) == (r.base + r.size) % WORD
pages_at(base, n) == {(base + i * UM_PAGE) % WORD : i \in 0 .. n - 1}
mapped(m) == {a \in PageBases : m.frame[a] # 0}

is_vaddr_range_free(m, v, size) ==
    /\ v >= LOW /\ (v + size) % WORD <= TOP
    /\ \A i \in 1 .. Len(m.regions) :
         LET r == m.regions[i] IN region_end(r) <= v \/ r.base >= (v + size) % WORD

\* One region further in the search for a gap.
gap_step(gap, r, size) ==
    IF gap.found \/ region_end(r) <= gap.at THEN gap
    ELSE IF r.base >= (gap.at + size) % WORD THEN [at |-> gap.at, found |-> TRUE]
    ELSE [at |-> region_end(r), found |-> FALSE]

\* The first gap of that size from MMAP_START on, 0 when there is none.
find_free_vaddr(m, size) ==
    LET gap[i \in 0 .. Len(m.regions)] ==
            IF i = 0 THEN [at |-> MMAP_START, found |-> FALSE]
            ELSE gap_step(gap[i - 1], m.regions[i], size)
        at == gap[Len(m.regions)].at
    IN  IF (at + size) % WORD > TOP THEN 0 ELSE at

\* Fault: the list is not kept in order.
insert_last(rs, r) == Append(rs, r)

\* A region goes before the first one that does not start below it.
insert(rs, r) ==
    LET n == Cardinality({i \in 1 .. Len(rs) : rs[i].base < r.base})
    IN  InsertAt(rs, n + 1, r)

\* physmem_alloc_to gives out the lowest free frame: the k-th call the one
\* with k free ones below it.
free_frames(m) == (1 .. UM_FRAMES) \ m.used
nth_free(m, k) == CHOOSE f \in free_frames(m) : Cardinality({g \in free_frames(m) : g < f}) = k

\* One frame per page.  When they run out the pages mapped so far are
\* unmapped again, their frames are not given back.  The base of the region,
\* or 0, is in `ret'.
vmm_space_alloc(m, v, n) ==
    LET base == align_down(v)
        free == Cardinality(free_frames(m))
        ok   == n <= free
        taken == IF ok THEN n ELSE free
        touched == pages_at(base, taken)
        nth(a) == ((a - base) % WORD) \div UM_PAGE
    IN  IF n = 0 THEN [space |-> m, ret |-> 0]
        ELSE [ret |-> IF ok THEN base ELSE 0,
              space |->
                [regions |-> IF ok THEN insert(m.regions, [base |-> base, size |-> n * UM_PAGE])
                             ELSE m.regions,
                 frame |-> [a \in PageBases |-> IF a \notin touched THEN m.frame[a]
                                                ELSE IF ok THEN nth_free(m, nth(a)) ELSE 0],
                 used |-> m.used \cup {nth_free(m, k) : k \in 0 .. taken - 1}]]

\* Only a region that begins at v goes.
vmm_space_free(m, v) ==
    LET i == SelectInSeq(m.regions, LAMBDA r : r.base = v)
        gone == pages_at(v, m.regions[i].size \div UM_PAGE)
    IN  IF v = 0 \/ i = 0 THEN m
        ELSE [regions |-> RemoveAt(m.regions, i),
              used    |-> m.used \ {m.frame[a] : a \in gone},
              frame   |-> [a \in PageBases |-> IF a \in gone THEN 0 ELSE m.frame[a]]]

\* Where a mapping goes and the space it is made in.
target(m, hint, size, fixed) ==
    LET at   == align_down(hint)
        free == is_vaddr_range_free(m, at, size)
        m1   == IF hint # 0 /\ fixed /\ ~free THEN vmm_space_free(m, at) ELSE m
        want == IF hint # 0 /\ (fixed \/ free) THEN at ELSE 0
    IN  [space |-> m1, at |-> IF want # 0 THEN want ELSE find_free_vaddr(m1, size)]

overlaps(m, v, n) == pages_at(align_down(v), n) \cap mapped(m) # {}
runs_out(m, n) == n > UM_FRAMES - Cardinality(m.used)

sys_mmap(hint, length, fixed) ==
    LET n == page_count(length)
        t == target(um_space, hint, (n * UM_PAGE) % WORD, fixed)
    IN  /\ length # 0 /\ t.at # 0
        /\ hint # 0 /\ fixed /\ overlaps(t.space, t.at, n) => "overlap" \in MmapSituations
        /\ runs_out(t.space, n) => "oom" \in MmapSituations
        /\ um_space' = vmm_space_alloc(t.space, t.at, n).space
        /\ UNCHANGED heap_break

\* vmm_space_find succeeds for any address of a region, vmm_space_free only
\* acts on its first one.
sys_munmap(addr) ==
    /\ addr # 0 /\ addr <= TOP
    /\ \E i \in 1 .. Len(um_space.regions) :
         LET r == um_space.regions[i] IN addr >= r.base /\ addr < region_end(r)
    /\ um_space' = vmm_space_free(um_space, addr)
    /\ UNCHANGED heap_break

current_break == IF heap_break = 0 THEN BRK_START ELSE heap_break

\* Fault: the page the new break ends in is not mapped.
grow_pages_down(new) == (new - current_break) \div UM_PAGE

grow_pages(new) == page_count(new - current_break)

sys_brk(new) ==
    IF new = 0 \/ new > TOP THEN heap_break' = current_break /\ UNCHANGED um_space
    ELSE IF new <= current_break THEN heap_break' = new /\ UNCHANGED um_space
    ELSE LET r == vmm_space_alloc(um_space, current_break, grow_pages(new)) IN
         /\ current_break % UM_PAGE # 0 => "unaligned" \in MmapSituations
         /\ overlaps(um_space, current_break, grow_pages(new)) => "overlap" \in MmapSituations
         /\ runs_out(um_space, grow_pages(new)) => "oom" \in MmapSituations
         /\ um_space' = r.space
         /\ heap_break' = IF r.ret = 0 THEN current_break ELSE new

\* The child has a copy of the regions and of nothing else; the model goes
\* on with the child.
process_fork == heap_break' = 0 /\ UNCHANGED um_space

UserMemNext ==
    \/ \E h \in Hints, n \in Lengths, f \in BOOLEAN : sys_mmap(h, n, f)
    \/ \E a \in Hints : sys_munmap(a)
    \/ \E b \in Breaks : sys_brk(b)
    \/ process_fork

UserMemSpec == UserMemInit /\ [][UserMemNext]_umvars
-----------------------------------------------------------------------------
\* As long as no call is made to map over pages that are mapped and the frames
\* last (no "overlap" and no "oom" in MmapSituations), the list of regions stays
\* sorted and free of overlap through mmap into gaps, MAP_FIXED over the start of
\* a region, munmap, brk and fork; the pages mapped are exactly those of the
\* regions, and every frame taken backs one page.  Three orders of calls do map
\* over mapped pages and do overlap, since sys_brk never unmaps and MAP_FIXED
\* frees only a region that starts at its address: brk up, down and up again, brk
\* in the child of a process that used brk, and MAP_FIXED over part of a region.
RegionsApart ==
    LET rs == um_space.regions IN
    /\ \A i \in 1 .. Len(rs) - 1 : rs[i].base + rs[i].size <= rs[i + 1].base
    /\ mapped(um_space) = UNION {pages_at(rs[i].base, rs[i].size \div UM_PAGE) : i \in 1 .. Len(rs)}
    /\ um_space.used = {um_space.frame[a] : a \in mapped(um_space)}
    /\ Cardinality(um_space.used) = Cardinality(mapped(um_space))

\* A mapping that is not MAP_FIXED leaves every page that was there alone
\* and lies in the user half, wherever the hint pointed.
MmapFindsGap ==
    [][\/ /\ \A a \in mapped(um_space) : um_space'.frame[a] = um_space.frame[a]
          /\ \A a \in mapped(um_space') \ mapped(um_space) : LOW <= a /\ a < TOP
       \/ \A h \in Hints, n \in Lengths : ~sys_mmap(h, n, FALSE)]_umvars

\* When brk grows, every byte up to the new break can be used.
GrownIsMapped ==
    [][heap_break' > current_break =>
          \A a \in current_break .. heap_break' - 1 : align_down(a) \in mapped(um_space')]_umvars

\* mmap and brk add what was asked for and touch nothing else.
CallsAddOnly == MmapFindsGap /\ GrownIsMapped
=============================================================================
