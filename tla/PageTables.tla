----------------------------- MODULE PageTables ------------------------------
(***************************************************************************)
(* Four-level page tables, kernel/mem/paging/paging.c, and the part of     *)
(* vmm.c that makes address spaces out of them and takes them apart:       *)
(* tables are frames, made on the way down when a page is mapped and freed *)
(* on the way up when their last entry goes.                               *)
(*                                                                         *)
(* A page is the tuple of its four table indices, an entry the frame it    *)
(* points to.  The upper half (top index Kernel) belongs to the kernel:    *)
(* its tables are made during boot and shared by every space.              *)
(***************************************************************************)
EXTENDS Integers, Sequences, FiniteSets

CONSTANTS
    FRAMES,         \* frames are 1 .. FRAMES; 0 is no frame
    Idx,            \* indices of a table
    Kernel,         \* the top index of the kernel's half
    UserPages,      \* pages programs map
    KernelPages,    \* pages of the kernel heap, mapped during boot
    PTSpaces        \* address spaces

ASSUME PageTablesAssumption ==
    /\ FRAMES \in Nat \ {0} /\ Kernel \in Idx
    /\ \A v \in UserPages : v \in Idx \X Idx \X Idx \X Idx /\ v[1] # Kernel
    /\ \A v \in KernelPages : v \in Idx \X Idx \X Idx \X Idx /\ v[1] = Kernel

VARIABLES
    pt_used,    \* physmem: frames in use
    table,      \* what each frame holds, read as a table
    pml4,       \* the top table of each space, 0: the space does not exist
    booting,    \* the kernel heap is still being mapped
    halted,     \* the kernel has panicked
    call,       \* vmm_space_alloc: the pages the running call has mapped, with their space
    undo,       \* "no": no call has been undone yet, "now": one is, "once": one was
    lost        \* history: frames in use that no table of a space leads to

ptvars == <<pt_used, table, pml4, booting, halted, call, undo, lost>>

KernelPml4 == 1
Empty == [i \in Idx |-> 0]
\* What a program may have left in a frame: it could look like anything.
Junk == [i \in Idx |-> KernelPml4]

PageTablesInit ==
    /\ pt_used = {KernelPml4}
    /\ table = [f \in 1 .. FRAMES |-> IF f = KernelPml4 THEN Empty ELSE Junk]
    /\ pml4 = [s \in PTSpaces |-> 0]
    /\ booting = TRUE /\ halted = FALSE
    /\ call = {} /\ undo = "no" /\ lost = {}

\* Memory as the functions below see it; frame 0 stands for no memory left.
memory == [used |-> pt_used, table |-> table]
physmem_alloc(m) ==
    LET unused == (1 .. FRAMES) \ m.used
    IN  IF unused = {} THEN 0 ELSE CHOOSE f \in unused : \A g \in unused : f <= g

\* Fault: a new table keeps what the frame held.
get_or_create_dirty(r, i) ==
    LET f == physmem_alloc(r.m)
    IN  IF r.at = 0 THEN r
        ELSE IF r.m.table[r.at][i] # 0 THEN [r EXCEPT !.at = r.m.table[r.at][i]]
        ELSE IF f = 0 THEN [r EXCEPT !.at = 0]
        ELSE [at |-> f, m |-> [used  |-> r.m.used \cup {f},
                               table |-> [r.m.table EXCEPT ![r.at][i] = f]]]

\* The entry `i' of table t, made if it is missing: a zeroed frame.  `at' is
\* the table reached, 0 when memory ran out.
get_or_create(r, i) ==
    LET f == physmem_alloc(r.m)
    IN  IF r.at = 0 THEN r
        ELSE IF r.m.table[r.at][i] # 0 THEN [r EXCEPT !.at = r.m.table[r.at][i]]
        ELSE IF f = 0 THEN [r EXCEPT !.at = 0]
        ELSE [at |-> f, m |-> [used  |-> r.m.used \cup {f},
                               table |-> [r.m.table EXCEPT ![f] = Empty, ![r.at][i] = f]]]

\* paging_map_page and paging_map_page_in: PDPT, PD, PT, then the page.
map_page(m, top, v, frame) ==
    LET pt == get_or_create(get_or_create(get_or_create(
                  [m |-> m, at |-> top], v[1]), v[2]), v[3])
    IN  IF pt.at = 0 THEN pt
        ELSE [pt EXCEPT !.m.table[pt.at][v[4]] = frame]

\* The tables on the way to v, as far as they exist.
below(m, t, i) == IF t = 0 THEN 0 ELSE m.table[t][i]
pdpt(m, top, v) == below(m, top, v[1])
pd(m, top, v) == below(m, pdpt(m, top, v), v[2])
pt(m, top, v) == below(m, pd(m, top, v), v[3])
pte_lookup(m, top, v) == below(m, pt(m, top, v), v[4])

\* Entry i of t is cleared, and what it pointed to is free.
drop(m, t, i) == [used  |-> m.used \ {m.table[t][i]},
                  table |-> [m.table EXCEPT ![t][i] = 0]]
empty(m, t) == m.table[t] = Empty

\* Fault: the tables stay when their last entry goes.
free_page_only(m, top, v) ==
    IF pte_lookup(m, top, v) = 0 THEN m ELSE drop(m, pt(m, top, v), v[4])

\* vmm_space_free for one page: the frame goes, then each table that this
\* leaves without entries.
free_page(m, top, v) ==
    LET m1 == drop(m, pt(m, top, v), v[4])
        m2 == drop(m1, pd(m, top, v), v[3])
        m3 == drop(m2, pdpt(m, top, v), v[2])
        m4 == drop(m3, top, v[1])
    IN  IF pte_lookup(m, top, v) = 0 THEN m
        ELSE IF ~empty(m1, pt(m, top, v)) THEN m1
        ELSE IF ~empty(m2, pd(m, top, v)) THEN m2
        ELSE IF ~empty(m3, pdpt(m, top, v)) THEN m3
        ELSE m4

\* paging_unmap_page_in: the entry is cleared, its frame and the tables stay.
unmap_page(m, top, v) == [m EXCEPT !.table[pt(m, top, v)][v[4]] = 0]

\* The tables and the pages below a top table through the given indices.
Entries(t) == {table[t][i] : i \in Idx} \ {0}
Pdpts(t, is) == {table[t][i] : i \in is} \ {0}
Tables(t, is) == LET p3 == Pdpts(t, is)
                     p2 == UNION {Entries(p) : p \in p3}
                     p1 == UNION {Entries(p) : p \in p2}
                 IN  p3 \cup p2 \cup p1
Leaves(t, is) == UNION {Entries(p) : p \in UNION {Entries(q) : q \in
                     UNION {Entries(x) : x \in Pdpts(t, is)}}}
User == Idx \ {Kernel}

is_mapped(s, v) == pml4[s] # 0 /\ pte_lookup(memory, pml4[s], v) # 0
holds(m) == pt_used' = m.used /\ table' = m.table
alive == ~halted
idle == call = {}    \* a system call is not interrupted
-----------------------------------------------------------------------------
\* paging_init maps the kernel heap before there is any space.
paging_init(v) ==
    LET f == physmem_alloc(memory)
        r == map_page([memory EXCEPT !.used = @ \cup {f}], KernelPml4, v, f)
    IN  /\ alive /\ booting /\ f # 0
        /\ pte_lookup(memory, KernelPml4, v) = 0
        /\ holds(r.m) /\ halted' = (r.at = 0)
        /\ UNCHANGED <<pml4, booting, call, undo, lost>>

boot_done == /\ alive /\ booting
             /\ \A v \in KernelPages : pte_lookup(memory, KernelPml4, v) # 0
             /\ booting' = FALSE
             /\ UNCHANGED <<pt_used, table, pml4, halted, call, undo, lost>>

\* A new top table: zeroed, then the kernel's half copied.
top_table == [Empty EXCEPT ![Kernel] = table[KernelPml4][Kernel]]
vmm_space_create(s) ==
    LET f == physmem_alloc(memory) IN
    /\ alive /\ idle /\ ~booting /\ pml4[s] = 0 /\ f # 0
    /\ pt_used' = pt_used \cup {f}
    /\ table' = [table EXCEPT ![f] = top_table]
    /\ pml4' = [pml4 EXCEPT ![s] = f]
    /\ UNCHANGED <<booting, halted, call, undo, lost>>

\* vmm_space_alloc, one page after the other: the frame first, then the
\* tables, whose lack is a panic.  The program writes what it likes into the
\* frame.
vmm_space_alloc_page(s, v) ==
    LET f == physmem_alloc(memory)
        r == map_page([used |-> pt_used \cup {f}, table |-> [table EXCEPT ![f] = Junk]],
                      pml4[s], v, f)
    IN  /\ alive /\ undo # "now" /\ \A c \in call : c[1] = s
        /\ pml4[s] # 0 /\ f # 0 /\ ~is_mapped(s, v)
        /\ holds(r.m) /\ halted' = (r.at = 0)
        /\ call' = call \cup {<<s, v>>}
        /\ UNCHANGED <<pml4, booting, undo, lost>>

\* All pages are mapped and the region is entered.
vmm_space_alloc_done ==
    /\ alive /\ ~idle /\ undo # "now"
    /\ call' = {}
    /\ UNCHANGED <<pt_used, table, pml4, booting, halted, undo, lost>>

\* There is no frame for the next page: what the call has mapped is unmapped
\* again, and nothing keeps the frames.
vmm_space_alloc_undo(s, v) ==
    /\ alive /\ <<s, v>> \in call /\ is_mapped(s, v)
    /\ undo = "now" \/ physmem_alloc(memory) = 0
    /\ holds(unmap_page(memory, pml4[s], v))
    /\ lost' = lost \cup {pte_lookup(memory, pml4[s], v)}
    /\ call' = call \ {<<s, v>>}
    /\ undo' = IF call' = {} THEN "once" ELSE "now"
    /\ UNCHANGED <<pml4, booting, halted>>

vmm_space_free_page(s, v) ==
    /\ alive /\ idle /\ is_mapped(s, v)
    /\ holds(free_page(memory, pml4[s], v))
    /\ UNCHANGED <<pml4, booting, halted, call, undo, lost>>

\* Every region is freed, then the top table: tables that are empty but were
\* not freed with a page stay behind.
vmm_space_destroy(s) ==
    /\ alive /\ idle /\ pml4[s] # 0
    /\ \A v \in UserPages : ~is_mapped(s, v)
    /\ pt_used' = pt_used \ {pml4[s]}
    /\ pml4' = [pml4 EXCEPT ![s] = 0]
    /\ lost' = lost \cup Tables(pml4[s], User)
    /\ UNCHANGED <<table, booting, halted, call, undo>>

PageTablesNext ==
    \/ \E v \in KernelPages : paging_init(v)
    \/ boot_done
    \/ \E s \in PTSpaces : vmm_space_create(s) \/ vmm_space_destroy(s)
    \/ vmm_space_alloc_done
    \/ \E s \in PTSpaces, v \in UserPages :
         vmm_space_alloc_page(s, v) \/ vmm_space_alloc_undo(s, v) \/ vmm_space_free_page(s, v)

PageTablesSpec == PageTablesInit /\ [][PageTablesNext]_ptvars
-----------------------------------------------------------------------------
Live == {s \in PTSpaces : pml4[s] # 0}
Private(s) == {pml4[s]} \cup Tables(pml4[s], User) \cup Leaves(pml4[s], User)
KernelFrames == {KernelPml4} \cup Tables(KernelPml4, Idx) \cup Leaves(KernelPml4, Idx)

\* Every frame in use is the kernel's, belongs to one space, as a table or as
\* a page of it, or is lost: no frame is two of these.  Until a call is undone
\* for lack of memory no frame is lost, and a table of a space that is not the
\* top one is never empty.
TablesAccounted ==
    ~halted =>
    /\ pt_used = KernelFrames \cup lost \cup UNION {Private(s) : s \in Live}
    /\ \A s \in Live : Private(s) \cap KernelFrames = {}
    /\ \A s, u \in Live : s # u => Private(s) \cap Private(u) = {}
    /\ lost \cap KernelFrames = {} /\ \A s \in Live : lost \cap Private(s) = {}
    /\ undo = "no" =>
         /\ lost = {}
         /\ \A s \in Live : \A t \in Tables(pml4[s], User) : table[t] # Empty

\* Whatever a space does, it sees the kernel's heap where the kernel does.
KernelIsShared ==
    ~booting => \A s \in Live, v \in KernelPages :
        /\ pte_lookup(memory, pml4[s], v) = pte_lookup(memory, KernelPml4, v)
        /\ pte_lookup(memory, KernelPml4, v) # 0

\* The tables of all spaces form trees that share the kernel's half and
\* nothing else.
TablesSound == TablesAccounted /\ KernelIsShared

\* A step changes what at most one page of one space translates to, making
\* it present or absent, and never moves a page that stays mapped.
OnePageAtATime ==
    [][\A s, u \in PTSpaces, v, w \in UserPages :
          LET was(x, y) == IF pml4[x] = 0 THEN 0 ELSE pte_lookup(memory, pml4[x], y)
              is(x, y) == IF pml4'[x] = 0 THEN 0 ELSE pte_lookup(memory', pml4'[x], y)
          IN  ~halted' =>
              /\ was(s, v) # 0 /\ is(s, v) # 0 => was(s, v) = is(s, v)
              /\ was(s, v) # is(s, v) /\ was(u, w) # is(u, w) => s = u /\ v = w]_ptvars
=============================================================================
