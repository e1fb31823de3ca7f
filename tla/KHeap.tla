-------------------------------- MODULE KHeap --------------------------------
(***************************************************************************)
(* The kernel heap, kernel/mem/kheap/kheap.c: a list of blocks, each with  *)
(* its header in front of it, split by kmalloc and merged by kfree.        *)
(*                                                                         *)
(* The list is a sequence of blocks in list order with the address of each *)
(* header, counted from HEAP_START.  Callers free what they got, once.     *)
(***************************************************************************)
EXTENDS BlockList, FiniteSets

CONSTANTS HEAP_SIZE, HEADER, ALIGN, SPLIT, Requests

ASSUME KHeapAssumption ==
    /\ HEADER \in Nat \ {0} /\ ALIGN \in Nat \ {0} /\ SPLIT \in Nat
    /\ HEAP_SIZE \in Nat /\ HEAP_SIZE > HEADER
    /\ Requests \subseteq Nat

VARIABLES
    heap,       \* the blocks: [base, size, used]
    stats,      \* kheap_stats
    held        \* what callers hold: [ptr, asked]

kvars == <<heap, stats, held>>

KHeapInit ==
    /\ heap = <<[base |-> 0, size |-> HEAP_SIZE - HEADER, used |-> FALSE]>>
    /\ stats = [used_size |-> 0, free_size |-> HEAP_SIZE - HEADER,
                total_blocks |-> 1, used_blocks |-> 0]
    /\ held = {}

cuts(x, size) == splits(x, size, HEADER, SPLIT)

\* The counters after a block has been taken.
counted(s, x, size) ==
    LET cut  == cuts(x, size)
        gets == IF cut THEN size ELSE x.size
    IN  [used_size    |-> s.used_size + gets,
         free_size    |-> s.free_size - gets - (IF cut THEN HEADER ELSE 0),
         total_blocks |-> s.total_blocks + (IF cut THEN 1 ELSE 0),
         used_blocks  |-> s.used_blocks + 1]

\* kmalloc on a heap [heap, stats]: the address, or -1 for NULL.
kmalloc(k, asked) ==
    LET size == round_up(asked, ALIGN)
        i    == first_fit(k.heap, size)
    IN  IF asked = 0 \/ i = 0 THEN [k EXCEPT !.ptr = -1]
        ELSE [heap |-> taken(k.heap, i, size, HEADER, SPLIT), stats |-> counted(k.stats, k.heap[i], size),
              ptr |-> k.heap[i].base + HEADER]

\* Blocks behind i that are free are joined to it, one after the other;
\* then it is joined to the free ones in front.
merge_free_blocks(b, i) ==
    LET after == Cardinality({j \in i + 1 .. Len(b) : \A q \in i + 1 .. j : ~b[q].used})
        front == Cardinality({j \in 1 .. i - 1 : \A q \in j .. i - 1 : ~b[q].used})
        fwd[n \in 0 .. after] == IF n = 0 THEN b ELSE join(fwd[n - 1], i, HEADER)
        bwd[n \in 0 .. front] == IF n = 0 THEN fwd[after] ELSE join(bwd[n - 1], i - n, HEADER)
    IN  bwd[front]

kfree(k, ptr) ==
    LET i == block_at(k.heap, ptr - HEADER)
        b == [k.heap EXCEPT ![i].used = FALSE]
        m == merge_free_blocks(b, i)
        joined == Len(b) - Len(m)
    IN  IF i = 0 \/ ~k.heap[i].used THEN k
        ELSE [heap |-> m, ptr |-> k.ptr,
              stats |-> [used_size    |-> k.stats.used_size - b[i].size,
                         free_size    |-> k.stats.free_size + b[i].size + joined * HEADER,
                         total_blocks |-> k.stats.total_blocks - joined,
                         used_blocks  |-> k.stats.used_blocks - 1]]

now == [heap |-> heap, stats |-> stats, ptr |-> -1]
becomes(k) == heap' = k.heap /\ stats' = k.stats

alloc(asked) ==
    LET k == kmalloc(now, asked) IN
    /\ becomes(k)
    /\ held' = IF k.ptr = -1 THEN held ELSE held \cup {[ptr |-> k.ptr, asked |-> asked]}

release(h) == becomes(kfree(now, h.ptr)) /\ held' = held \ {h}

\* krealloc gives the block back when it is large enough, else moves the
\* contents to a new one; without memory for it the old one stays.
block_size(ptr) == heap[block_at(heap, ptr - HEADER)].size
krealloc(h, asked) ==
    LET k == kmalloc(now, asked) IN
    /\ asked > 0
    /\ IF asked <= block_size(h.ptr)
       THEN /\ UNCHANGED <<heap, stats>>
            /\ held' = (held \ {h}) \cup {[h EXCEPT !.asked = asked]}
       ELSE IF k.ptr = -1 THEN UNCHANGED kvars
       ELSE /\ becomes(kfree(k, h.ptr))
            /\ held' = (held \ {h}) \cup {[ptr |-> k.ptr, asked |-> asked]}

KHeapNext ==
    \/ \E n \in Requests : alloc(n)
    \/ \E h \in held : release(h)
    \/ \E h \in held, n \in Requests : krealloc(h, n)

KHeapSpec == KHeapInit /\ [][KHeapNext]_kvars
-----------------------------------------------------------------------------
\* The blocks tile the heap without gap or overlap, whatever was split and
\* merged, and each caller has a used block as large as it asked for.
HeapTiled ==
    /\ Tiles(heap, HEADER, HEAP_SIZE)
    /\ \A h \in held : \E i \in 1 .. Len(heap) :
         heap[i].used /\ heap[i].base + HEADER = h.ptr /\ heap[i].size >= h.asked
    /\ Cardinality(held) = Cardinality({i \in 1 .. Len(heap) : heap[i].used})

\* No two free blocks lie side by side: the heap heals, and once everything
\* is freed it is one block again.
HeapCoalesced == Coalesced(heap)

\* The counters add up to the heap and count its blocks.
HeapStats ==
    /\ stats.used_size + stats.free_size + HEADER * stats.total_blocks = HEAP_SIZE
    /\ stats.total_blocks = Len(heap)
    /\ stats.used_blocks = Cardinality(held)
    /\ stats.free_size = total_size(heap, FALSE)

\* Callers see an allocator: what they hold never overlaps and stays put
\* until they give it back, across every split and merge.
HeapOut == {[at |-> h.ptr, len |-> h.asked] : h \in held}
KHeapPromise == INSTANCE Allocator WITH out <- HeapOut, Limit <- HEAP_SIZE
KHeapAllocates == KHeapPromise!Spec
=============================================================================
