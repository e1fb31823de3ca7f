------------------------------ MODULE LibcHeap -------------------------------
(***************************************************************************)
(* malloc of the user C library, user/libc/src/stdlib.c: one arena from    *)
(* mmap, a singly linked list of blocks, and a sweep over the whole list   *)
(* that joins neighbours on every free.                                    *)
(***************************************************************************)
EXTENDS BlockList, FiniteSets

CONSTANTS
    ARENA_SIZE, BLOCK, MALLOC_ALIGNMENT,
    SIZE_MAX,           \* largest size_t
    Sizes               \* sizes and counts a program asks for

ASSUME LibcHeapAssumption ==
    /\ BLOCK \in Nat \ {0} /\ MALLOC_ALIGNMENT \in Nat \ {0}
    /\ ARENA_SIZE \in Nat /\ ARENA_SIZE > BLOCK
    /\ SIZE_MAX \in Nat /\ SIZE_MAX >= ARENA_SIZE
    /\ Sizes \subseteq 0 .. SIZE_MAX

VARIABLES
    blocks,     \* the list, empty before the first malloc
    owned       \* what the program holds: [ptr, asked]

lvars == <<blocks, owned>>
LibcHeapInit == blocks = <<>> /\ owned = {}

align_size(size) == round_up(size, MALLOC_ALIGNMENT) % (SIZE_MAX + 1)

\* mmap may fail; then there is no arena and malloc returns NULL.
heap_init(b, mapped) ==
    IF b # <<>> THEN b
    ELSE IF mapped THEN <<[base |-> 0, size |-> ARENA_SIZE - BLOCK, used |-> FALSE]>>
    ELSE <<>>

split_block(b, i, size) == taken(b, i, size, BLOCK, MALLOC_ALIGNMENT)

\* The list and the address after malloc, -1 for NULL.
malloc(b, asked, mapped) ==
    LET a    == IF asked = 0 THEN b ELSE heap_init(b, mapped)
        size == align_size(asked)
        i    == first_fit(a, size)
    IN  IF asked = 0 \/ i = 0 THEN [list |-> a, ptr |-> -1]
        ELSE [list |-> split_block(a, i, size), ptr |-> a[i].base + BLOCK]

\* The loop of free, from the first block on: a free block swallows the free
\* one behind it, else the next block is looked at.  Every turn brings the
\* end of the list one block nearer.
sweep_turn(s) ==
    LET b == s.list
        i == s.at
    IN  IF ~b[i].used /\ ~b[i + 1].used THEN [list |-> join(b, i, BLOCK), at |-> i]
        ELSE [list |-> b, at |-> i + 1]
sweep(b) ==
    LET after[n \in 0 .. Len(b) - 1] ==
            IF n = 0 THEN [list |-> b, at |-> 1] ELSE sweep_turn(after[n - 1])
    IN  after[Len(b) - 1].list

free(b, ptr) == sweep([b EXCEPT ![block_at(b, ptr - BLOCK)].used = FALSE])

got(ptr, asked) == IF ptr = -1 THEN {} ELSE {[ptr |-> ptr, asked |-> asked]}

call_malloc(asked) == \E mapped \in BOOLEAN :
    LET m == malloc(blocks, asked, mapped) IN
    /\ blocks' = m.list
    /\ owned' = owned \cup got(m.ptr, asked)

\* The product is refused when it does not fit in a size_t.
calloc_total(count, size) ==
    IF size # 0 /\ count > SIZE_MAX \div size THEN -1
    ELSE (count * size) % (SIZE_MAX + 1)

calloc(count, size) == \E mapped \in BOOLEAN :
    LET total == calloc_total(count, size)
        m     == malloc(blocks, total, mapped)
    IN  /\ total >= 0
        /\ blocks' = m.list
        /\ owned' = owned \cup got(m.ptr, count * size)

call_free(h) == blocks' = free(blocks, h.ptr) /\ owned' = owned \ {h}

realloc(h, asked) ==
    LET m == malloc(blocks, asked, TRUE) IN
    /\ asked > 0
    /\ IF blocks[block_at(blocks, h.ptr - BLOCK)].size >= asked
       THEN /\ UNCHANGED blocks
            /\ owned' = (owned \ {h}) \cup {[h EXCEPT !.asked = asked]}
       ELSE IF m.ptr = -1 THEN UNCHANGED lvars
       ELSE /\ blocks' = free(m.list, h.ptr)
            /\ owned' = (owned \ {h}) \cup got(m.ptr, asked)

LibcHeapNext ==
    \/ \E n \in Sizes : call_malloc(n)
    \/ \E c, n \in Sizes : calloc(c, n)
    \/ \E h \in owned : call_free(h)
    \/ \E h \in owned, n \in Sizes : realloc(h, n)

LibcHeapSpec == LibcHeapInit /\ [][LibcHeapNext]_lvars
-----------------------------------------------------------------------------
\* The list tiles the arena, every pointer the program holds is a used block
\* with room for what was asked (calloc: for count times size), and no two
\* free blocks lie side by side after any sequence of calls.
ArenaTiled ==
    /\ blocks # <<>> => Tiles(blocks, BLOCK, ARENA_SIZE) /\ Coalesced(blocks)
    /\ \A h \in owned : \E i \in 1 .. Len(blocks) :
         /\ blocks[i].used /\ blocks[i].base + BLOCK = h.ptr
         /\ blocks[i].size >= h.asked
    /\ Cardinality(owned) = Cardinality({i \in 1 .. Len(blocks) : blocks[i].used})

\* A program sees an allocator.
LibcPromise == INSTANCE Allocator
    WITH out <- {[at |-> h.ptr, len |-> h.asked] : h \in owned}, Limit <- ARENA_SIZE
LibcAllocates == LibcPromise!Spec
=============================================================================
