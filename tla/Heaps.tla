-------------------------------- MODULE Heaps --------------------------------
(***************************************************************************)
(* The three allocators side by side: the kernel heap, the arena of malloc *)
(* and the kernel's arena of virtual addresses.  They share no state.      *)
(***************************************************************************)
EXTENDS KHeap, LibcHeap, VmmArena

\* The kernel heap, the arena of malloc and the kernel's virtual arena are
\* tiled by their blocks, whatever was split and merged; free neighbours are
\* always one block, and the statistics of the kernel are true.
HeapsSound ==
    /\ HeapTiled /\ HeapCoalesced /\ HeapStats
    /\ ArenaTiled
    /\ ArenaWhole /\ ArenaCounts

\* All three keep the promise of an allocator to their callers: kmalloc,
\* malloc and vmm_alloc never hand out what somebody else still holds.
HeapsAllocate == KHeapAllocates /\ LibcAllocates /\ ArenaAllocates
=============================================================================
