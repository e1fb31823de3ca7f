------------------------------ MODULE VmmArena -------------------------------
(***************************************************************************)
(* The kernel's arena of virtual addresses, vmm_init, vmm_alloc, vmm_free  *)
(* of kernel/mem/vmm/vmm.c.  Regions are kept in nodes of the kernel heap, *)
(* not in front of the memory they describe; sizes are in pages.           *)
(***************************************************************************)
EXTENDS BlockList, FiniteSets

CONSTANTS
    ARENA_PAGES,    \* VMM_LIMIT - VMM_BASE
    PageCounts      \* what the kernel asks for

ASSUME VmmArenaAssumption ==
    /\ ARENA_PAGES \in Nat \ {0}
    /\ PageCounts \subseteq Nat

VARIABLES
    arena,      \* vmm_head: the regions
    counts,     \* vmm_used, vmm_free_bytes, vmm_regions, vmm_used_regions
    leases      \* what callers hold: [at, len]

avars == <<arena, counts, leases>>

VmmArenaInit ==
    /\ arena = <<[base |-> 0, size |-> ARENA_PAGES, used |-> FALSE]>>
    /\ counts = [used |-> 0, free |-> ARENA_PAGES, regions |-> 1, used_regions |-> 0]
    /\ leases = {}

\* A split needs a node; without one nothing has happened yet.
vmm_alloc(n) ==
    LET i   == first_fit(arena, n)
        cut == arena[i].size > n
    IN  /\ n > 0 /\ i > 0
        /\ arena' = taken(arena, i, n, 0, 1)
        /\ counts' = [used |-> counts.used + n, free |-> counts.free - n,
                      regions |-> counts.regions + (IF cut THEN 1 ELSE 0),
                      used_regions |-> counts.used_regions + 1]
        /\ leases' = leases \cup {[at |-> arena[i].base, len |-> n]}

\* A region swallows the one behind it when both are free and they touch.
merges(b, i) ==
    /\ i >= 1 /\ i < Len(b)
    /\ ~b[i].used /\ ~b[i + 1].used
    /\ b[i].base + b[i].size = b[i + 1].base

merge_with_next(b, i) == IF merges(b, i) THEN join(b, i, 0) ELSE b

vmm_free(r) ==
    LET i == SelectInSeq(arena, LAMBDA x : x.base = r.at /\ x.used)
        b == [arena EXCEPT ![i].used = FALSE]
        m == merge_with_next(merge_with_next(b, i), i - 1)
    IN  /\ i > 0
        /\ arena' = m
        /\ counts' = [used |-> counts.used - arena[i].size,
                      free |-> counts.free + arena[i].size,
                      regions |-> counts.regions - (Len(b) - Len(m)),
                      used_regions |-> counts.used_regions - 1]
        /\ leases' = leases \ {r}

VmmArenaNext == \/ \E n \in PageCounts : vmm_alloc(n)
                \/ \E r \in leases : vmm_free(r)

VmmArenaSpec == VmmArenaInit /\ [][VmmArenaNext]_avars
-----------------------------------------------------------------------------
\* One merge on each side is enough: the regions tile the arena and no two
\* free ones touch, so a freed arena is one region again.
ArenaWhole == Tiles(arena, 0, ARENA_PAGES) /\ Coalesced(arena)

\* vmm_get_stats tells the truth about the list.
ArenaCounts ==
    /\ counts.used + counts.free = ARENA_PAGES
    /\ counts.regions = Len(arena)
    /\ counts.used_regions = Cardinality({i \in 1 .. Len(arena) : arena[i].used})
    /\ counts.used = total_size(arena, TRUE)

\* Callers see an allocator.
ArenaPromise == INSTANCE Allocator WITH out <- leases, Limit <- ARENA_PAGES
ArenaAllocates == ArenaPromise!Spec
=============================================================================
