------------------------------ MODULE CowSpaces ------------------------------
(***************************************************************************)
(* User address spaces of doccrOS and the physical frames behind them:     *)
(* vmm_space_*, vmm_clone_space, vmm_cow_break and the page fault handler  *)
(* of kernel/mem/vmm/vmm.c, the frame bitmap and reference counts of       *)
(* kernel/mem/phys/physmem.c, and the framebuffer mapping of fb0.c.        *)
(*                                                                         *)
(* Every operation runs in the kernel with interrupts off and is one       *)
(* action.  A store that faults is two: the handler returns to user mode,  *)
(* where the instruction is tried again, and a tick may come in between.   *)
(*                                                                         *)
(* Only the frames that hold user data are modelled; the frames of the     *)
(* page tables themselves never carry a reference count and are left out.  *)
(* physmem_alloc_to takes the lowest free frame; which one it is makes no  *)
(* difference here, so any free frame may be the one.                      *)
(***************************************************************************)
EXTENDS Integers, Sequences, FiniteSets

CONSTANTS
    Spaces,         \* slots for vmm_space_t
    Frames,         \* physical frames for user data
    Backbuffer,     \* the frame of the BS3 backbuffer, which fb0 maps
    NPAGES,         \* user pages are 1 .. NPAGES
    FB_MAP_VADDR,   \* the page fb0 maps the backbuffer at
    REGION_PAGES,   \* longest mapping a program asks for
    Values,         \* contents of a page
    NULL,
    Situations      \* what happens besides the plain course of events

Pages == 1 .. NPAGES
AllFrames == Frames \cup {Backbuffer}

\* refork:     a process forks that owns a frame whose count has run to zero
\* fork_mmio:  a process forks that has the framebuffer mapped
\* oom:        vmm_space_alloc runs out of frames
\* nomem:      kmalloc fails in the middle of vmm_clone_space
\* stray:      a program writes to a page it did not map for writing
AllSituations == {"refork", "fork_mmio", "oom", "nomem", "stray"}

ASSUME SpacesAssumption == IsFiniteSet(Spaces)
ASSUME FramesAssumption ==
    /\ Backbuffer \notin Frames
    /\ NULL \notin AllFrames /\ NULL \notin Values
    /\ Values # {}
ASSUME PagesAssumption ==
    /\ NPAGES \in Nat \ {0}
    /\ FB_MAP_VADDR \in Pages
    /\ REGION_PAGES \in Nat \ {0}
    /\ Situations \subseteq AllSituations

VARIABLES
    used,       \* physmem: the frames whose bitmap bit is set
    rc,         \* physmem: reference count of each frame
    data,       \* what each frame holds
    live,       \* the address spaces that exist
    regions,    \* vmm_space_t.regions, by address
    frame,      \* the frame each page table entry holds, NULL: not present
    wbit,       \* the writable bit of each page table entry
    wants,      \* history: the pages a program has mapped for writing
    panicked    \* the kernel has panicked

memVars == <<used, rc, data>>
vars == <<memVars, live, regions, frame, wbit, wants, panicked>>

Region == [base : Pages, size : 1 .. NPAGES, write : BOOLEAN, cow : BOOLEAN,
           mmio : BOOLEAN]

covers(r) == r.base .. r.base + r.size - 1
nothing_mapped == [v \in Pages |-> NULL]
no_bits == [v \in Pages |-> FALSE]

-----------------------------------------------------------------------------
Init ==
    /\ used = {Backbuffer}
    /\ rc = [f \in AllFrames |-> IF f = Backbuffer THEN 1 ELSE 0]
    /\ \E x \in Values : data = [f \in AllFrames |-> x]
    /\ live = {}
    /\ regions = [s \in Spaces |-> << >>]
    /\ frame = [s \in Spaces |-> nothing_mapped]
    /\ wbit = [s \in Spaces |-> no_bits]
    /\ wants = [s \in Spaces |-> {}]
    /\ panicked = FALSE

\* Insertion in address order, before a region that starts at the same page.
insert(rs, r) ==
    LET n == Cardinality({i \in 1 .. Len(rs) : rs[i].base < r.base})
    IN  SubSeq(rs, 1, n) \o << r >> \o SubSeq(rs, n + 1, Len(rs))

\* vmm_space_find: the index of the first region that contains v, or 0.
vmm_space_find(s, v) ==
    LET at == {i \in 1 .. Len(regions[s]) : v \in covers(regions[s][i])}
    IN  IF at = {} THEN 0 ELSE CHOOSE i \in at : \A j \in at : i <= j

\* is_vaddr_range_free, and what find_free_vaddr returns.
is_vaddr_range_free(s, b, n) ==
    /\ b + n - 1 <= NPAGES
    /\ \A i \in 1 .. Len(regions[s]) : covers(regions[s][i]) \cap (b .. b + n - 1) = {}

\* The space exists and the machine is running.
up(s) == s \in live /\ ~panicked

vmm_space_create(s) ==
    /\ s \notin live /\ ~panicked
    /\ live' = live \cup {s}
    /\ UNCHANGED <<memVars, regions, frame, wbit, wants, panicked>>

\* One frame per page, its count set to 1 by physmem_addr_mark_used.
vmm_space_alloc(s, b, n, w) ==
    /\ up(s) /\ is_vaddr_range_free(s, b, n)
    /\ \E g \in [b .. b + n - 1 -> Frames \ used] :
          /\ \A v, x \in b .. b + n - 1 : g[v] = g[x] => v = x
          /\ used' = used \cup {g[v] : v \in DOMAIN g}
          /\ rc' = [f \in AllFrames |-> IF \E v \in DOMAIN g : g[v] = f THEN 1 ELSE rc[f]]
          /\ frame' = [frame EXCEPT ![s] = [v \in Pages |-> IF v \in DOMAIN g THEN g[v] ELSE @[v]]]
          /\ wbit' = [wbit EXCEPT ![s] = [v \in Pages |-> IF v \in DOMAIN g THEN w ELSE @[v]]]
    /\ regions' = [regions EXCEPT ![s] =
                     insert(@, [base |-> b, size |-> n, write |-> w, cow |-> FALSE, mmio |-> FALSE])]
    /\ wants' = [wants EXCEPT ![s] = IF w THEN @ \cup (b .. b + n - 1) ELSE @]
    /\ UNCHANGED <<data, live, panicked>>

\* Out of frames: the pages mapped so far are unmapped again, and that is all.
vmm_space_alloc_fails(s, b, n) ==
    /\ "oom" \in Situations
    /\ up(s) /\ is_vaddr_range_free(s, b, n)
    /\ Cardinality(Frames \ used) < n
    /\ used' = AllFrames
    /\ rc' = [f \in AllFrames |-> IF f \in used THEN rc[f] ELSE 1]
    /\ UNCHANGED <<data, live, regions, frame, wbit, wants, panicked>>

\* The references to f that go when the entries of the pages vs are cleared.
drops(s, vs, f) == Cardinality({v \in vs : frame[s][v] = f})

\* Fault: the count is not kept from going below zero.
rc_wraps(n, f) == rc[f] - n

\* physmem_frame_rc_dec_and_get, as often as f is dropped.
rc_after(n, f) == IF rc[f] > n THEN rc[f] - n ELSE 0

\* Fault: a count that is zero already is not looked at again.
release_counted(s, vs) ==
    /\ rc' = [f \in AllFrames |-> rc_after(drops(s, vs, f), f)]
    /\ used' = {f \in used : drops(s, vs, f) = 0 \/ rc'[f] # 0 \/ rc[f] = 0}

\* vmm_space_free for each page of vs: the frame goes when its count is zero.
release(s, vs) ==
    /\ rc' = [f \in AllFrames |-> rc_after(drops(s, vs, f), f)]
    /\ used' = {f \in used : drops(s, vs, f) = 0 \/ rc'[f] # 0}

\* Pages of the regions I of s whose frames belong to the space.
owned(s, I) == {v \in Pages : \E i \in I : v \in covers(regions[s][i]) /\ ~regions[s][i].mmio}

\* Fault: one page too few.
freed_but_last(r) == r.base .. r.base + r.size - 2

\* The pages whose entries vmm_space_free clears.
freed(r) == covers(r)

\* vmm_space_free, by munmap or by fb0 (vmm_unmap_phys).
vmm_space_free(s, i) ==
    /\ up(s) /\ i \in 1 .. Len(regions[s])
    /\ release(s, owned(s, {i}))
    /\ frame' = [frame EXCEPT ![s] = [v \in Pages |-> IF v \in freed(regions[s][i]) THEN NULL ELSE @[v]]]
    /\ wbit' = [wbit EXCEPT ![s] = [v \in Pages |-> IF v \in freed(regions[s][i]) THEN FALSE ELSE @[v]]]
    /\ regions' = [regions EXCEPT ![s] = SubSeq(@, 1, i - 1) \o SubSeq(@, i + 1, Len(@))]
    /\ wants' = [wants EXCEPT ![s] = @ \ covers(regions[s][i])]
    /\ UNCHANGED <<data, live, panicked>>

\* vmm_space_destroy: every region is freed, then the space.
vmm_space_destroy(s) ==
    /\ up(s)
    /\ release(s, owned(s, 1 .. Len(regions[s])))
    /\ live' = live \ {s}
    /\ regions' = [regions EXCEPT ![s] = << >>]
    /\ frame' = [frame EXCEPT ![s] = nothing_mapped]
    /\ wbit' = [wbit EXCEPT ![s] = no_bits]
    /\ wants' = [wants EXCEPT ![s] = {}]
    /\ UNCHANGED <<data, panicked>>

\* Fault: write access goes and copy-on-write does not come.
as_readonly(r) == [r EXCEPT !.write = FALSE]

\* A cloned region, in the clone and in the original alike.
as_cow(r) == [r EXCEPT !.cow = TRUE, !.write = FALSE]

\* What a process that forks has mapped, in a given situation.
may_fork(s) ==
    /\ up(s)
    /\ "refork" \in Situations \/ \A v \in Pages : frame[s][v] # NULL => rc[frame[s][v]] > 0
    /\ "fork_mmio" \in Situations \/ \A i \in 1 .. Len(regions[s]) : ~regions[s][i].mmio

\* Faults: sharing is not counted; the original stays writable.
rc_unshared(s, f) == rc[f]
bits_kept(s) == wbit[s]

\* The count of f once every page of s is shared with the clone.
rc_shared(s, f) == rc[f] + drops(s, Pages, f)

\* The writable bits of the original once it has been cloned.
bits_shared(s) == no_bits

\* vmm_clone_space: both spaces share every frame, read-only.
vmm_clone_space(s, d) ==
    /\ may_fork(s) /\ d \notin live
    /\ live' = live \cup {d}
    /\ rc' = [f \in AllFrames |-> rc_shared(s, f)]
    /\ regions' = [regions EXCEPT ![s] = [i \in 1 .. Len(regions[s]) |-> as_cow(regions[s][i])],
                                  ![d] = [i \in 1 .. Len(regions[s]) |-> as_cow(regions[s][i])]]
    /\ frame' = [frame EXCEPT ![d] = frame[s]]
    /\ wbit' = [wbit EXCEPT ![s] = bits_shared(s), ![d] = no_bits]
    /\ wants' = [wants EXCEPT ![d] = wants[s]]
    /\ UNCHANGED <<used, data, panicked>>

\* region_alloc fails after k regions: the new space is destroyed.  Each count
\* has gone up and down again (not so for the framebuffer, which is skipped on
\* the way down), and s keeps what was done to it.
vmm_clone_space_fails(s, k) ==
    LET back == owned(s, 1 .. k)
        kept == {v \in Pages \ back : \E i \in 1 .. k : v \in covers(regions[s][i])}
    IN  /\ "nomem" \in Situations
        /\ may_fork(s) /\ k \in 1 .. Len(regions[s]) - 1
        /\ rc' = [f \in AllFrames |-> rc[f] + drops(s, kept, f)]
        /\ used' = {f \in used : drops(s, back, f) = 0 \/ rc'[f] # 0}
        /\ regions' = [regions EXCEPT ![s] =
                         [i \in 1 .. Len(@) |-> IF i <= k THEN as_cow(@[i]) ELSE @[i]]]
        /\ wbit' = [wbit EXCEPT ![s] = [v \in Pages |-> @[v] /\ v \notin back \cup kept]]
        /\ UNCHANGED <<data, live, frame, wants, panicked>>

\* vmm_cow_break: the region is writable from now on, the page becomes so.
cow_broken(s, v, f) ==
    /\ regions' = [regions EXCEPT ![s][vmm_space_find(s, v)] =
                     [@ EXCEPT !.cow = FALSE, !.write = TRUE]]
    /\ frame' = [frame EXCEPT ![s][v] = f]
    /\ wbit' = [wbit EXCEPT ![s][v] = TRUE]

\* The last reference: the frame stays, with a count of zero.
cow_in_place(s, v) ==
    /\ rc_after(1, frame[s][v]) = 0
    /\ rc' = [rc EXCEPT ![frame[s][v]] = 0]
    /\ cow_broken(s, v, frame[s][v])
    /\ UNCHANGED <<used, data, panicked>>

\* Faults: the new frame keeps what it held; the copy goes the wrong way.
copy_skipped(from, to) == data
copy_swapped(from, to) == [data EXCEPT ![from] = data[to]]

\* The memcpy from the shared frame to the new one.
copied(from, to) == [data EXCEPT ![to] = data[from]]

cow_copy(s, v) ==
    /\ rc_after(1, frame[s][v]) # 0
    /\ \E f \in Frames \ used :
          /\ used' = used \cup {f}
          /\ rc' = [rc EXCEPT ![frame[s][v]] = @ - 1, ![f] = 1]
          /\ data' = copied(frame[s][v], f)
          /\ cow_broken(s, v, f)
    /\ UNCHANGED panicked

\* vmm_cow_break finds no frame: panic().
cow_panic(s, v) ==
    /\ rc_after(1, frame[s][v]) # 0 /\ Frames \subseteq used
    /\ rc' = [rc EXCEPT ![frame[s][v]] = @ - 1]
    /\ panicked' = TRUE
    /\ UNCHANGED <<used, data, regions, frame, wbit>>

vmm_cow_break(s, v) == cow_in_place(s, v) \/ cow_copy(s, v) \/ cow_panic(s, v)

\* A program writes to a page that is there.
writes(s, v) ==
    /\ up(s) /\ frame[s][v] # NULL
    /\ v \in wants[s] \/ "stray" \in Situations

is_cow(s, v) == vmm_space_find(s, v) # 0 /\ regions[s][vmm_space_find(s, v)].cow

\* cow_page_fault_handler, on a write to a page that is present.
cow_page_fault_handler(s, v) ==
    /\ writes(s, v) /\ ~wbit[s][v]
    /\ \/ /\ is_cow(s, v)
          /\ vmm_cow_break(s, v)
       \/ /\ ~is_cow(s, v)
          /\ panicked' = TRUE
          /\ UNCHANGED <<memVars, regions, frame, wbit>>
    /\ UNCHANGED <<live, wants>>

\* A store of a user program that does not fault.
store(s, v, val) ==
    /\ writes(s, v) /\ wbit[s][v]
    /\ data' = [data EXCEPT ![frame[s][v]] = val]
    /\ UNCHANGED <<used, rc, live, regions, frame, wbit, wants, panicked>>

\* FB_IOCTL_MAP: the backbuffer at a fixed address, writable.
vmm_map_phys(s) ==
    /\ up(s) /\ is_vaddr_range_free(s, FB_MAP_VADDR, 1)
    /\ frame' = [frame EXCEPT ![s][FB_MAP_VADDR] = Backbuffer]
    /\ wbit' = [wbit EXCEPT ![s][FB_MAP_VADDR] = TRUE]
    /\ regions' = [regions EXCEPT ![s] =
                     insert(@, [base |-> FB_MAP_VADDR, size |-> 1, write |-> TRUE,
                                cow |-> FALSE, mmio |-> TRUE])]
    /\ wants' = [wants EXCEPT ![s] = @ \cup {FB_MAP_VADDR}]
    /\ UNCHANGED <<memVars, live, panicked>>

\* panic() stops the machine.
halted == panicked /\ UNCHANGED vars

Next ==
    \/ halted
    \/ \E s \in Spaces : vmm_space_create(s) \/ vmm_space_destroy(s) \/ vmm_map_phys(s)
    \/ \E s \in Spaces, b \in Pages, n \in 1 .. REGION_PAGES :
          \/ \E w \in BOOLEAN : vmm_space_alloc(s, b, n, w)
          \/ vmm_space_alloc_fails(s, b, n)
    \/ \E s \in Spaces, i \in Pages :
          vmm_space_free(s, i) \/ vmm_clone_space_fails(s, i)
    \/ \E s, d \in Spaces : vmm_clone_space(s, d)
    \/ \E s \in Spaces, v \in Pages :
          \/ cow_page_fault_handler(s, v)
          \/ \E val \in Values : store(s, v, val)

Spec == Init /\ [][Next]_vars
-----------------------------------------------------------------------------
(* Properties.                                                             *)

\* The values the variables may take.
TypeOK ==
    /\ used \subseteq AllFrames
    /\ rc \in [AllFrames -> Nat]
    /\ data \in [AllFrames -> Values]
    /\ live \subseteq Spaces
    /\ regions \in [Spaces -> Seq(Region)]
    /\ frame \in [Spaces -> [Pages -> AllFrames \cup {NULL}]]
    /\ wbit \in [Spaces -> [Pages -> BOOLEAN]]
    /\ wants \in [Spaces -> SUBSET Pages]
    /\ panicked \in BOOLEAN

\* The page table entries that hold f.
mappers(f) == {e \in Spaces \X Pages : frame[e[1]][e[2]] = f}

\* A frame has no more page table entries than its reference count says, or a
\* single one and a count of zero after vmm_cow_break made that one writable in
\* place; a frame the bitmap calls free is in no page table.  So no frame is
\* freed, or written to in place, under a process that still uses it.
CountsMappings ==
    ~panicked => \A f \in Frames :
        /\ f \in used => \/ Cardinality(mappers(f)) <= rc[f]
                          \/ (Cardinality(mappers(f)) = 1 /\ rc[f] = 0)
        /\ f \notin used => mappers(f) = {} /\ rc[f] = 0

\* A page that can be stored to without a fault is on a frame that no other
\* page, of this or another process, is on: a store is never seen elsewhere.
WritableIsPrivate ==
    \A s \in Spaces, v \in Pages :
        wbit[s][v] /\ frame[s][v] # Backbuffer => mappers(frame[s][v]) = {<<s, v>>}

\* vmm_test.c: "all frames returned" once the spaces are destroyed, however
\* they were cloned, broken up and destroyed.
AllReturned == live = {} => used = {Backbuffer}

\* Region list and page tables agree: the regions are in address order and do
\* not overlap, and a page is mapped exactly where one of them is.
RegionsMatchTables ==
    \A s \in Spaces :
        /\ \A i, j \in 1 .. Len(regions[s]) : i < j =>
              regions[s][i].base + regions[s][i].size <= regions[s][j].base
        /\ \A v \in Pages : frame[s][v] # NULL <=> vmm_space_find(s, v) # 0

\* Fork alone takes write access from no page: one that a program mapped for
\* writing is copy-on-write, for the page fault handler to see to, unless a page
\* of its region can be written (vmm_cow_break has ended copy-on-write there).
\* So the first write to a region after a fork never panics.
RegionStaysWritable ==
    \A s \in Spaces : \A v \in wants[s] :
        \/ is_cow(s, v)
        \/ \E u \in Pages : wbit[s][u] /\ vmm_space_find(s, u) = vmm_space_find(s, v)

\* A page that a program mapped for writing can be written, at once or after
\* the page fault handler has seen to it: fork never takes that away.
StaysWritable ==
    \A s \in Spaces : \A v \in wants[s] : wbit[s][v] \/ is_cow(s, v)

\* vmm_test.c, cow_break_gives_private_frame: breaking a page whose frame
\* another page is on consumes a "new frame".
BreakGivesPrivateFrame ==
    [][\A s \in Spaces, v \in Pages :
          ~wbit[s][v] /\ wbit'[s][v] /\ frame[s][v] \in Frames
             /\ mappers(frame[s][v]) # {<<s, v>>}
                => frame'[s][v] # frame[s][v]]_vars

\* The memory a program sees at its pages, the framebuffer aside.
seen == [s \in Spaces |-> [v \in Pages |->
           IF frame[s][v] = NULL \/ v \notin owned(s, 1 .. Len(regions[s])) THEN NULL
           ELSE data[frame[s][v]]]]

Private == INSTANCE PrivateMemory WITH mem <- seen

\* Every process has a memory of its own: frames, counts, read-only entries
\* and faults implement PrivateMemory.
ImplementsPrivateMemory == Private!Spec

\* Only stores change what a program sees: whatever is done to page tables, by
\* its own faults or by the forks and exits of others, its pages keep their
\* contents as long as they are mapped.
FaultsAreInvisible ==
    [][<<live, regions, frame, wbit>>' # <<live, regions, frame, wbit>> =>
          \A s \in live, v \in Pages :
             seen[s][v] # NULL => seen'[s][v] \in {seen[s][v], NULL}]_vars
=============================================================================
