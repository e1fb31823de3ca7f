# doccrOS in TLA+

doccrOS is a small x86-64 kernel for one CPU: a preemptive round-robin
scheduler, processes with copy-on-write `fork`, a RAM file system, a few devices
and a C library. This directory models its core as TLA+ modules, checks small
instances with TLC and proves with TLAPS, for instances of any size, all but one
of the safety properties checked, and the refinements.
Paths below are relative to `src/doccr/kernel/`.

## 1. The system

Code runs in four ways: `_start()` at boot; user programs (ring 3, interrupts
on); system calls (SYSCALL clears IF, vector 128 is an interrupt gate); and
interrupt and fault handlers (interrupt gates, IF clear). System calls and
handlers are therefore atomic on this single CPU, and each is one action. The
exceptions, where something can come in between, are modelled as several steps:
`fork_child_return` (ring 0 with interrupts on), a faulting store (the handler
returns to user mode, where the store is tried again), an interrupt whose
handler switches threads before it returns, and the bring-up of the devices in
the boot thread, which runs with interrupts on.

| component | state | operations | interacts with | what makes it correct |
|---|---|---|---|---|
| scheduler (`proc/scheduler.c`) | ready ring, current thread, zombie list, tick count | `sched_add`, `sched_remove`, `sched_tick`, `sched_yield`, `sched_start` | timer, threads, GDT (TSS.rsp0), vmm (CR3) | one thread on the CPU; nobody lost, duplicated or starved; no stack freed in use |
| threads, processes (`proc/thread.c`, `proc/process.c`) | `thread_t`, `proc_t`, lists of live and exited processes | create, exit, fork, waitpid, reap, destroy | scheduler, vmm, kernel heap | counts and lists agree; released once, and not before its last use |
| system call entry (`arch/x86_64/user`) | SYSCALL stack pointer | dispatch, `fork_child_return` | all | enters on the right stack, never interrupted half-way |
| address spaces (`mem/vmm/vmm.c`) | region lists, page tables, active space | `vmm_space_*`, `vmm_clone_space`, `vmm_cow_break`, page fault, `vmm_map_phys` | physmem, processes, fb0 | each process sees a private memory |
| page tables (`mem/paging/paging.c`) | four levels of tables | map, unmap, create, destroy | physmem, vmm | a walk ends where the last mapping put it; tables are freed with their last entry, and not before |
| physical frames (`mem/phys/physmem.c`) | bitmap, reference counts | set-up from the memory map, alloc, free, rc inc and dec | vmm, paging | only usable memory is given out, nothing twice, nothing lost |
| kernel virtual arena (`vmm_alloc`, `vmm_free`) | list of regions | alloc (split), free (merge) | boot services | regions tile the arena |
| kernel heap (`mem/kheap/kheap.c`) | list of blocks | kmalloc (split), kfree (merge), krealloc | everybody | blocks tile the heap, no overlap |
| memory calls (`user/sys_mem.c`) | `heap_break` | mmap, munmap, brk | vmm | mappings do not overlap (but see `overlap` below), a call takes nothing away that it was not asked to |
| VFS (`fs/vfs`, `user/sys_fs.c`) | node tree, descriptors, offsets | create, open, read, write, seek, unlink, getdents | heap, devices | no dangling node, size matches data |
| cpio, device registry (`packages/cpio`, `devices`) | offset into the archive, device table | extract, register | VFS | reads stay inside the archive, every file arrives whole |
| fb0 (`devices/fb/fb0.c`) | handles, mapped flag | open, ioctl map and unmap, close | vmm, VFS | handles are not shared, no mapping outlives its handles |
| input (`devices/input`, `drivers/ps2`) | event rings, modifier state, packet phase, controller configuration | interrupt push, read, bring-up | IRQ, VFS | order kept, newest dropped when full, modifiers true, resynchronises |
| timer, interrupts (`exceptions`) | masks, handler table, lines in service | deliver, acknowledge, register | scheduler, input | no device is cut off for good |
| ELF (`packages/elf`) | none | load | vmm, VFS | memory is what the headers say |
| PCI (`pci`) | device list | enumerate | boot | each function found once, the table not overrun |
| boot screen (`screen/bootscreen`) | cursors, log copies | print, scroll, clear | everybody | printing stays in its screen |
| strings, conversions (`mem/lib.c`, `screen/lib`, serial) | none | copy, compare, convert | everybody | they compute what their names say, on overlapping arguments too |
| C library (`src/user/libc`) | heap, streams | malloc, printf, fopen ... | system calls | an allocator; streams own their descriptors |
| GDT, IDT, CMOS, fonts, limine | set up once | port I/O, drawing | | not modelled |

What is hard here, and no test of the repository reaches: threads exiting,
forking and being preempted in every order; memory freed by one path while
another still refers to it; parents and children faulting on shared frames in
either order; full queues, tables and directories; allocation failing in the
middle of an operation; interrupts taking bytes that other code waits for.
`PROJECT.json` lists these as hazards, each at its line, with the property that
would catch it or a note on why none does.

## 2. Modules

| module | models | checked by |
|---|---|---|
| `SchedProc` | boot, scheduler, threads, processes, process system calls, tick | `MCSched` |
| `SchedProcProofs` | its theorems | TLAPS |
| `ReadyRing` | the ready queue as an array with head, tail and count | `MCKernel` |
| `ReadyFifo` | abstract: a bounded FIFO queue | refined by `ReadyRing` |
| `CowSpaces` | frames, reference counts, regions, page table leaves, faults | `MCCow` |
| `PrivateMemory` | abstract: every process has a memory of its own | refined by `CowSpaces` |
| `CowSpacesProofs` | theorems on frames, counts and regions | TLAPS |
| `CowMemoryProofs` | on top of it: the refinement, and what programs get | TLAPS |
| `BlockList` | lists of blocks: first fit, split, join | used by the next three |
| `KHeap`, `LibcHeap`, `VmmArena` | `kmalloc`, `malloc` and `vmm_alloc` with their counterparts | `MCKernel` |
| `Allocator` | abstract: ranges handed out never overlap | refined by those three |
| `Heaps` | the three side by side | `MCKernel` |
| `HeapProofs` | their structure and that refinement | TLAPS |
| `PhysMem` | memory map, bitmap, runs of frames | `MCKernel` |
| `PageTables` | four levels of tables, the kernel's half shared | `MCKernel` |
| `PageTablesProofs` | its theorems | TLAPS |
| `UserMem` | mmap, munmap, brk over the region list | `MCKernel` |
| `ElfLoad` | checks, segments, stack, and the clean-up of every failure | `MCKernel` |
| `KernelProofs` | theorems on the loader, the frames, the ready ring and the memory calls | TLAPS |
| `Vfs` | nodes and directories as operators on a tree | used by `Files` |
| `Files` | boot of the tree from the archive, devices, descriptors, file calls, fb0 | `MCFiles` |
| `FilesProofs` | theorems on the tree, the data, listings, handles and mappings | TLAPS |
| `EventRing` | the ring of input events | used by the next two |
| `Keyboard`, `Mouse` | interrupt handlers, decoders, event queues, read | `MCDevices` |
| `Input` | both side by side | `MCDevices` |
| `Ps2Init` | `ps2_mouse_init` against the 8042 and the keyboard's interrupt | `MCDevices`, alone in `ps2_keyboard` |
| `Console` | screens, cursor, wrapping, scrolling, clipping | `MCDevices` |
| `PciScan` | enumeration of buses, bridges, capabilities | `MCDevices` |
| `Irq` | controllers, masks, handler table, acknowledgement, tick | `MCDevices` |
| `Text`, `Format`, `Stdio` | strings, conversions and streams of kernel and C library | `MCDevices` |
| `CLibrary` | conversions and streams side by side | `MCDevices` |
| `DeviceProofs` | theorems on all from `Keyboard` to `CLibrary` | TLAPS |

Operators marked *Fault* in their comment are not part of any specification.
Each is a plausible slip in the definition that follows it, used to see that a
property notices.

### SchedProc

Heap objects are slots that are allocated, freed and reused; a freed slot keeps
its contents as memory does, until it is allocated again or another `kmalloc`
overwrites it (`pstate = "DATA"`, action `vfs_write`). The slot of a thread
stands for its kernel stack too, that of a process for its address space: the
code allocates and frees them together. `zombies` and `proc_zombies` are the two
lists of the dead. `ctx` is where a thread runs or will resume. `active_space`,
`tss_rsp0` and `syscall_kstack` are the CPU state a switch must change. `wild`
becomes true when the kernel runs on a stack or follows a pointer that is not
its; nothing is said about the machine after that.

`sched_yield(ts, ps, pz)` is the whole C function, given the thread states,
process states and zombie list its caller leaves: reap, stay or switch, set
CR3 and the entry stacks. Every caller (`sched_start`, `sched_tick`, `sys_yield`,
`sys_exit`) is one action that includes it. Calls that fail or match nothing
(a fork without memory, a waitpid without a zombie) change no state and are
stuttering steps. Ticks are counted modulo `QUANTUM`. There is no blocking: no
code path of this kernel blocks a thread and wakes it, except the boot context,
which is retired for good; so once the idle thread runs it runs for ever.

### ReadyRing

`SchedProc` treats the ready queue as a sequence. `ReadyRing` is `rq_t` as
stored, including the compaction loop of `sched_remove`; `ImplementsFifo` says
that it is that sequence.

### CowSpaces

`frame` and `wbit` are the leaf page table entries, `regions` the sorted list of
a `vmm_space_t`, `used` and `rc` the bitmap and counts of physmem, `data` what
the frames hold. `wants` is a history variable: the pages a program mapped for
writing. Page table frames carry no reference count and are left out;
`physmem_alloc_to` returns some free frame (the code: the lowest). Mappings are
asked for in free ranges only: that is what mmap does without MAP_FIXED, and fb0
with one handle. `UserMem` has the callers that may overlap, `Files` what several
handles and memory calls do at the one address of the framebuffer.

`PrivateMemory` is refined under the mapping *memory of a page = contents of the
frame its entry holds*, the framebuffer aside. A step of the abstract memory may
store any value, so that the kernel itself stores nothing is a property of its
own (`FaultsAreInvisible`).

### The heaps

`kheap.c`, `stdlib.c` and the kernel's virtual arena keep the same kind of list,
so `BlockList` holds what they share and the three modules what is their own:
rounding, the rest that is worth a block, when neighbours are joined, statistics,
`realloc`, overflow of `calloc`. Each refines `Allocator` under *ranges out = the
bytes each caller asked for, where it was told they are*. `size_t` has 8 bits in
`LibcHeap`, so that `calloc` overflows.

### PhysMem, PageTables, UserMem, ElfLoad

`PhysMem` reads whole memory maps, with holes, reclaimable ranges and ends inside
a page, and places its own tables in them as the code does, large addresses first.
`PageTables` identifies a page with its four indices; a table is a frame, and a
frame that is not cleared before it becomes a table still holds the entries it had
(that is what `OnePageAtATime` is about). `vmm_space_alloc` maps one page per step
and remembers them in `call`. When a frame is missing half-way it takes the pages
out again (`undo`) with `paging_unmap_page_in`, which clears the entry and nothing
else: the frames of those pages and the tables made for them stay in use, and tables
may be left empty. `lost` keeps the frames that are in use for nobody, and
`TablesSound` says that there are no others. `UserMem` does all address arithmetic
modulo `WORD`. `ElfLoad` keeps for each byte of memory where it came from: a
place in the file, zero, or what was there before. Sums of file offsets are taken
modulo `ELF_WORD`, as `u64` does, so a segment may pass the check by wrapping
around; nothing is claimed of where such a segment reads from.

### Vfs and Files

`Vfs` has the functions of `vfs.c` as operators from tree to tree. `Files` runs
`cpio_extract` header by header over an archive given by its offsets, registers
the devices, and then lets programs make the file calls, fork and exit, and change
what is mapped at `FB_MAP_VADDR`, the one address every handle of fb0 maps: by the
ioctls, by munmap, by mmap with and without MAP_FIXED, and by a store after a fork.
Data is the address and length of a buffer: a file from the archive *borrows* it
(`vfs_write` must not free it), a written one owns it.

`fbmaps` is the list of regions a process has at that address, newest first as
`vmm_map_phys` and `vmm_space_alloc` leave them, `fbpte` what the page tables map there. An unmap takes
the first region, whatever it is, so two handles take away each other's, and a
clone turns the list over. A child gets the parent's regions but none of its
handles; `own` marks the regions a process made itself. `MappingReleased` is what is
left: no more regions of its own making than handles to unmap them, and no page
without a region. The converse, that a handle which says *mapped* has
its mapping, is false, and FB_IOCTL_MAP may hand back an address at which nothing
or something else is mapped.
Regions that start elsewhere and reach over the address are left to `UserMem`; a
copy-on-write break may find the frame shared or not, as the counts are those of
`CowSpaces`; and every process has the capability to open fb0.

### Devices

A scan code is the name of its key; mouse bytes are numbers because the handler
looks at their bits. Keyboard and mouse come with the person and the wire: a byte
may be lost, and what was sent is kept as history. In `Ps2Init` a byte in the
output buffer can be taken by the keyboard's interrupt while the boot thread polls
for it. In `Irq` an interrupt is two steps, delivery and return, between which the
timer may have switched threads; `ps2_mouse_init` has all its ways out there too,
each with the clock and the interrupt of the keyboard as it leaves them. After -1,
-5 and -6 a byte may wait without an interrupt, so `KeyNotStuck` says nothing of
these three. `Console` keeps the set of rectangles a call copies to
the frame buffer: a glyph its own, and a character that scrolls the whole screen
after it. (After a scroll the cursor stands where
one more line just fits, which `bs_putchar` takes for the end of the screen: every further
character scrolls again.) `bs_putpixel` is clipped at the frame buffer only and may
paint over the screen next to its own. `PciScan` runs over every machine of a small family,
bridges in a circle included. `Text` works on one array, so source and
destination may overlap; `Format` and `Stdio` compare the printers with one
another and with a reference. `IntToString` has its array of `TEMP_SIZE` bytes, and
ints are two's complement: `PrintersAgree` says for which numbers the array is
overrun and that only the least int is printed wrong.

In `Mouse` a movement may be any byte, also one that looks like the first of a packet.
While such packets come the handler can stay out of step; `Resyncs` starts with the
first packet whose movements cannot be mistaken.

### Situations

Some modules take a constant that names what the environment does beyond the
plain course of events. Except for `nomem`, each name is a known weakness of the
code: with it some property of the module fails on a suitable instance. A passing
run includes the ones its properties withstand; so together they say under which
conditions the code is right.

| module | situation | what the code does |
|---|---|---|
| `CowSpaces` | `refork`: fork by a process that took a frame over in place | count one short (finding) |
| | `fork_mmio`: fork with the framebuffer mapped | the count of the backbuffer grows with every fork; in no run |
| | `oom`: frames run out in `vmm_space_alloc` | those already taken are lost; in `cow_private` |
| | `nomem`: no memory for the nodes of a clone | handled; in both passing runs |
| | `stray`: a write to a read-only page | after a fork it becomes writable; in `cow_reclaim` |
| `UserMem` | `overlap`: MAP_FIXED over part of a region, brk over what an earlier shrink left or, in a forked child, over what came with the fork | the frames underneath are lost |
| | `unaligned`: brk from a break inside a page | maps that page again |
| | `oom`: frames run out, also for a length that wraps around and so passes the checks | those already taken are lost |
| `Files` | `unlink_open`: removing an open file | the descriptor keeps a freed node |
| | `bare_write`: an empty or failing write to a file from the archive | the size stays, the data is gone |
| `Keyboard` | `both`: left and right key of a modifier together | releasing one releases both |
| | `repeat`: caps lock held until it repeats | toggles each time |

## 3. Runs

| run | instance | shows |
|---|---|---|
| `sched_safety` | 4 thread and process slots, queue of 2, all calls | queue, CPU state and books stay consistent in every interleaving, even when the queue overflows and waitpid frees early |
| `sched_liveness` | 3 slots, queue of 3, fair | nobody is dropped, every READY thread runs, everything that exits is released |
| `sched_waitpid` | 2 slots, all calls | finding: burying a dead thread follows a pointer waitpid has freed |
| `sched_fork_window` | 2 slots | finding: a forked child can be switched away from before it reaches user mode |
| `cow_private` | 3 spaces, 3 frames, 2 pages, regions of 1 or 2 pages, `nomem`, `oom` | counts, page tables and regions agree; a writable page is private; `PrivateMemory` is implemented; only stores change what a program sees |
| `cow_reclaim` | 3 spaces, regions of 1 or 2 pages, `nomem`, `stray` | all frames come back; no fork, whole or half done, takes the write access of a region away |
| `cow_second_page` | regions of 2 pages | finding: the second page of a region cannot be written after the first was |
| `cow_refork` | `refork` | finding: a count that is one short lets two processes share a writable frame |
| `files` | 7 nodes, directories of 3, files of 3 bytes, 4 archives, 2 descriptors; or 2 processes with 2 handles and 2 regions at the framebuffer's address | the tree is a tree, data is behind every size, complete archives arrive, a listing shows each name once; handles are not shared and no mapping outlives its handles |
| `kernel_parts` | one part at a time: heaps of 280 and 200 bytes, arena of 7 pages, 4 memory maps, 13 frames of tables, an address space of 32 bytes, 437 ELF images, a ring of 3 | each keeps its structure and its promise to callers; the heaps refine `Allocator`, the ring refines `ReadyFifo` |
| `devices` | one part at a time: event rings of 3 and 2, 3 tries, screens down to one pixel, 405 machines, 3 threads, arrays of 5 bytes, 8-bit ints | events arrive in order, the mouse resynchronises, bring-up ends, printing stays inside its screen, each PCI function is found once, interrupts get through, strings and conversions are right |
| `ps2_keyboard` | 3 tries | finding: a mouse that does not answer leaves the keyboard's interrupt off |

`MCKernel` and `MCDevices` run parts that share no state. The variable `part`
picks one per behaviour and the others keep their only initial state, so the
state spaces add up instead of multiplying. `MCFiles` likewise looks at the tree
or at the framebuffer (`about`): one process and every file call, or two processes
with nothing open but fb0.

Bounds. Four slots allow a running thread, a dead one awaiting burial, a queued
one and a free one at the same time, that is every role a slot can have; a queue
of two overflows, one as long as the slots cannot. A `QUANTUM` above 1 separates
ticks that preempt from those that do not. Three address spaces and frames give
a frame three sharers, so that a break can find it shared by nobody, one or two
others; two pages distinguish the faulting page of a region from the rest. A ring
of three wraps, is full, and lets entries be removed from its middle. The heaps
hold three blocks and more, so that a block is freed between two used or two
free ones, and the requests leave a rest on both sides of the splitting limit.
Seven nodes are one more than the devices and directories of boot need, so nodes
run out and are reused; `/dev` is full, the root can be filled. Two processes with
two handles and two regions let a region come with a fork, lie behind another, and
be taken away by the handle that did not make it. Two indices per
table give tables with one entry and with two. The address space of `UserMem`
has room for wrap-around, gaps before, between and behind regions. A mouse queue of
two is full with one event in it; the two movement bytes are one that looks like a
first byte and one that does not. `TEMP_SIZE` has no room for the terminator of
a sign and three digits, as the array in the code has none after a sign and ten; `ELF_WORD` is small
enough for an image whose sum wraps. Scaled
constants keep the order and the divisibility of the real ones, which are stated
as assumptions. Slots, spaces, frames and page contents are interchangeable, so
TLC uses symmetry there, except in the liveness run.

`files`, `kernel_parts`, `devices` and `ps2_keyboard` do not check for deadlock:
the enumerations and the bring-up end, a full machine may have no call left that
changes state, and a pure function has no next step. The scheduler and
copy-on-write runs do check it.

Fairness. `sched_liveness`: weak fairness of `_start()`, which runs straight
through; of the timer tick, since the PIT is periodic and interrupts are on
whenever a user thread or idle runs; and of `fork_child_return`, a straight line
of instructions. `devices`: weak fairness of `ps2_mouse_init`, which runs in the
boot thread before there is any other; nothing is assumed of the mouse, which may
never answer (`Ps2InitEnds`). Nothing is assumed of user programs: they may never
yield, exit or call anything.

## 4. Proofs

Every theorem holds for all values of the constants that meet the assumptions
named in the module it is about. Most of them say that things are distinct,
positive or of their type, or keep the order and divisibility of the real
constants. Beyond that:

* `SpacesAssumption`: finitely many address spaces (the number of entries on a frame
  is a cardinality); `IrqAssumption`: at least one thread.
* `PhysMemAssumption`: usable ranges of the memory map start on a page, as limine
  promises.
* `UserMemAssumption`: all frames together, twice over, still fit between the top of
  user space and the end of the address arithmetic, as on any real machine.
* `ElfImagesAssumption`: segments lie on pages of their own, below the stack.
* `PciAssumption`: a machine is finite and has one function per place.
* `FormatAssumption`: an int has as many bits as `print_hexa32` prints.
* `MouseAssumption`: first bytes have bit 3 set, as the protocol has it; movements are
  any bytes.
* `FilesAssumption`: finitely many handles, as `MappingReleased` counts them.

A theorem that needs more says so as its hypothesis.

| theorem | states | hypothesis |
|---|---|---|
| `SchedProcProofs!TypeCorrect`, `QueueIsSound`, `CpuIsSound`, `BooksAreSound`, `ZombiesAwaitBurial` | the parts of `IInv` (`Invariance`) | |
| `SchedProcProofs!NothingInUseIsReleased` | no step frees the stack or the page tables in use | |
| `SchedProcProofs!NobodyForgotten` | no READY thread is outside the queue, idle runs only when nothing else can | no more threads than places |
| `CowSpacesProofs!TypeCorrect`, `RegionsAgree` | types; regions sorted, disjoint, and exactly what the tables map | |
| `CowSpacesProofs!FramesCounted`, `WritablePagesPrivate` | `CountsMappings`, `WritableIsPrivate` | no `refork` |
| `CowMemoryProofs!MemoryIsPrivate` | `CowSpaces` implements `PrivateMemory` | no `refork` |
| `CowMemoryProofs!FaultsHidden`, `BreaksArePrivate` | `FaultsAreInvisible`, `BreakGivesPrivateFrame` | no `refork` |
| `CowMemoryProofs!RegionsStayWritable` | `RegionStaysWritable` | |
| `CowMemoryProofs!FramesComeBack` | `AllReturned` | no `refork`, `fork_mmio`, `oom` |
| `PageTablesProofs!TreesAreSound`, `PagesStayPut` | `TablesSound`, `OnePageAtATime` | |
| `HeapProofs!HeapsAreSound`, `HeapsDoAllocate` | `HeapsSound`; the three heaps implement `Allocator` | `NoWrap` |
| `KernelProofs!RingIsFifo` | `ReadyRing` implements `ReadyFifo` | |
| `KernelProofs!FramesAreSound` | `FramesSound` | |
| `KernelProofs!ProgramsAreLoaded` | `LoadedIsImage` | |
| `KernelProofs!RegionsStayApart` | `RegionsApart` | `Plain` |
| `KernelProofs!CallsOnlyAdd` | `CallsAddOnly` | `Plain`, no `unaligned` |
| `FilesProofs!TreeStaysSound`, `ListsOnce` | `TreeSound`, `ListedOnce` | |
| `FilesProofs!BytesExist` | `FilesBacked` | no `bare_write` |
| `FilesProofs!OpenFilesAreSound` | `OpenFilesSound` | no `unlink_open` |
| `DeviceProofs!InputIsKept` | `InputKept` | `Apart` |
| `DeviceProofs!MouseResyncs` | `Resyncs` | |
| `DeviceProofs!Ps2IsSound`, `InterruptsAreServed` | `Ps2Sound`, `InterruptsGetThrough` | |
| `DeviceProofs!ScreensAreSound`, `FunctionsAreFound` | `ScreenSound`, `EachFoundOnce` | |
| `DeviceProofs!TextsAreSound`, `StdioIsSound` | `TextSound`, `StdioSound` | |

The hypotheses on situations are those of the runs that check
the same property; `cow_refork` is a counterexample without the one on `refork`.
`Apart` excludes the situations of the
keyboard, `Plain` the situations `overlap` and `oom` and hints beyond user space, and
`NoWrap` says that rounding up what a program asks `malloc` for stays within
`size_t`: the code does not check that. The instances TLC checks satisfy all of
them.

Loops appear in the models as recursive functions or as the choice of the first
place where something holds. That such a function exists, and what it computes,
is shown by looking at the least argument where it would not (`LeastNumber`, from
the well-foundedness of the natural numbers): the induction theorems of the
library take an operator as parameter, which the provers cannot instantiate, a set
of counterexamples they can.

### The scheduler

None of the safety properties is inductive alone. That
the thread on the CPU is not freed needs that it is not on the zombie list; that
needs that a thread is DEAD exactly while it is on the list (`OneDeadThread`);
that the page tables in CR3 survive `process_reap_zombies` needs that a process
with a runnable thread is in the live list and counts that thread
(`ProcessBooks`); and that reaping leaves no exited process behind needs that
each belongs to the one dead thread (`ZombieAwaitsBurial`). `BootState` relates
all of it to how far boot has got. `IInv` is the conjunction.

The proof has one lemma per action. `YieldPreserves` does the work once for
`sched_yield`, from hypotheses each caller discharges (`StartYields`,
`YieldAsIs`, `ExitYields`); `ReapEffect` says what reaping does to lists and
counts; `PushDistinct` and `PopDistinct` are about the queue. `NobodyForgotten`
adds a counting argument: a queue of distinct threads that misses one has room.
The invariant survives the waitpid defect: it only speaks of runnable threads
and of zombies that are still listed, and `wild` covers what follows a bad
pointer.

### The ready ring

`RingInv` adds to `RingSound` (tail = head + count, around the end) what the array
holds. `SlotIs` says where an entry lies, wrapped or not; push, pop and the
compaction of `sched_remove` then map to the steps of `ReadyFifo` under
*fifo = the entries from head on, oldest first*.

### Copy-on-write

Four inductive invariants, each resting on the one before:

* `CowSound`: types, `CountsMappings`, `WritableIsPrivate`, and that a write bit is
  on a mapped page. Privacy needs the counts: `vmm_cow_break` keeps a frame in
  place when it is the last to count it. The counts need privacy: a fork adds a
  count for entries that were writable and so alone. Most of the proof is counting
  entries: a clone adds exactly one per page it copies (`maps` and its lemmas), also
  when it fails half-way and takes them back.
* `Tables`: region lists are sorted and cover what is mapped. `FindSorted` shows
  that `vmm_space_find` returns the only region there is; without it a fault could
  go by the flags of another region.
* `MemorySound` adds that only a mapped framebuffer is on the backbuffer. It is
  what the refinement needs: a store changes one frame, the frame is on one page,
  so one page of the abstract memory changes. The copy in a fault is made before the
  entry moves, so the fault is a stuttering step.
* `ReturnSound` adds the converse of the counts: a used frame is mapped and counts
  no more than its entries (`NoneLost`), the framebuffer is not copy-on-write, a
  destroyed space maps nothing. With no space left nothing is mapped, so nothing
  is used.

`RegionsStayWritable` has its own, `WriteSound`, which holds in every situation and
needs no counts: a page mapped for writing lies in a region that is copy-on-write
or has a page with its write bit. A fork clears the bits and sets the flag at once;
a break clears the flag and sets one bit of the same region; and as regions are
disjoint (`Tables`) what happens to another one does not matter. That *each* page keeps
its access (`StaysWritable`) is what `cow_second_page` refutes.

### Page tables

A walk of four levels says nothing about the tables other walks pass through, so
`TablesSound` is not inductive. `PTInv` says that the frames in use form a
*forest*: there is a level and a root for every frame such that an entry leads
one level down within the same root, and no frame has two entries, except that the
kernel's entry of every top table leads to the kernel's half. Every frame in use has
an entry, but for the top tables and the frames in `lost`; and as long as
no allocation was undone none is lost and no table below the top is empty. The levels and roots are bound variables of the invariant
(`IsForest`), not part of the model; each step says how they change. `map_page` and
`free_page` are four nested calls, and between them a table may be empty and a
new page in no table; `Forest` allows for one of each besides the lost ones, so that `HungForest`,
`FilledForest` and `DroppedForest` prove one call and `MapPage`, `FreePage` chain
them. `NewTopForest` and `DropTopForest` are the making and the end of a space.
After a panic only what the kernel shares with its spaces is still claimed.

### The heaps

`Tiled` says that the blocks of a list lie one behind the other from the start of
the heap to its end, so that no two overlap. A split and a join keep it, and so
does the pass that joins all free neighbours. `Served` relates the list to
the callers: whoever holds a pointer holds a used block that is at least as long as
was asked for, and two callers never the same one. `Books` are the statistics, sums
over the list. `Allocator` follows: what is handed out lies inside its block. `KInv`,
`LInv` and `AInv` are these for the three heaps.

### Frames, programs, memory calls

`PhysInv`: the bits set are those `physmem_init` left and those of the runs handed out,
which overlap neither it nor one another. Most of the proof is about set-up,
where the bitmap is placed in the memory it is about to describe.
`ElfInv` says how far the load has got: segments before the present one are in
place (`Prefix`), the present one up to the cursor (`Halfway`), and the stack is there
before the thread is. `UmInv` (`SpaceOK`): the list is sorted, regions are disjoint, whole pages
inside user space, and mapped to frames of their own. `Searched` says what the search
for a gap has ruled out so far, so that what it returns lies between two
neighbours of the list.

### Files

`Base`: the tree is a tree of used nodes, parent and child agree, names in a
directory differ, and the walk over the archive and the boot of the devices keep
that at every header. `AllBacked` adds that behind each size there is a buffer that
long; it cannot survive `bare_write`. `Shown`: what was listed through a descriptor
lies before its offset. `OpenInv` ties each descriptor of fb0 to a handle that no other
has. For the mapping a count is not inductive, as an unmap takes the first region
and not its own: `OwnFirst` says that the regions of the backbuffer a process made are
among the first *n* of its list, *n* being its handles that say mapped. Then each
unmap takes one of the first, munmap and MAP_FIXED only shorten the list, and
after a fork the child has none of its own.

### Devices

`KeyInv` follows the modifiers: what is on the wire, applied to the flags of the
driver, leads to the keys that are really held (`KeysLead`). With both keys of a
modifier, or caps lock repeating, there is no such invariant. That the rings are
queues is shown for every position of head and tail, as `KeyInv` and `MouseBytes` allow
any. `ConsoleInv` says that all four screens lie on the display (`Placed`), their
cursors and copies where a character leaves them (`Kept`), and what is drawn on its
screen (`Shown`). `PciInv`: a listed function
is on bus 0 or behind a bridge listed before, and unless the list is full all of a
bus that was scanned is listed (`Listing`); no function is there twice if the
firmware numbers buses in order (`Numbered`); bridges in a circle end at the limit of
the list.

`Ps2Inv` says at each stage of `ps2_mouse_init` who can put a byte into the output
buffer: between the turning off of both ports and the answer, only the
controller. `MouseInv` lists where the handler's index can stand for each byte
the mouse has left to send: anywhere while it is out of step, two places before the
last byte of the first packet that cannot be mistaken, and one from then on. `IrqInv` adds
that a thread switched away from inside the handler has acknowledged its
interrupt, so what is in service always belongs to the thread that runs; and
(`KeyOnItsWay`) that between draining the controller and turning the keyboard on
again no byte waits, and that afterwards a waiting key has its interrupt raised or
being handled, unless `ps2_mouse_init` returned -1, -5 or -6.

### Strings, printing, streams

`TextInv` is just that the array has its type: `TextSound` compares functions of the
array, so its proof is about loops. `IsLen` says where a string ends, `Agree` and
`Parting` where two part, `Piece` that one occurs in the other; every function is
shown to return what these describe, and the comparisons then agree because they
describe only one thing. `FormatInv`: the buffer is what `vsnprintf` makes of the
format. `Figures` are the digits of a number; dividing again and again
(`DividedIs`) ends at zero after as many steps as it has digits, and reading the
digits gives it back (`Reads`). The printers negate first, so the least int is a case
of its own, as are the numbers with too many digits for `IntToString`. `Shape` splits what is printed into blanks, sign,
zeroes and digits, which is what `sscanf` and `atoi` rely on. For the fixed width of
`print_hexa32` a power of two is needed; the provers know nothing of `^`, but the
library has the number of subsets of a set. `StdioInv` pairs open streams and
descriptors one to one (`Paired`), with blocks reused in any order.

### Only model-checked

* Liveness (`EveryThreadRuns`, `ExitedIsReleased`, `Ps2InitEnds`): fairness is outside
  the prover's reach.
* `Unpacked`, that a complete archive arrives whole. It holds as long as nodes and
  directory entries do not run out, and an archive may use up nodes that never get
  into the tree (a name that is there already). For every archive, the hypothesis
  would be a count over its prefixes, as long as the loop itself.
* What the violation runs refute.

## 5. Findings

Five disagreements between the code and what its comments or tests say of it,
each shown by a violation run and quoted in `PROJECT.json`: waitpid frees a
process whose dead thread still points to it; a forked child starts with
interrupts on; a frame taken over in place keeps a count of 0; copy-on-write is
cleared per region but broken per page; `ps2_mouse_init` leaves the keyboard's
interrupt off when the mouse does not answer. The situations above are further
weaknesses, of which the repository promises nothing either way; so are those that the
properties of section 2 leave room for: frames lost by an undone
allocation, an fb0 handle that hands back an address nothing is mapped at, the array of
`IntToString`, the least int in `str_from_int`, a screen that scrolls with every
character, a mouse that stays out of step. A ready queue
with more threads than places forgets threads: `NobodyForgotten` is proved under
the assumption that it has room for all.

## 6. Not modelled

GDT, IDT, CMOS and power: tables and port I/O that run once. Fonts, logos and
drawing of glyphs: pure output. The boot protocol headers and DOOM: third-party.
The self tests serve as specification. Names, pids, capabilities and statistics
of processes: they decide nothing here. Functions without a caller
(`device_unregister`, `keyboard_fini`, `timer_wait` and others named in
`PROJECT.json`). Regions at page 0, of which `vmm_space_destroy` never gets rid,
and capability lists in a circle, from which `pci_find_capability` never
returns: listed as hazards or in the module's header. The wrappers of system
calls in the C library: they only pass arguments on.

The scheduler, the memory of processes and the file tree are separate modules: a
call of one that another also sees (fork, exit, close at exit) appears in each
with its own part of the effect. System calls being atomic, no interleaving is
lost by that.

## 7. Plan

1. Done: `SchedProc` with proofs; `ReadyRing` over `ReadyFifo`; `CowSpaces` over
   `PrivateMemory`; the heaps over `Allocator`; frames, tables, memory calls and
   loader; file system; devices, interrupts, strings and streams.
2. Proved: every invariant, action property and refinement the passing runs check,
   except liveness and `Unpacked`.
3. To come: `Unpacked` under a bound on the number of headers.
4. Possible extensions: `fork_mmio` with a bounded count; `SchedProc` composed
   with `CowSpaces`.
