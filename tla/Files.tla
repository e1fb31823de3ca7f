-------------------------------- MODULE Files --------------------------------
(***************************************************************************)
(* Files and devices as programs see them: the boot that fills the tree    *)
(* (rootfs.c, cpio.c, devices/init.c, device_init.c), the descriptors and  *)
(* the file system calls (sys_fs.c, sys_io.c, sys_ioctl.c) and the handles *)
(* of the framebuffer device (fb0.c).                                      *)
(*                                                                         *)
(* A system call runs with interrupts off and is one action.  One that     *)
(* fails changes nothing and is a stuttering step; a call that changes     *)
(* state before it fails, like a vfs_mkdir that stops half way, is not.    *)
(***************************************************************************)
EXTENDS Vfs, FiniteSets

CONSTANTS
    Procs,          \* slots for proc_t
    FD_MAX,         \* descriptors are 3 .. FD_MAX - 1 (0 to 2 are the console)
    Handles,        \* addresses a fb_handle_t may have
    Archives,       \* the archives the boot loader may hand over
    UserPaths,      \* paths programs use
    Lengths,        \* byte counts programs use
    MaxOffset,      \* bound: how far a program seeks
    MaxRegions,     \* bound: regions a process has at FB_MAP_VADDR
    Situations

HeaderSize == 110   \* sizeof(cpio_header_t)
ARCHIVE == 1000     \* address of the archive
Mounts == <<[name |-> "kbd", path |-> <<"dev", "kbd_event0">>],
            [name |-> "mouse", path |-> <<"dev", "mouse">>],
            [name |-> "fb0", path |-> <<"dev", "fb0">>]>>

\* unlink_open:  a program removes a file that some descriptor refers to
\* bare_write:   a write of no bytes, or one kmalloc fails for, to a file
\*               whose contents are still those of the archive
ASSUME FilesAssumption ==
    /\ FD_MAX \in Nat /\ FD_MAX > 3
    /\ Handles \subseteq Nat \ {0} /\ IsFiniteSet(Handles)
    /\ Lengths \subseteq Nat /\ MaxOffset \in Nat /\ MaxRegions \in Nat
    /\ Situations \subseteq {"unlink_open", "bare_write"}
    /\ UserPaths \subseteq Seq(STRING)
    /\ \A a \in Archives :
         /\ a.size \in Nat
         /\ \A o \in DOMAIN a.at : /\ a.at[o].namesize \in Nat /\ a.at[o].filesize \in Nat
                                  /\ a.at[o].name \in Seq(STRING)

VARIABLES
    stage,      \* how far the boot is
    archive,    \* the module the boot loader found, constant
    off,        \* cpio_extract: offset of the next header
    bs3,        \* the backbuffer of BS3 exists, constant
    devices,    \* the device table
    tree,       \* vfs_node_t by address
    live,       \* processes that exist
    fd,         \* proc_t.fd_table
    handle,     \* fb_handle_t by address
    fbmaps,     \* regions each process has at FB_MAP_VADDR, as its list has them
    fbpte,      \* what its page tables map there
    listed      \* history: nodes getdents has shown through a descriptor

boot == <<stage, archive, off, bs3, devices>>
fbs == <<handle, fbmaps, fbpte>>
vars == <<boot, tree, live, fd, fbs, listed>>

FDs == 3 .. FD_MAX - 1
Closed == [used |-> FALSE, node |-> NULL, offset |-> 0, handle |-> NULL]
NoHandle == [used |-> FALSE, owner |-> NULL, mapped |-> FALSE, orphan |-> FALSE]
fresh == [f \in FDs |-> Closed]

\* A vmm_region_t at FB_MAP_VADDR: of the backbuffer (VMM_REGION_MMIO) or of
\* anonymous memory, with VMM_REGION_COW or not; own is history: the process
\* made it, it did not come with the fork.
Regions == [fb : BOOLEAN, cow : BOOLEAN, own : BOOLEAN]
region(fb) == [fb |-> fb, cow |-> FALSE, own |-> TRUE]

Init ==
    /\ stage = "vfs" /\ archive \in Archives /\ off = 0
    /\ bs3 \in BOOLEAN /\ devices = <<>>
    /\ tree = no_tree
    /\ live = {} /\ fd = [p \in Procs |-> fresh]
    /\ handle = [h \in Handles |-> NoHandle]
    /\ fbmaps = [p \in Procs |-> <<>>] /\ fbpte = [p \in Procs |-> "none"]
    /\ listed = [p \in Procs |-> [f \in FDs |-> {}]]
-----------------------------------------------------------------------------
(* Boot: vfs_init, rootfs_init with cpio_extract, kernel_devices_init.     *)

start_vfs ==
    /\ stage = "vfs" /\ stage' = "rootfs"
    /\ \E memory \in BOOLEAN : tree' = vfs_init(memory)
    /\ UNCHANGED <<archive, off, bs3, devices, live, fd, fbs, listed>>

\* /dev and /tmp are made first; a boot without the archive leaves it there.
rootfs_init ==
    /\ stage = "rootfs"
    /\ tree' = vfs_mkdir(vfs_mkdir(tree, <<"dev">>).tree, <<"tmp">>).tree
    /\ stage' = IF archive.size < HeaderSize THEN Mounts[1].name ELSE "cpio"
    /\ UNCHANGED <<archive, off, bs3, devices, live, fd, fbs, listed>>

\* Fault: names and data are not padded.
align4_not(x) == x
align4(x) == ((x + 3) \div 4) * 4

\* The header at an offset: what the archiver put there, else rubbish.
header(o) == IF o \in DOMAIN archive.at THEN archive.at[o]
             ELSE [magic |-> FALSE, namesize |-> 0, filesize |-> 0,
                   name |-> <<>>, type |-> "other"]
data_off(o) == align4(o + HeaderSize + header(o).namesize)
next_off(o) == align4(data_off(o) + header(o).filesize)

\* Fault: the end of the data is not looked at.
entry_ok_header(o) ==
    /\ o + HeaderSize <= archive.size
    /\ header(o).magic /\ header(o).type # "trailer"

\* The reader goes on: a header fits, is one, is not the trailer, and the
\* whole entry lies inside the archive.
entry_ok(o) ==
    /\ o + HeaderSize <= archive.size
    /\ header(o).magic /\ header(o).type # "trailer"
    /\ next_off(o) <= archive.size

unpack(t, o) ==
    LET h == header(o)
        f == vfs_create_file(t, h.name)
    IN  CASE h.name = <<>> -> t
          [] h.name # <<>> /\ h.type = "dir" -> vfs_mkdir(t, h.name).tree
          [] h.name # <<>> /\ h.type = "reg" ->
               IF f.node # NULL /\ h.filesize > 0
               THEN vfs_set_data(f.tree, f.node, ARCHIVE + data_off(o), h.filesize)
               ELSE f.tree
          [] OTHER -> t

cpio_entry ==
    /\ stage = "cpio" /\ entry_ok(off)
    /\ tree' = unpack(tree, off)
    /\ off' = next_off(off)
    /\ UNCHANGED <<stage, archive, bs3, devices, live, fd, fbs, listed>>

cpio_done ==
    /\ stage = "cpio" /\ ~entry_ok(off)
    /\ stage' = Mounts[1].name
    /\ UNCHANGED <<archive, off, bs3, devices, tree, live, fd, fbs, listed>>

\* device_register: only fb0 has an init that can fail, without backbuffer;
\* a device whose node cannot be made is not registered.
device_register(t, d) ==
    LET r == vfs_create_device(t, d.path, d.name)
    IN  IF d.name = "fb0" /\ ~bs3 THEN [tree |-> t, ok |-> FALSE]
        ELSE [tree |-> r.tree, ok |-> r.node # NULL]

\* One device after the other; the stage is the name of the next.
kernel_devices_init ==
    \E i \in DOMAIN Mounts :
        LET r == device_register(tree, Mounts[i]) IN
        /\ stage = Mounts[i].name
        /\ stage' = IF i = Len(Mounts) THEN "user" ELSE Mounts[i + 1].name
        /\ tree' = r.tree
        /\ devices' = IF r.ok THEN Append(devices, Mounts[i].name) ELSE devices
        /\ UNCHANGED <<archive, off, bs3, live, fd, fbs, listed>>
-----------------------------------------------------------------------------
(* Processes.  Each has CAP_FRAMEBUFFER; exit closes nothing.              *)

up(p) == stage = "user" /\ p \in live

proc_alloc(p) ==
    /\ stage = "user" /\ p \notin live
    /\ live' = live \cup {p}
    /\ fd' = [fd EXCEPT ![p] = fresh]
    /\ UNCHANGED <<boot, tree, fbs, listed>>

\* vmm_clone_space makes the regions it has come to copy-on-write.
cow_first(l, k) == [i \in DOMAIN l |-> IF i <= k THEN [l[i] EXCEPT !.cow = TRUE] ELSE l[i]]

\* Each is put in front of those of its base, so the child has them in the
\* reverse order.
cloned(l) == [i \in DOMAIN l |-> [l[Len(l) + 1 - i] EXCEPT !.cow = TRUE, !.own = FALSE]]

\* The child has the parent's memory and, from proc_alloc, no descriptors.
process_fork(p, q) ==
    /\ up(p) /\ q \notin live
    /\ live' = live \cup {q}
    /\ fd' = [fd EXCEPT ![q] = fresh]
    /\ fbmaps' = [fbmaps EXCEPT ![p] = cow_first(@, Len(@)), ![q] = cloned(fbmaps[p])]
    /\ fbpte' = [fbpte EXCEPT ![q] = fbpte[p]]
    /\ UNCHANGED <<boot, tree, handle, listed>>

\* Memory runs out at some region, or after the last.
process_fork_fails(p, k) ==
    /\ up(p) /\ k \in 0 .. Len(fbmaps[p])
    /\ fbmaps' = [fbmaps EXCEPT ![p] = cow_first(@, k)]
    /\ UNCHANGED <<boot, tree, live, fd, handle, fbpte, listed>>

\* The address space goes with its regions; handles stay allocated.
process_destroy(p) ==
    /\ up(p)
    /\ live' = live \ {p}
    /\ fd' = [fd EXCEPT ![p] = fresh]
    /\ handle' = [h \in Handles |->
                    IF handle[h].used /\ handle[h].owner = p
                    THEN [handle[h] EXCEPT !.orphan = TRUE] ELSE handle[h]]
    /\ fbmaps' = [fbmaps EXCEPT ![p] = <<>>]
    /\ fbpte' = [fbpte EXCEPT ![p] = "none"]
    /\ listed' = [listed EXCEPT ![p] = [f \in FDs |-> {}]]
    /\ UNCHANGED <<boot, tree>>

\* The system calls look at the slot, then at the node behind it.
used(p, f, type) == fd[p][f].used /\ is(tree, fd[p][f].node, type)
free_fds(p) == {f \in FDs : ~fd[p][f].used}
free_handles == {h \in Handles : ~handle[h].used}
is_fb0(n) == is(tree, n, "device") /\ tree[n].device = "fb0"

opened(p, f, n, h) ==
    fd' = [fd EXCEPT ![p][f] = [used |-> TRUE, node |-> n, offset |-> 0, handle |-> h]]

\* The lowest free slot is used; fb0_open allocates a handle, the other
\* devices have no open.
sys_open(p, path) ==
    LET n == vfs_find(tree, path) IN
    /\ up(p) /\ n # NULL /\ free_fds(p) # {}
    /\ LET f == CHOOSE x \in free_fds(p) : \A y \in free_fds(p) : x <= y IN
       /\ \/ ~is_fb0(n) /\ opened(p, f, n, NULL) /\ UNCHANGED handle
          \/ /\ is_fb0(n) /\ bs3 /\ free_handles # {}
             /\ LET h == CHOOSE x \in free_handles : \A y \in free_handles : x <= y IN
                /\ handle' = [handle EXCEPT ![h] =
                     [used |-> TRUE, owner |-> p, mapped |-> FALSE, orphan |-> FALSE]]
                /\ opened(p, f, n, h)
       /\ listed' = [listed EXCEPT ![p][f] = {}]
    /\ UNCHANGED <<boot, tree, live, fbmaps, fbpte>>

\* Fault: the region stays.
unmapped_entries(p, yes) ==
    LET frees == yes /\ fbmaps[p] # <<>>
    IN  /\ fbpte' = IF frees THEN [fbpte EXCEPT ![p] = "none"] ELSE fbpte
        /\ UNCHANGED fbmaps

\* vmm_unmap_phys, vmm_space_free: the first region with that base goes, of
\* whatever kind it is, and the entries are cleared.
unmapped(p, yes) ==
    LET frees == yes /\ fbmaps[p] # <<>>
    IN  /\ fbmaps' = IF frees THEN [fbmaps EXCEPT ![p] = Tail(@)] ELSE fbmaps
        /\ fbpte' = IF frees THEN [fbpte EXCEPT ![p] = "none"] ELSE fbpte

sys_close(p, f) ==
    LET h == fd[p][f].handle IN
    /\ up(p) /\ fd[p][f].used
    /\ IF is_fb0(fd[p][f].node)
       THEN /\ unmapped(handle[h].owner, handle[h].mapped)
            /\ handle' = [handle EXCEPT ![h] = NoHandle]
       ELSE UNCHANGED fbs
    /\ fd' = [fd EXCEPT ![p][f] = Closed]
    /\ UNCHANGED <<boot, tree, live, listed>>

lands(offset) == offset >= 0

\* from is where the seek starts: nothing, the offset or the size.
sys_lseek(p, f, whence, by) ==
    LET from == CASE whence = 0 -> 0
                  [] whence = 1 -> fd[p][f].offset
                  [] whence = 2 -> tree[fd[p][f].node].size
    IN  /\ up(p) /\ used(p, f, "file") /\ lands(from + by)
        /\ from + by <= MaxOffset
        /\ fd' = [fd EXCEPT ![p][f].offset = from + by]
        /\ UNCHANGED <<boot, tree, live, fbs, listed>>

Smaller(a, b) == IF a < b THEN a ELSE b

\* room entries fit in the buffer; the offset counts children.
sys_getdents(p, f, room) ==
    LET kids == tree[fd[p][f].node].children
        from == fd[p][f].offset
        to   == Smaller(from + room, Len(kids))
    IN  /\ up(p) /\ used(p, f, "directory") /\ from < Len(kids)
        /\ fd' = [fd EXCEPT ![p][f].offset = to]
        /\ listed' = [listed EXCEPT ![p][f] = @ \cup {kids[i] : i \in from + 1 .. to}]
        /\ UNCHANGED <<boot, tree, live, fbs>>

sys_mkdir(p, path) ==
    /\ up(p)
    /\ tree' = vfs_mkdir(tree, path).tree
    /\ UNCHANGED <<boot, live, fd, fbs, listed>>

held(n) == \E p \in live, f \in FDs : fd[p][f].used /\ fd[p][f].node = n

\* A node that goes leaves every history.
sys_unlink(p, path) ==
    LET n == vfs_find(tree, path) IN
    /\ up(p)
    /\ held(n) => "unlink_open" \in Situations
    /\ tree' = vfs_remove(tree, path)
    /\ listed' = [q \in Procs |-> [f \in FDs |-> listed[q][f] \ {n}]]
    /\ UNCHANGED <<boot, live, fd, fbs>>

\* A read of a device leaves files alone; see Keyboard and Mouse.
sys_read(p, f, len) ==
    LET size == tree[fd[p][f].node].size
        from == fd[p][f].offset
    IN  /\ up(p) /\ used(p, f, "file") /\ from < size
        /\ fd' = [fd EXCEPT ![p][f].offset = from + Smaller(len, size - from)]
        /\ UNCHANGED <<boot, tree, live, fbs, listed>>

\* The offset plays no part in a write: the file is replaced.
sys_write(p, f, len, memory) ==
    LET n == fd[p][f].node IN
    /\ up(p) /\ used(p, f, "file")
    /\ tree[n].borrowed /\ (len = 0 \/ ~memory) => "bare_write" \in Situations
    /\ tree' = vfs_write(tree, n, len, memory).tree
    /\ UNCHANGED <<boot, live, fd, fbs, listed>>

\* FB_IOCTL_MAP: a handle that is mapped gives its address back; vmm_map_phys
\* puts the region in front and the entries over what is there.
sys_ioctl_map(p, f) ==
    LET h == fd[p][f].handle
        o == handle[h].owner
    IN  /\ up(p) /\ fd[p][f].used /\ is_fb0(fd[p][f].node)
        /\ ~handle[h].mapped /\ Len(fbmaps[o]) < MaxRegions
        /\ handle' = [handle EXCEPT ![h].mapped = TRUE]
        /\ fbmaps' = [fbmaps EXCEPT ![o] = <<region(TRUE)>> \o @]
        /\ fbpte' = [fbpte EXCEPT ![o] = "fb"]
        /\ UNCHANGED <<boot, tree, live, fd, listed>>

sys_ioctl_unmap(p, f) ==
    LET h == fd[p][f].handle IN
    /\ up(p) /\ fd[p][f].used /\ is_fb0(fd[p][f].node)
    /\ handle[h].mapped
    /\ unmapped(handle[h].owner, TRUE)
    /\ handle' = [handle EXCEPT ![h].mapped = FALSE]
    /\ UNCHANGED <<boot, tree, live, fd, listed>>

\* The memory calls at FB_MAP_VADDR know nothing of handles.
sys_munmap(p) ==
    /\ up(p) /\ unmapped(p, TRUE)
    /\ UNCHANGED <<boot, tree, live, fd, handle, listed>>

\* With MAP_FIXED the first region there goes before the new one is made,
\* for which memory may run out; without it only a free place is taken.
sys_mmap(p, fixed, memory) ==
    LET rest == IF fbmaps[p] = <<>> THEN <<>> ELSE Tail(fbmaps[p])
    IN  /\ up(p) /\ (fbmaps[p] # <<>> => fixed)
        /\ Len(rest) < MaxRegions
        /\ fbmaps' = [fbmaps EXCEPT ![p] = IF memory THEN <<region(FALSE)>> \o rest ELSE rest]
        /\ fbpte' = [fbpte EXCEPT ![p] = IF memory THEN "anon" ELSE "none"]
        /\ UNCHANGED <<boot, tree, live, fd, handle, listed>>

\* A write after a fork: the page is copied unless the frame's count (see
\* CowSpaces) says nobody shares it.
vmm_cow_break(p, shared) ==
    /\ up(p) /\ fbpte[p] # "none" /\ fbmaps[p] # <<>> /\ fbmaps[p][1].cow
    /\ fbmaps' = [fbmaps EXCEPT ![p][1].cow = FALSE]
    /\ fbpte' = [fbpte EXCEPT ![p] = IF shared THEN "anon" ELSE @]
    /\ UNCHANGED <<boot, tree, live, fd, handle, listed>>

Next ==
    \/ start_vfs \/ rootfs_init \/ cpio_entry \/ cpio_done \/ kernel_devices_init
    \/ \E p \in Procs : proc_alloc(p) \/ process_destroy(p) \/ sys_munmap(p)
    \/ \E p, q \in Procs : process_fork(p, q)
    \/ \E p \in Procs, k \in 0 .. MaxRegions : process_fork_fails(p, k)
    \/ \E p \in Procs, fixed, memory \in BOOLEAN : sys_mmap(p, fixed, memory)
    \/ \E p \in Procs, shared \in BOOLEAN : vmm_cow_break(p, shared)
    \/ \E p \in Procs, path \in UserPaths :
         sys_open(p, path) \/ sys_mkdir(p, path) \/ sys_unlink(p, path)
    \/ \E p \in Procs, f \in FDs :
         sys_close(p, f) \/ sys_ioctl_map(p, f) \/ sys_ioctl_unmap(p, f)
    \/ \E p \in Procs, f \in FDs, whence \in 0 .. 2, by \in -1 .. 1 :
         sys_lseek(p, f, whence, by)
    \/ \E p \in Procs, f \in FDs, len \in Lengths :
         sys_read(p, f, len) \/ sys_getdents(p, f, len)
    \/ \E p \in Procs, f \in FDs, len \in Lengths, memory \in BOOLEAN :
         sys_write(p, f, len, memory)

Spec == Init /\ [][Next]_vars
-----------------------------------------------------------------------------
TypeOK ==
    /\ stage \in {"vfs", "rootfs", "cpio", "user"} \cup {Mounts[i].name : i \in DOMAIN Mounts}
    /\ off \in Nat /\ bs3 \in BOOLEAN /\ live \subseteq Procs
    /\ fd \in [Procs -> [FDs -> [used : BOOLEAN, node : Nodes \cup {NULL},
                               offset : Nat, handle : Handles \cup {NULL}]]]
    /\ handle \in [Handles -> [used : BOOLEAN, owner : Procs \cup {NULL},
                               mapped : BOOLEAN, orphan : BOOLEAN]]
    /\ fbmaps \in [Procs -> Seq(Regions)] /\ fbpte \in [Procs -> {"none", "fb", "anon"}]
    /\ listed \in [Procs -> [FDs -> SUBSET Nodes]]

\* The boot, mkdir -p and unlink in any order leave a tree in which every
\* path leads to one node: nothing is listed twice, dangling or orphaned,
\* even when memory or a directory runs out half way.
TreeSound == WellFormed(tree)

\* sys_read copies size bytes from data without looking at it: whatever was
\* unpacked, written, rewritten shorter or refused, those bytes exist, and
\* bytes that belong to the archive lie behind its first header and before
\* its end.
FilesBacked ==
    \A n \in InTree(tree) : tree[n].type = "file" =>
        /\ tree[n].size <= tree[n].capacity
        /\ tree[n].size > 0 => tree[n].data # NULL
        /\ tree[n].borrowed =>
             LET o == tree[n].data - ARCHIVE
             IN  o >= HeaderSize /\ o + tree[n].size <= archive.size

\* Once the archive has been read, each file it holds completely has the
\* bytes the archiver stored for it (the last entry of that name counts).
Unpacked ==
    stage = Mounts[1].name /\ archive.intact /\ vfs_get_root(tree) # NULL =>
        \A o \in DOMAIN archive.at : LET e == archive.at[o] IN
            /\ e.type = "reg" /\ e.filesize > 0
            /\ \A q \in DOMAIN archive.at : archive.at[q].name = e.name => q <= o
            => LET n == vfs_find(tree, e.name)
               IN  n # NULL /\ tree[n].data = ARCHIVE + e.body
                           /\ tree[n].size = e.filesize

\* Handles are not shared: one that a descriptor has names that process, no
\* second descriptor has it, not even after a fork, and one that no
\* descriptor has is free or left behind by a process that has gone.
HandlesOwned ==
    /\ \A p \in Procs, f \in FDs : fd[p][f].used =>
         /\ p \in live
         /\ is_fb0(fd[p][f].node) <=> fd[p][f].handle # NULL
         /\ fd[p][f].handle # NULL =>
              /\ handle[fd[p][f].handle].used /\ handle[fd[p][f].handle].owner = p
              /\ ~handle[fd[p][f].handle].orphan
    /\ \A h \in Handles : handle[h].used /\ ~handle[h].orphan =>
         Cardinality({x \in Procs \X FDs : fd[x[1]][x[2]].handle = h}) = 1

\* The handles of a process that say mapped.
drawing(p) == {h \in Handles : /\ handle[h].used /\ ~handle[h].orphan
                               /\ handle[h].owner = p /\ handle[h].mapped}

\* fb0_close: "dont leave the mapping aftr close".  A process has no more
\* regions of the backbuffer that it made than handles to unmap them, and
\* pages of the backbuffer only in such a region or one it was forked with,
\* although unmapping takes the first region there is, munmap and MAP_FIXED
\* take regions away behind a handle and a fork turns the list over.
MappingReleased ==
    \A p \in Procs :
        /\ Cardinality({i \in DOMAIN fbmaps[p] : fbmaps[p][i].fb /\ fbmaps[p][i].own})
              <= Cardinality(drawing(p))
        /\ fbpte[p] = "fb" => \E i \in DOMAIN fbmaps[p] : fbmaps[p][i].fb

\* What a handle of fb0 stands for is neither shared nor left behind.
OpenFilesSound == TypeOK /\ HandlesOwned /\ MappingReleased

\* Through one descriptor no entry of a directory is listed twice, whatever
\* is made and removed between two calls of getdents.
ListedOnce ==
    [][\A p \in Procs, f \in FDs :
          used(p, f, "directory") /\ fd'[p][f].offset > fd[p][f].offset =>
             LET kids == tree[fd[p][f].node].children
             IN  {kids[i] : i \in fd[p][f].offset + 1 .. fd'[p][f].offset}
                    \cap listed[p][f] = {}]_vars
=============================================================================
