--------------------------------- MODULE Vfs ---------------------------------
(***************************************************************************)
(* The in-memory file tree of doccrOS, kernel/fs/vfs/vfs.c: nodes taken    *)
(* from the kernel heap, each directory with a fixed array of children.    *)
(*                                                                         *)
(* A tree is a function from node addresses to nodes.  The operators are   *)
(* the functions of vfs.c; one that changes the tree and returns a node    *)
(* gives the record [tree, node].  A path is the sequence of its names:    *)
(* repeated slashes and the copying of names are left out.                 *)
(***************************************************************************)
EXTENDS Integers, Sequences, SequencesExt

CONSTANTS
    Nodes,              \* addresses a node may have, a range of naturals
    VFS_MAX_CHILDREN,   \* capacity of a directory
    VFS_MAX_FILE_SIZE   \* longest write that is accepted

ASSUME VfsAssumption ==
    /\ Nodes \subseteq Nat \ {0} /\ 1 \in Nodes
    /\ VFS_MAX_CHILDREN \in Nat \ {0}
    /\ VFS_MAX_FILE_SIZE \in Nat

NULL == 0
Root == 1       \* vfs_init makes the root before any other node
HEAP == 1       \* address of a buffer from kmalloc
NoDevice == "none"

\* What an address holds that is not a node of the tree.
Free == [type |-> "free"]
Lost == [type |-> "lost"]

node(name, type, parent) ==
    [name |-> name, type |-> type, parent |-> parent, children |-> <<>>,
     data |-> NULL, size |-> 0, capacity |-> 0, borrowed |-> FALSE,
     device |-> NoDevice]

\* A pointer is checked before it is followed.
is(t, n, type) == n # NULL /\ t[n].type = type

\* kmalloc takes the first block that fits, NULL when there is none.
node_alloc(t) ==
    LET unused == {n \in Nodes : t[n] = Free}
    IN  IF unused = {} THEN NULL
        ELSE CHOOSE n \in unused : \A k \in unused : n <= k

\* Before vfs_init no address holds a node.  Without memory for the root
\* vfs_root stays NULL, and every lookup and creation below gives NULL.
no_tree == [n \in Nodes |-> Free]
vfs_init(memory) ==
    IF memory THEN [no_tree EXCEPT ![Root] = node("/", "directory", NULL)]
    ELSE no_tree
vfs_get_root(t) == IF t[Root] = Free THEN NULL ELSE Root

vfs_find_child(t, dir, name) ==
    IF dir = NULL THEN NULL
    ELSE LET i == SelectInSeq(t[dir].children, LAMBDA c : t[c].name = name)
         IN  IF i = 0 THEN NULL ELSE t[dir].children[i]

vfs_find(t, path) ==
    LET walk[i \in 0 .. Len(path)] ==
            IF i = 0 THEN vfs_get_root(t) ELSE vfs_find_child(t, walk[i - 1], path[i])
    IN  walk[Len(path)]

\* Fault: the newest child comes first.
link_front(t, n, parent, name, type) ==
    [t EXCEPT ![n] = node(name, type, parent),
              ![parent].children = <<n>> \o @]

link(t, n, parent, name, type) ==
    [t EXCEPT ![n] = node(name, type, parent),
              ![parent].children = Append(@, n)]

\* The node is allocated before the arguments are looked at: every early
\* return but the one for lack of memory loses it.
vfs_create_node(t, parent, name, type) ==
    LET existing == vfs_find_child(t, parent, name)
        n        == node_alloc(t)
        lost     == IF n = NULL THEN t ELSE [t EXCEPT ![n] = Lost]
    IN  IF ~is(t, parent, "directory") THEN [tree |-> lost, node |-> NULL]
        ELSE IF existing # NULL THEN [tree |-> lost, node |-> existing]
        ELSE IF Len(t[parent].children) >= VFS_MAX_CHILDREN \/ n = NULL
             THEN [tree |-> lost, node |-> NULL]
        ELSE [tree |-> link(t, n, parent, name, type), node |-> n]

\* One component of mkdir -p, after the ones before it gave r.
mkdir_step(r, name) ==
    LET next == vfs_find_child(r.tree, r.node, name)
    IN  IF r.node = NULL THEN r
        ELSE IF next = NULL THEN vfs_create_node(r.tree, r.node, name, "directory")
        ELSE [r EXCEPT !.node = IF is(r.tree, next, "directory") THEN next ELSE NULL]

vfs_mkdir(t, path) ==
    LET walk[i \in 0 .. Len(path)] ==
            IF i = 0 THEN [tree |-> t, node |-> vfs_get_root(t)]
            ELSE mkdir_step(walk[i - 1], path[i])
    IN  walk[Len(path)]

\* Both creators look up the directory, build it when it is missing, and
\* make the last component in it; an empty last name is refused.
create_in(t, path, type) ==
    LET dir  == vfs_find(t, Front(path))
        made == IF dir # NULL THEN [tree |-> t, node |-> dir]
                ELSE vfs_mkdir(t, Front(path))
    IN  IF path = <<>> THEN [tree |-> t, node |-> NULL]
        ELSE IF made.node = NULL THEN made
        ELSE vfs_create_node(made.tree, made.node, Last(path), type)

vfs_create_file(t, path) == create_in(t, path, "file")

vfs_create_device(t, path, device) ==
    LET r == create_in(t, path, "device")
    IN  IF r.node = NULL THEN r ELSE [r EXCEPT !.tree[r.node].device = device]

\* What vfs_remove refuses: a missing path, the root, a directory in use.
removable(t, n) ==
    /\ n # NULL /\ n # Root
    /\ ~(t[n].type = "directory" /\ t[n].children # <<>>)

\* Fault: the parent goes on listing the removed node.
vfs_remove_listed(t, path) ==
    LET n == vfs_find(t, path)
    IN  IF ~removable(t, n) THEN t ELSE [t EXCEPT ![n] = Free]

\* The children behind the removed one move up; buffer and node are freed.
vfs_remove(t, path) ==
    LET n == vfs_find(t, path)
    IN  IF ~removable(t, n) THEN t
        ELSE [t EXCEPT ![n] = Free,
                       ![t[n].parent].children = RemoveFirst(@, n)]

\* A write replaces the contents.  The buffer of the archive is dropped
\* first; a new one is taken when there is none or it is too small, and
\* kmalloc refuses size 0.  `memory' says whether kmalloc finds room.
unborrowed(f) ==
    IF f.borrowed
    THEN [f EXCEPT !.data = NULL, !.capacity = 0, !.borrowed = FALSE] ELSE f

vfs_write(t, n, size, memory) ==
    LET f == unborrowed(t[n])
        grows == f.data = NULL \/ f.capacity < size
    IN  IF ~is(t, n, "file") \/ size > VFS_MAX_FILE_SIZE
        THEN [tree |-> t, ret |-> -1]
        ELSE IF grows /\ (size = 0 \/ ~memory)
        THEN [tree |-> [t EXCEPT ![n] = f], ret |-> -1]
        ELSE [tree |-> [t EXCEPT ![n] =
                          [f EXCEPT !.data = HEAP, !.size = size,
                                    !.capacity = IF grows THEN size ELSE @]],
              ret  |-> size]

vfs_set_data(t, n, at, size) ==
    IF ~is(t, n, "file") THEN t
    ELSE [t EXCEPT ![n].data = at, ![n].size = size, ![n].capacity = size,
                   ![n].borrowed = TRUE]
-----------------------------------------------------------------------------
\* The nodes of the tree, and what makes it one.
InTree(t) == {n \in Nodes : t[n] \notin {Free, Lost}}

\* Every node but the root is listed once, by its parent, which is a
\* directory; the children of a directory have different names and fit in
\* its array.  So every path leads to one node and vfs_dump ends.
WellFormed(t) ==
    /\ Root \in InTree(t) => t[Root].parent = NULL
    /\ \A n \in InTree(t) :
         /\ t[n].type # "directory" => t[n].children = <<>>
         /\ Len(t[n].children) <= VFS_MAX_CHILDREN
         /\ \A i \in DOMAIN t[n].children : t[n].children[i] \in InTree(t) \ {Root}
         /\ \A i \in DOMAIN t[n].children : LET c == t[n].children[i] IN
              /\ t[c].parent = n
              /\ \A j \in DOMAIN t[n].children \ {i} :
                   t[t[n].children[j]].name # t[c].name
         /\ n # Root => t[n].parent \in InTree(t)
                        /\ \E i \in DOMAIN t[t[n].parent].children :
                             t[t[n].parent].children[i] = n
=============================================================================
