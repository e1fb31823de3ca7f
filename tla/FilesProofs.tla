----------------------------- MODULE FilesProofs -----------------------------
(***************************************************************************)
(* Proofs about Files and Vfs, for every set of nodes, paths, archives,    *)
(* processes and descriptors: the tree stays a tree, the bytes of files    *)
(* exist, and descriptors and handles stand for what they name.            *)
(***************************************************************************)
EXTENDS Files, SequenceTheorems, FiniteSetTheorems, WellFoundedInduction, TLAPS

\* A set of numbers that is not empty has a least one.
LEMMA LeastNumber ==
  ASSUME NEW S \in SUBSET Nat, S # {}
  PROVE  \E x \in S : \A y \in S : x <= y
<1> DEFINE R == OpToRel(<, Nat)
<1>1. IsWellFoundedOn(R, Nat)
  BY NatLessThanWellFounded
<1>2. R = {ss \in Nat \X Nat : ss[1] < ss[2]}
  BY DEF OpToRel
<1> HIDE DEF R
<1>3. PICK x \in S : \A y \in S : ~ (<<y, x>> \in R)
  BY <1>1, WFMin
<1>4. \A y \in S : ~ (y < x)
  BY <1>2, <1>3
<1> QED
  BY <1>4

-----------------------------------------------------------------------------
(* Trees.                                                                  *)

Types == {"directory", "file", "device"}

\* A vfs_node_t: nine fields, typed.
IsNode(x) ==
    /\ x = [name |-> x.name, type |-> x.type, parent |-> x.parent, children |-> x.children,
            data |-> x.data, size |-> x.size, capacity |-> x.capacity,
            borrowed |-> x.borrowed, device |-> x.device]
    /\ x.type \in Types /\ x.parent \in Nodes \cup {NULL} /\ x.children \in Seq(Nodes)
    /\ x.data \in Nat /\ x.size \in Nat /\ x.capacity \in Nat /\ x.borrowed \in BOOLEAN

\* A tree whose addresses are free, lost or nodes, with a root or empty.
Typed(t) ==
    /\ t = [n \in Nodes |-> t[n]]
    /\ \A n \in Nodes : t[n] = Free \/ t[n] = Lost \/ IsNode(t[n])
    /\ \/ \A n \in Nodes : t[n] = Free
       \/ IsNode(t[Root]) /\ t[Root].type = "directory"
Good(t) == Typed(t) /\ WellFormed(t)

\* Addresses are not NULL, and the root has one.
LEMMA NodesAre ==
    /\ Root \in Nodes /\ NULL \notin Nodes /\ \A n \in Nodes : n \in Nat /\ n # NULL
    /\ NULL = 0
BY VfsAssumption DEF Root, NULL

\* A node is not free and not lost.
LEMMA NodeIs ==
    ASSUME NEW x, IsNode(x)
    PROVE  x # Free /\ x # Lost
<1>1. x.type # "free" /\ x.type # "lost"
  BY DEF IsNode, Types
<1>2. Free.type = "free" /\ Lost.type = "lost"
  BY DEF Free, Lost
<1> QED
  BY <1>1, <1>2

\* The nodes of a tree are the addresses that hold one.
LEMMA InTreeIs ==
    ASSUME NEW t, Typed(t)
    PROVE  \A n : n \in InTree(t) <=> n \in Nodes /\ IsNode(t[n])
BY NodeIs DEF InTree, Typed

\* node() makes a node without contents.
IsFresh(x, nm, ty, p) ==
    /\ IsNode(x) /\ x.name = nm /\ x.type = ty /\ x.parent = p /\ x.children = <<>>
    /\ x.size = 0 /\ x.capacity = 0 /\ x.data = NULL /\ x.borrowed = FALSE
    /\ x.device = NoDevice

\* What vfs_create_node sets in a new node.
LEMMA FreshIs ==
    ASSUME NEW nm, NEW ty \in Types, NEW p \in Nodes \cup {NULL}
    PROVE  IsFresh(node(nm, ty, p), nm, ty, p)
<1>1. NULL = 0 /\ <<>> \in Seq(Nodes)
  BY DEF NULL
<1> QED
  BY <1>1 DEF node, IsNode, IsFresh

\* The parts of WellFormed: a directory lists its children, and a node is
\* listed by its parent.
Lists(t, n) ==
    /\ t[n].type # "directory" => t[n].children = <<>>
    /\ Len(t[n].children) <= VFS_MAX_CHILDREN
    /\ \A i \in 1 .. Len(t[n].children) :
         /\ t[n].children[i] \in InTree(t) /\ t[n].children[i] # Root
         /\ t[t[n].children[i]].parent = n
    /\ \A i, j \in 1 .. Len(t[n].children) :
         i # j => t[t[n].children[j]].name # t[t[n].children[i]].name
Listed(t, n) ==
    n # Root => /\ t[n].parent \in InTree(t)
                /\ \E i \in 1 .. Len(t[t[n].parent].children) : t[t[n].parent].children[i] = n

\* A tree is well formed when each of its nodes is in its place.
LEMMA FormedIs ==
    ASSUME NEW t, Typed(t)
    PROVE  WellFormed(t) <=> /\ Root \in InTree(t) => t[Root].parent = NULL
                             /\ \A n \in InTree(t) : Lists(t, n) /\ Listed(t, n)
<1>1. \A n \in InTree(t) : t[n].children \in Seq(Nodes)
                             /\ DOMAIN t[n].children = 1 .. Len(t[n].children)
  <2>1. \A n \in InTree(t) : t[n].children \in Seq(Nodes)
    BY InTreeIs DEF IsNode
  <2>2. \A s \in Seq(Nodes) : DOMAIN s = 1 .. Len(s)
    OBVIOUS
  <2> QED
    BY <2>1, <2>2
<1>2. ASSUME WellFormed(t), NEW n \in InTree(t)
      PROVE  Lists(t, n) /\ Listed(t, n)
  <2>1. Lists(t, n)
    BY <1>1, <1>2 DEF WellFormed, Lists
  <2>2. Listed(t, n)
    BY <1>1, <1>2 DEF WellFormed, Listed
  <2> QED
    BY <2>1, <2>2
<1>3. ASSUME Root \in InTree(t) => t[Root].parent = NULL,
             \A n \in InTree(t) : Lists(t, n) /\ Listed(t, n)
      PROVE  WellFormed(t)
  <2> SUFFICES ASSUME NEW n \in InTree(t)
               PROVE  /\ t[n].type # "directory" => t[n].children = <<>>
                      /\ Len(t[n].children) <= VFS_MAX_CHILDREN
                      /\ \A i \in DOMAIN t[n].children : t[n].children[i] \in InTree(t) \ {Root}
                      /\ \A i \in DOMAIN t[n].children : LET c == t[n].children[i] IN
                           /\ t[c].parent = n
                           /\ \A j \in DOMAIN t[n].children \ {i} :
                                t[t[n].children[j]].name # t[c].name
                      /\ n # Root => t[n].parent \in InTree(t)
                                     /\ \E i \in DOMAIN t[t[n].parent].children :
                                          t[t[n].parent].children[i] = n
    BY <1>3 DEF WellFormed
  <2>1. Lists(t, n) /\ Listed(t, n)
    BY <1>3
  <2> QED
    BY <2>1, <1>1 DEF Lists, Listed
<1>4. WellFormed(t) => (Root \in InTree(t) => t[Root].parent = NULL)
  BY DEF WellFormed
<1> QED
  BY <1>2, <1>3, <1>4

\* What can be made of a node without changing its place in the tree.
SameShape(x, y) ==
    y.name = x.name /\ y.type = x.type /\ y.parent = x.parent /\ y.children = x.children

\* Changing a node but not its place leaves the tree well formed.
LEMMA Reshaped ==
    ASSUME NEW t, Good(t), NEW n \in InTree(t), NEW y, IsNode(y), SameShape(t[n], y)
    PROVE  Good([t EXCEPT ![n] = y]) /\ InTree([t EXCEPT ![n] = y]) = InTree(t)
<1> DEFINE u == [t EXCEPT ![n] = y]
<1>1. n \in Nodes /\ IsNode(t[n]) /\ Root \in Nodes
  BY InTreeIs, NodesAre DEF Good
<1>2. u = [k \in Nodes |-> IF k = n THEN y ELSE t[k]]
  BY DEF Good, Typed
<1>3. \A k \in Nodes : u[k] = IF k = n THEN y ELSE t[k]
  BY <1>2
<1> HIDE DEF u
<1>4. Typed(u)
  <2>1. u = [k \in Nodes |-> u[k]]
    BY <1>2
  <2>2. \A k \in Nodes : u[k] = Free \/ u[k] = Lost \/ IsNode(u[k])
    BY <1>3 DEF Good, Typed
  <2>3. ~ \A k \in Nodes : t[k] = Free
    BY <1>1, NodeIs
  <2>4. IsNode(u[Root]) /\ u[Root].type = "directory"
    BY <1>1, <1>3, <2>3 DEF Good, Typed, SameShape
  <2> QED
    BY <2>1, <2>2, <2>4 DEF Typed
<1>5. InTree(u) = InTree(t)
  <2>1. \A k : k \in InTree(u) <=> k \in InTree(t)
    BY <1>1, <1>3, <1>4, InTreeIs DEF Good
  <2> QED
    BY <2>1
<1>6. \A k \in InTree(t) : SameShape(t[k], u[k])
  BY <1>3, InTreeIs DEF Good, SameShape
<1>7. WellFormed(u)
  <2>1. Root \in InTree(t) => t[Root].parent = NULL
    BY FormedIs DEF Good
  <2>2. \A k \in InTree(t) : Lists(t, k) /\ Listed(t, k)
    BY FormedIs DEF Good
  <2>3. ASSUME NEW k \in InTree(t) PROVE Lists(u, k)
    <3> DEFINE kids == t[k].children
    <3>1. u[k].children = kids /\ u[k].type = t[k].type
      BY <1>6 DEF SameShape
    <3>2. \A i \in 1 .. Len(kids) : kids[i] \in InTree(t) /\ kids[i] # Root /\ t[kids[i]].parent = k
      BY <2>2 DEF Lists
    <3>3. \A i \in 1 .. Len(kids) : u[kids[i]].parent = k /\ u[kids[i]].name = t[kids[i]].name
      BY <1>6, <3>2 DEF SameShape
    <3>4. \A i, j \in 1 .. Len(kids) : i # j => t[kids[j]].name # t[kids[i]].name
      BY <2>2 DEF Lists
    <3>5. (t[k].type # "directory" => kids = <<>>) /\ Len(kids) <= VFS_MAX_CHILDREN
      BY <2>2 DEF Lists
    <3> HIDE DEF kids
    <3> QED
      BY <1>5, <3>1, <3>2, <3>3, <3>4, <3>5 DEF Lists
  <2>4. \A k \in InTree(t) : Listed(u, k)
    BY <1>5, <1>6, <2>2 DEF Listed, SameShape
  <2>5. Root \in InTree(u) => u[Root].parent = NULL
    BY <1>5, <1>6, <2>1 DEF SameShape
  <2> QED
    BY <1>4, <1>5, <2>3, <2>4, <2>5, FormedIs
<1> QED
  BY <1>4, <1>5, <1>7 DEF Good, u
-----------------------------------------------------------------------------
(* Changing a tree.                                                        *)

\* A sequence without its i-th element.
LEMMA RemovedIs ==
    ASSUME NEW S, NEW s \in Seq(S), NEW i \in 1 .. Len(s)
    PROVE  /\ RemoveAt(s, i) \in Seq(S) /\ Len(RemoveAt(s, i)) = Len(s) - 1
           /\ \A j \in 1 .. Len(s) - 1 : RemoveAt(s, i)[j] = IF j < i THEN s[j] ELSE s[j + 1]
<1> DEFINE L == Len(s)
           a == SubSeq(s, 1, i - 1)
           b == SubSeq(s, i + 1, L)
<1>1. L \in Nat /\ i \in 1 .. L
  OBVIOUS
<1>2. a \in Seq(S) /\ Len(a) = i - 1 /\ \A j \in 1 .. i - 1 : a[j] = s[j]
  BY SubSeqProperties
<1>3. b \in Seq(S) /\ Len(b) = L - i /\ \A j \in 1 .. L - i : b[j] = s[i + j]
  BY SubSeqProperties
<1>4. RemoveAt(s, i) = a \o b
  BY DEF RemoveAt
<1> HIDE DEF a, b, L
<1>5. /\ a \o b \in Seq(S) /\ Len(a \o b) = Len(a) + Len(b)
      /\ \A j \in 1 .. Len(a) + Len(b) : (a \o b)[j] = IF j <= Len(a) THEN a[j] ELSE b[j - Len(a)]
  BY <1>2, <1>3, ConcatProperties
<1>6. Len(a) + Len(b) = L - 1
  BY <1>1, <1>2, <1>3
<1>7. ASSUME NEW j \in 1 .. L - 1 PROVE (a \o b)[j] = IF j < i THEN s[j] ELSE s[j + 1]
  <2>1. CASE j < i
    <3>1. j <= Len(a) /\ j \in 1 .. i - 1
      BY <1>1, <1>2, <2>1
    <3> QED
      BY <1>2, <1>5, <1>6, <2>1, <3>1
  <2>2. CASE ~(j < i)
    <3>1. ~(j <= Len(a)) /\ j - Len(a) \in 1 .. L - i /\ i + (j - Len(a)) = j + 1
      BY <1>1, <1>2, <2>2
    <3> QED
      BY <1>3, <1>5, <1>6, <2>2, <3>1
  <2> QED
    BY <2>1, <2>2
<1> QED
  BY <1>4, <1>5, <1>6, <1>7 DEF L

\* The place of a node.
LEMMA PlaceIs ==
    ASSUME NEW t, Good(t), NEW n \in InTree(t)
    PROVE  /\ n \in Nodes /\ n \in Nat /\ n # NULL /\ IsNode(t[n])
           /\ Lists(t, n) /\ Listed(t, n)
           /\ t[n].children \in Seq(Nodes) /\ Len(t[n].children) \in Nat
           /\ Root \in InTree(t) /\ IsNode(t[Root]) /\ t[Root].type = "directory"
<1>1. n \in Nodes /\ IsNode(t[n]) /\ n \in Nat /\ n # NULL
  BY InTreeIs, NodesAre DEF Good
<1>2. Lists(t, n) /\ Listed(t, n)
  BY FormedIs DEF Good
<1>3. t[n].children \in Seq(Nodes)
  BY <1>1 DEF IsNode
<1>4. \A s \in Seq(Nodes) : Len(s) \in Nat
  OBVIOUS
<1>5. IsNode(t[Root]) /\ t[Root].type = "directory"
  BY <1>1, NodeIs DEF Good, Typed
<1>6. Root \in InTree(t)
  BY <1>5, InTreeIs, NodesAre DEF Good
<1> QED
  BY <1>1, <1>2, <1>3, <1>4, <1>5, <1>6

\* A node with other children.
LEMMA Rechilded ==
    ASSUME NEW x, IsNode(x), NEW c \in Seq(Nodes)
    PROVE  LET y == [x EXCEPT !.children = c] IN
           /\ IsNode(y) /\ y.children = c
           /\ y.name = x.name /\ y.type = x.type /\ y.parent = x.parent /\ y.data = x.data
           /\ y.size = x.size /\ y.capacity = x.capacity /\ y.borrowed = x.borrowed
           /\ y.device = x.device
<1> DEFINE y == [x EXCEPT !.children = c]
           z == [name |-> x.name, type |-> x.type, parent |-> x.parent, children |-> c,
                 data |-> x.data, size |-> x.size, capacity |-> x.capacity,
                 borrowed |-> x.borrowed, device |-> x.device]
<1>1. x = [name |-> x.name, type |-> x.type, parent |-> x.parent, children |-> x.children,
            data |-> x.data, size |-> x.size, capacity |-> x.capacity,
            borrowed |-> x.borrowed, device |-> x.device]
  BY DEF IsNode
<1>2. y = z
  BY <1>1
<1>3. /\ z.children = c /\ z.name = x.name /\ z.type = x.type /\ z.parent = x.parent
      /\ z.data = x.data /\ z.size = x.size /\ z.capacity = x.capacity
      /\ z.borrowed = x.borrowed /\ z.device = x.device
  OBVIOUS
<1>4. z = [name |-> z.name, type |-> z.type, parent |-> z.parent, children |-> z.children,
            data |-> z.data, size |-> z.size, capacity |-> z.capacity,
            borrowed |-> z.borrowed, device |-> z.device]
  BY <1>3
<1> HIDE DEF z, y
<1>5. IsNode(z)
  BY <1>3, <1>4 DEF IsNode
<1> QED
  BY <1>2, <1>3, <1>5 DEF y

\* What a creation leaves of an old node, and what a new one starts as.
Kept(x, y) ==
    /\ y.name = x.name /\ y.type = x.type /\ y.parent = x.parent /\ y.data = x.data
    /\ y.size = x.size /\ y.capacity = x.capacity /\ y.borrowed = x.borrowed
    /\ y.device = x.device
    /\ Len(x.children) <= Len(y.children)
    /\ \A i \in 1 .. Len(x.children) : y.children[i] = x.children[i]
Empty(x) == x.size = 0 /\ x.capacity = 0 /\ x.borrowed = FALSE
Grew(t, u) ==
    /\ \A n \in InTree(t) : n \in InTree(u) /\ Kept(t[n], u[n])
    /\ \A n \in InTree(u) : n \notin InTree(t) => Empty(u[n])

\* A tree left alone has grown by nothing.
LEMMA GrewSame ==
    ASSUME NEW t, Good(t)
    PROVE  Grew(t, t)
BY PlaceIs DEF Grew, Kept

\* Growing twice is growing.
LEMMA GrewTwice ==
    ASSUME NEW t, NEW u, NEW w, Good(t), Good(u), Good(w), Grew(t, u), Grew(u, w)
    PROVE  Grew(t, w)
<1>1. ASSUME NEW n \in InTree(t) PROVE n \in InTree(w) /\ Kept(t[n], w[n])
  <2>1. n \in InTree(u) /\ n \in InTree(w) /\ Kept(t[n], u[n]) /\ Kept(u[n], w[n])
    BY DEF Grew
  <2>2. Len(t[n].children) \in Nat /\ Len(u[n].children) \in Nat /\ Len(w[n].children) \in Nat
    BY <2>1, PlaceIs
  <2>3. Len(t[n].children) <= Len(w[n].children)
    BY <2>1, <2>2 DEF Kept
  <2>4. \A i \in 1 .. Len(t[n].children) : i \in 1 .. Len(u[n].children)
    BY <2>1, <2>2 DEF Kept
  <2>5. \A i \in 1 .. Len(t[n].children) : w[n].children[i] = t[n].children[i]
    BY <2>1, <2>4 DEF Kept
  <2> QED
    BY <2>1, <2>3, <2>5 DEF Kept
<1>2. ASSUME NEW n \in InTree(w), n \notin InTree(t) PROVE Empty(w[n])
  BY <1>2 DEF Grew, Kept, Empty
<1> QED
  BY <1>1, <1>2 DEF Grew

\* An allocation that leads to nothing.
LEMMA LoseGood ==
    ASSUME NEW t, Good(t), Root \in InTree(t), NEW n \in Nodes, t[n] = Free
    PROVE  Good([t EXCEPT ![n] = Lost]) /\ Grew(t, [t EXCEPT ![n] = Lost])
<1> DEFINE u == [t EXCEPT ![n] = Lost]
<1>1. u = [k \in Nodes |-> IF k = n THEN Lost ELSE t[k]]
  BY DEF Good, Typed
<1>2. \A k \in Nodes : u[k] = IF k = n THEN Lost ELSE t[k]
  BY <1>1
<1>3. ~IsNode(Lost) /\ ~IsNode(Free)
  BY NodeIs
<1> HIDE DEF u
<1>4. Typed(u)
  <2>1. u = [k \in Nodes |-> u[k]]
    BY <1>1
  <2>2. \A k \in Nodes : u[k] = Free \/ u[k] = Lost \/ IsNode(u[k])
    BY <1>2 DEF Good, Typed
  <2>3. IsNode(t[Root]) /\ t[Root].type = "directory" /\ Root \in Nodes /\ Root # n
    BY <1>3, PlaceIs, NodesAre
  <2> QED
    BY <1>2, <2>1, <2>2, <2>3 DEF Typed
<1>5. \A k : k \in InTree(u) <=> k \in InTree(t)
  BY <1>2, <1>3, <1>4, InTreeIs DEF Good
<1>6. InTree(u) = InTree(t)
  BY <1>5
<1>7. \A k \in InTree(t) : u[k] = t[k]
  BY <1>2, <1>3, InTreeIs DEF Good
<1>8. WellFormed(u)
  <2>1. (Root \in InTree(t) => t[Root].parent = NULL)
        /\ \A k \in InTree(t) : Lists(t, k) /\ Listed(t, k)
    BY FormedIs DEF Good
  <2>2. ASSUME NEW k \in InTree(t) PROVE Lists(u, k)
    <3>1. Lists(t, k) /\ u[k] = t[k]
      BY <1>7, <2>1
    <3>2. \A i \in 1 .. Len(t[k].children) : u[t[k].children[i]] = t[t[k].children[i]]
      BY <1>7, <3>1 DEF Lists
    <3> QED
      BY <1>6, <3>1, <3>2 DEF Lists
  <2>3. ASSUME NEW k \in InTree(t) PROVE Listed(u, k)
    <3>1. Listed(t, k) /\ u[k] = t[k]
      BY <1>7, <2>1
    <3>2. k # Root => u[t[k].parent] = t[t[k].parent]
      BY <1>7, <3>1 DEF Listed
    <3> QED
      BY <1>6, <3>1, <3>2 DEF Listed
  <2> QED
    BY <1>4, <1>6, <1>7, <2>1, <2>2, <2>3, FormedIs
<1>9. Grew(t, u)
  <2>1. Grew(t, t)
    BY GrewSame
  <2> QED
    BY <1>6, <1>7, <2>1 DEF Grew
<1> QED
  BY <1>4, <1>8, <1>9 DEF Good, u

\* A new node in a directory that has room and no child of that name.
LEMMA LinkGood ==
    ASSUME NEW t, Good(t), NEW n \in Nodes, t[n] = Free, NEW p \in InTree(t),
           t[p].type = "directory", Len(t[p].children) < VFS_MAX_CHILDREN,
           NEW nm, NEW ty \in Types,
           \A i \in 1 .. Len(t[p].children) : t[t[p].children[i]].name # nm
    PROVE  /\ Good(link(t, n, p, nm, ty)) /\ Grew(t, link(t, n, p, nm, ty))
           /\ n \in InTree(link(t, n, p, nm, ty)) /\ link(t, n, p, nm, ty)[n].type = ty
<1> DEFINE u == link(t, n, p, nm, ty)
           f == node(nm, ty, p)
           kids == t[p].children
           y == [t[p] EXCEPT !.children = Append(kids, n)]
<1>1. p \in Nodes /\ IsNode(t[p]) /\ kids \in Seq(Nodes) /\ Len(kids) \in Nat
      /\ Root \in InTree(t) /\ IsNode(t[Root]) /\ t[Root].type = "directory"
  BY PlaceIs
<1>2. p # n
  BY <1>1, NodeIs
<1>3. u = [k \in Nodes |-> IF k = p THEN y ELSE IF k = n THEN f ELSE t[k]]
  <2>1. t = [k \in Nodes |-> t[k]]
    BY DEF Good, Typed
  <2> QED
    BY <1>1, <1>2, <2>1 DEF link
<1>4. /\ IsNode(f) /\ f.name = nm /\ f.type = ty /\ f.parent = p /\ f.children = <<>>
      /\ f.size = 0 /\ f.capacity = 0 /\ f.borrowed = FALSE
  <2>1. p \in Nodes \cup {NULL}
    BY <1>1
  <2>2. IsFresh(node(nm, ty, p), nm, ty, p)
    BY <2>1, FreshIs
  <2> QED
    BY <2>2 DEF IsFresh
<1>5. Append(kids, n) \in Seq(Nodes) /\ Len(Append(kids, n)) = Len(kids) + 1
      /\ (\A i \in 1 .. Len(kids) : Append(kids, n)[i] = kids[i]) /\ Append(kids, n)[Len(kids) + 1] = n
  <2> HIDE DEF kids
  <2> QED
    BY <1>1
<1>6. /\ IsNode(y) /\ y.children = Append(kids, n)
      /\ y.name = t[p].name /\ y.type = t[p].type /\ y.parent = t[p].parent /\ y.data = t[p].data
      /\ y.size = t[p].size /\ y.capacity = t[p].capacity /\ y.borrowed = t[p].borrowed
      /\ y.device = t[p].device
  BY <1>1, <1>5, Rechilded
<1> HIDE DEF u, f, y
<1>7. \A k \in Nodes : u[k] = IF k = p THEN y ELSE IF k = n THEN f ELSE t[k]
  BY <1>3
<1>8. Typed(u)
  <2>1. u = [k \in Nodes |-> u[k]]
    BY <1>3
  <2>2. \A k \in Nodes : u[k] = Free \/ u[k] = Lost \/ IsNode(u[k])
    BY <1>4, <1>6, <1>7 DEF Good, Typed
  <2>3. Root # n /\ Root \in Nodes
    BY <1>1, NodeIs, NodesAre
  <2>4. IsNode(u[Root]) /\ u[Root].type = "directory"
    BY <1>1, <1>6, <1>7, <2>3
  <2> QED
    BY <2>1, <2>2, <2>4 DEF Typed
<1>9. n \notin InTree(t) /\ \A k : k \in InTree(u) <=> k \in InTree(t) \/ k = n
  BY <1>1, <1>4, <1>6, <1>7, <1>8, InTreeIs, NodeIs DEF Good
<1>10. \A k \in InTree(t) : Kept(t[k], u[k]) /\ (k # p => u[k] = t[k])
  <2> SUFFICES ASSUME NEW k \in InTree(t) PROVE Kept(t[k], u[k]) /\ (k # p => u[k] = t[k])
    OBVIOUS
  <2>1. k \in Nodes /\ k # n /\ Len(t[k].children) \in Nat
    BY <1>9, PlaceIs
  <2>2. CASE k # p
    BY <1>7, <2>1, <2>2 DEF Kept
  <2>3. CASE k = p
    <3>1. u[k] = y
      BY <1>7, <2>1, <2>3
    <3>2. Len(kids) <= Len(kids) + 1
      BY <1>1
    <3> QED
      BY <1>5, <1>6, <2>3, <3>1, <3>2 DEF Kept
  <2> QED
    BY <2>2, <2>3
<1>11. u[n] = f
  BY <1>2, <1>7
<1>12. Grew(t, u)
  BY <1>4, <1>9, <1>10, <1>11 DEF Grew, Empty
<1>13. Root \in InTree(t) /\ t[Root].parent = NULL /\ \A k \in InTree(t) : Lists(t, k) /\ Listed(t, k)
  BY <1>1, FormedIs DEF Good
<1>14. Lists(u, n)
  <2>1. \A i \in 1 .. Len(f.children) : FALSE
    BY <1>4
  <2>2. Len(f.children) <= VFS_MAX_CHILDREN
    BY <1>4, VfsAssumption
  <2> QED
    BY <1>4, <1>11, <2>1, <2>2 DEF Lists
<1>15. Lists(u, p)
  <2> DEFINE new == u[p].children
             L == Len(kids)
  <2>1. new = Append(kids, n) /\ L \in Nat /\ u[p].type = "directory"
    BY <1>1, <1>6, <1>7
  <2>2. \A i \in 1 .. L : /\ kids[i] \in InTree(t) /\ kids[i] # Root /\ t[kids[i]].parent = p
                          /\ new[i] = kids[i]
    BY <1>5, <1>13, <2>1 DEF Lists
  <2>3. \A i \in 1 .. L : u[kids[i]].parent = p /\ u[kids[i]].name = t[kids[i]].name
    BY <1>10, <2>2 DEF Kept
  <2>4. \A i, j \in 1 .. L : i # j => t[kids[j]].name # t[kids[i]].name
    BY <1>13 DEF Lists
  <2>5. Len(new) = L + 1 /\ new[L + 1] = n /\ u[n].name = nm /\ u[n].parent = p /\ n # Root
    BY <1>4, <1>5, <1>9, <1>11, <1>13, <2>1
  <2>6. \A i \in 1 .. L : u[kids[i]].name # nm
    BY <2>3
  <2>7. L + 1 <= VFS_MAX_CHILDREN
    BY <2>1, VfsAssumption
  <2> HIDE DEF new, L, kids
  <2>8. \A i \in 1 .. L + 1 : i \in 1 .. L \/ i = L + 1
    BY <2>1
  <2>9. \A i \in 1 .. L + 1 : new[i] \in InTree(u) /\ new[i] # Root /\ u[new[i]].parent = p
    BY <1>9, <2>2, <2>3, <2>5, <2>8
  <2>10. \A i, j \in 1 .. L + 1 : i # j => u[new[j]].name # u[new[i]].name
    BY <2>2, <2>3, <2>4, <2>5, <2>6, <2>8
  <2> QED
    BY <2>1, <2>5, <2>7, <2>9, <2>10 DEF Lists, new
<1>16. ASSUME NEW k \in InTree(t), k # p PROVE Lists(u, k)
  <2>1. Lists(t, k) /\ u[k] = t[k]
    BY <1>10, <1>13, <1>16
  <2>2. \A i \in 1 .. Len(t[k].children) :
            /\ u[t[k].children[i]].name = t[t[k].children[i]].name
            /\ u[t[k].children[i]].parent = t[t[k].children[i]].parent
    BY <1>10, <2>1 DEF Lists, Kept
  <2>3. \A i \in 1 .. Len(t[k].children) : t[k].children[i] \in InTree(u)
    BY <1>9, <2>1 DEF Lists
  <2> QED
    BY <2>1, <2>2, <2>3 DEF Lists
<1>17. Listed(u, n)
  <2>1. Len(kids) + 1 \in 1 .. Len(u[p].children) /\ u[p].children[Len(kids) + 1] = n
    BY <1>1, <1>5, <1>6, <1>7
  <2> QED
    BY <1>4, <1>9, <1>11, <2>1 DEF Listed
<1>18. ASSUME NEW k \in InTree(t) PROVE Listed(u, k)
  <2> DEFINE q == t[k].parent
  <2>1. Listed(t, k) /\ u[k].parent = q
    BY <1>10, <1>13 DEF Kept
  <2> SUFFICES ASSUME k # Root
               PROVE  /\ q \in InTree(u)
                      /\ \E i \in 1 .. Len(u[q].children) : u[q].children[i] = k
    BY <2>1 DEF Listed
  <2>2. q \in InTree(t)
    BY <2>1 DEF Listed
  <2>3. PICK i \in 1 .. Len(t[q].children) : t[q].children[i] = k
    BY <2>1 DEF Listed
  <2>4. Kept(t[q], u[q]) /\ Len(t[q].children) \in Nat
    BY <1>10, <2>2, PlaceIs
  <2>5. Len(u[q].children) \in Nat
    <3>1. IsNode(u[q])
      BY <1>8, <1>9, <2>2, InTreeIs
    <3>2. u[q].children \in Seq(Nodes)
      BY <3>1 DEF IsNode
    <3>3. \A s \in Seq(Nodes) : Len(s) \in Nat
      OBVIOUS
    <3> QED
      BY <3>2, <3>3
  <2>6. i \in 1 .. Len(u[q].children)
    BY <2>3, <2>4, <2>5 DEF Kept
  <2>7. u[q].children[i] = k
    BY <2>3, <2>4 DEF Kept
  <2> QED
    BY <1>9, <2>2, <2>6, <2>7
<1>19. u[Root].parent = NULL
  BY <1>10, <1>13 DEF Kept
<1>20. WellFormed(u)
  BY <1>8, <1>9, <1>14, <1>15, <1>16, <1>17, <1>18, <1>19, FormedIs
<1> QED
  BY <1>4, <1>8, <1>9, <1>11, <1>12, <1>20 DEF Good, u
-----------------------------------------------------------------------------
(* Looking up and creating.                                                *)

\* What vfs_find_child gives: a child of that name, or NULL when there is
\* none.
Child(t, dir, nm, c) ==
    \/ c = NULL /\ (dir # NULL => \A i \in 1 .. Len(t[dir].children) :
                                     t[t[dir].children[i]].name # nm)
    \/ c \in InTree(t) /\ c # NULL /\ dir # NULL

\* vfs_find_child finds the child of that name, or none.
LEMMA ChildIs ==
    ASSUME NEW t, Good(t), NEW dir \in InTree(t) \cup {NULL}, NEW nm
    PROVE  Child(t, dir, nm, vfs_find_child(t, dir, nm))
<1>1. CASE dir = NULL
  BY <1>1 DEF vfs_find_child, Child
<1>2. CASE dir # NULL
  <2> DEFINE s == t[dir].children
             I == {i \in 1 .. Len(s) : t[s[i]].name = nm}
             c == vfs_find_child(t, dir, nm)
  <2>1. Len(s) \in Nat /\ \A i \in 1 .. Len(s) : s[i] \in InTree(t) /\ s[i] # NULL
    BY <1>2, PlaceIs DEF Lists
  <2>2. c = LET i == IF I # {} THEN Min(I) ELSE 0 IN IF i = 0 THEN NULL ELSE s[i]
    BY <1>2 DEF vfs_find_child, SelectInSeq
  <2>3. CASE I = {}
    <3>1. c = NULL
      BY <2>2, <2>3
    <3> QED
      BY <2>3, <3>1 DEF Child
  <2>4. CASE I # {}
    <3>1. I \in SUBSET Nat
      BY <2>1
    <3>2. \E x \in I : \A y \in I : x <= y
      BY <2>4, <3>1, LeastNumber
    <3>3. Min(I) \in I
      BY <3>2 DEF Min
    <3>4. Min(I) # 0
      BY <3>3
    <3>5. c = s[Min(I)]
      <4> HIDE DEF I, s, c
      <4> QED
        BY <2>2, <2>4, <3>4
    <3> QED
      BY <1>2, <2>1, <3>3, <3>5 DEF Child
  <2> QED
    BY <2>3, <2>4
<1> QED
  BY <1>1, <1>2

\* kmalloc gives a free address or NULL.
LEMMA AllocIs ==
    ASSUME NEW t
    PROVE  node_alloc(t) # NULL => node_alloc(t) \in Nodes /\ t[node_alloc(t)] = Free
<1> DEFINE F == {n \in Nodes : t[n] = Free}
<1>1. CASE F = {}
  BY <1>1 DEF node_alloc
<1>2. CASE F # {}
  <2>1. F \in SUBSET Nat
    BY NodesAre
  <2>2. \E x \in F : \A y \in F : x <= y
    BY <1>2, <2>1, LeastNumber
  <2>3. node_alloc(t) \in F
    BY <1>2, <2>2 DEF node_alloc
  <2> QED
    BY <2>3
<1> QED
  BY <1>1, <1>2

\* What a creator makes of a tree: a good tree with the old one in it, and
\* a node of it or NULL.
Made(t, r) ==
    /\ r = [tree |-> r.tree, node |-> r.node]
    /\ Good(r.tree) /\ Grew(t, r.tree)
    /\ r.node \in InTree(r.tree) \cup {NULL}

\* What a call that makes nodes returns.
LEMMA MadeIs ==
    ASSUME NEW t, NEW u, NEW n, Good(u), Grew(t, u), n \in InTree(u) \cup {NULL}
    PROVE  Made(t, [tree |-> u, node |-> n])
<1> DEFINE r == [tree |-> u, node |-> n]
<1>1. r.tree = u /\ r.node = n
  OBVIOUS
<1> HIDE DEF r
<1>2. r = [tree |-> u, node |-> n]
  BY DEF r
<1>3. r = [tree |-> r.tree, node |-> r.node]
  BY <1>1, <1>2
<1>4. Made(t, r)
  BY <1>1, <1>3 DEF Made
<1> QED
  BY <1>4 DEF r

\* vfs_create_node adds one node to its parent, or changes nothing.
LEMMA CreateNode ==
    ASSUME NEW t, Good(t), NEW p \in InTree(t), NEW nm, NEW ty \in Types
    PROVE  Made(t, vfs_create_node(t, p, nm, ty))
<1> DEFINE e == vfs_find_child(t, p, nm)
           n == node_alloc(t)
           lost == IF n = NULL THEN t ELSE [t EXCEPT ![n] = Lost]
           r == vfs_create_node(t, p, nm, ty)
<1>1. p \in Nodes /\ p # NULL /\ IsNode(t[p]) /\ Root \in InTree(t)
      /\ t[p].children \in Seq(Nodes) /\ Len(t[p].children) \in Nat
  BY PlaceIs
<1>2. Child(t, p, nm, e)
  BY ChildIs
<1>3. n # NULL => n \in Nodes /\ t[n] = Free
  BY AllocIs
<1> HIDE DEF e, n
<1>4. Good(lost) /\ Grew(t, lost)
  BY <1>1, <1>3, GrewSame, LoseGood
<1>5. r = IF ~is(t, p, "directory") THEN [tree |-> lost, node |-> NULL]
          ELSE IF e # NULL THEN [tree |-> lost, node |-> e]
          ELSE IF Len(t[p].children) >= VFS_MAX_CHILDREN \/ n = NULL
               THEN [tree |-> lost, node |-> NULL]
          ELSE [tree |-> link(t, n, p, nm, ty), node |-> n]
  BY DEF vfs_create_node, e, n
<1> HIDE DEF lost, r
<1>6. CASE r = [tree |-> lost, node |-> NULL]
  BY <1>4, <1>6, MadeIs DEF r
<1>7. CASE r = [tree |-> lost, node |-> e] /\ e # NULL
  <2>1. e \in InTree(lost)
    BY <1>2, <1>4, <1>7 DEF Child, Grew
  <2> QED
    BY <1>4, <1>7, <2>1, MadeIs DEF r
<1>8. CASE /\ r = [tree |-> link(t, n, p, nm, ty), node |-> n]
           /\ is(t, p, "directory") /\ e = NULL
           /\ ~(Len(t[p].children) >= VFS_MAX_CHILDREN) /\ n # NULL
  <2>1. n \in Nodes /\ t[n] = Free /\ t[p].type = "directory"
    BY <1>3, <1>8 DEF is
  <2>2. \A i \in 1 .. Len(t[p].children) : t[t[p].children[i]].name # nm
    BY <1>1, <1>2, <1>8, NodesAre DEF Child, InTree
  <2>3. Len(t[p].children) < VFS_MAX_CHILDREN
    BY <1>1, <1>8, VfsAssumption
  <2>4. /\ Good(link(t, n, p, nm, ty)) /\ Grew(t, link(t, n, p, nm, ty))
        /\ n \in InTree(link(t, n, p, nm, ty))
    BY <2>1, <2>2, <2>3, LinkGood
  <2> QED
    BY <1>8, <2>4, MadeIs DEF r
<1> QED
  BY <1>5, <1>6, <1>7, <1>8
-----------------------------------------------------------------------------
(* Walking a path.                                                         *)

\* One component of vfs_find (x is a node) or of vfs_mkdir (x is what the
\* components before it made).
Stride(call, t, x, nm) == IF call = "find" THEN vfs_find_child(t, x, nm) ELSE mkdir_step(x, nm)

Walks(call, t, a, path, f) ==
    f = [k \in 0 .. Len(path) |-> IF k = 0 THEN a ELSE Stride(call, t, f[k - 1], path[k])]

\* The walk along a path exists: of the lengths it could fail at there
\* would be a least one.
LEMMA WalkIs ==
    ASSUME NEW call, NEW t, NEW a, NEW path, Len(path) \in Nat
    PROVE  \E f : Walks(call, t, a, path, f)
<1> DEFINE n == Len(path)
           S(x, y) == Stride(call, t, x, y)
           Trace(f, l) == /\ f[0] = a
                          /\ \A k \in 1 .. l : f[k] = S(f[k - 1], path[k])
           Is(f) == f = [k \in 0 .. n |-> IF k = 0 THEN a ELSE S(f[k - 1], path[k])]
<1>1. n \in Nat
  OBVIOUS
<1> HIDE DEF n, S
<1>4. \A l \in 0 .. n : \E f : Trace(f, l)
  <2> DEFINE B == {l \in 0 .. n : ~ \E f : Trace(f, l)}
  <2> SUFFICES ASSUME B # {} PROVE FALSE
    OBVIOUS
  <2>1. B \in SUBSET Nat
    OBVIOUS
  <2>2. PICK l \in B : \A k \in B : l <= k
    BY <2>1, LeastNumber
  <2>3. l # 0
    <3> SUFFICES Trace([k \in 0 .. 0 |-> a], 0)
      OBVIOUS
    <3> QED
      OBVIOUS
  <2> DEFINE h == l - 1
  <2>4. h \in 0 .. n /\ h \notin B /\ h + 1 = l /\ l \in 0 .. n
    <3>1. l \in 0 .. n
      OBVIOUS
    <3>2. h \in 0 .. n /\ h + 1 = l /\ ~ (l <= h)
      BY <1>1, <2>3, <3>1
    <3> HIDE DEF h, B
    <3> QED
      BY <2>2, <3>1, <3>2
  <2>5. PICK f : Trace(f, h)
    BY <2>4
  <2> DEFINE w == [k \in 0 .. l |-> IF k = l THEN S(f[h], path[l]) ELSE f[k]]
  <2> HIDE DEF h, B
  <2>6. \A k \in 0 .. h : w[k] = f[k]
    BY <2>4
  <2>7. w[l] = S(f[h], path[l])
    BY <2>4
  <2> HIDE DEF w
  <2>8. w[0] = a
    BY <2>4, <2>5, <2>6
  <2>9. ASSUME NEW k \in 1 .. l PROVE w[k] = S(w[k - 1], path[k])
    <3>1. CASE k = l
      <4>1. k - 1 = h /\ h \in 0 .. h
        BY <2>4, <3>1
      <4> QED
        BY <2>6, <2>7, <3>1, <4>1
    <3>2. CASE k # l
      <4>1. k \in 1 .. h /\ k \in 0 .. h /\ k - 1 \in 0 .. h
        BY <2>4, <3>2
      <4> QED
        BY <2>5, <2>6, <4>1
    <3> QED
      BY <3>1, <3>2
  <2>10. Trace(w, l)
    BY <2>8, <2>9
  <2> QED
    BY <2>2, <2>10 DEF B
<1>5. \E f : Is(f)
  <2>1. PICK f : Trace(f, n)
    <3>1. n \in 0 .. n
      BY <1>1
    <3> HIDE DEF Trace
    <3> QED
      BY <1>4, <3>1
  <2> DEFINE e == [k \in 0 .. n |-> f[k]]
             d == [k \in 0 .. n |-> IF k = 0 THEN a ELSE S(e[k - 1], path[k])]
  <2>2. \A k \in 0 .. n : k = 0 \/ (k \in 1 .. n /\ k - 1 \in 0 .. n)
    BY <1>1
  <2>3. \A k \in 0 .. n : d[k] = e[k]
    BY <2>1, <2>2
  <2>4. d = [k \in 0 .. n |-> d[k]] /\ e = [k \in 0 .. n |-> e[k]]
    OBVIOUS
  <2> HIDE DEF d, e
  <2>5. d = e
    BY <2>3, <2>4
  <2>6. Is(e)
    BY <2>5 DEF d
  <2> HIDE DEF Is
  <2> QED
    BY <2>6
<1> QED
  BY <1>5 DEF n, S, Walks

\* A path leads to a node or to nothing.
LEMMA FindIs ==
    ASSUME NEW t, Good(t), NEW path, Len(path) \in Nat
    PROVE  vfs_find(t, path) \in InTree(t) \cup {NULL}
<1> DEFINE n == Len(path)
           Is(f) == f = [k \in 0 .. n |-> IF k = 0 THEN vfs_get_root(t)
                                          ELSE Stride("find", t, f[k - 1], path[k])]
           g == CHOOSE f : Is(f)
<1>1. n \in Nat
  OBVIOUS
<1>2. vfs_find(t, path) = g[n]
  BY DEF vfs_find, Stride
<1>3. \E f : Is(f)
  <2>1. \E f : Walks("find", t, vfs_get_root(t), path, f)
    BY WalkIs
  <2> QED
    BY <2>1 DEF Walks
<1>4. Is(g)
  <2> HIDE DEF Is
  <2> QED
    BY <1>3
<1> HIDE DEF g, n
<1>5. g[0] = vfs_get_root(t) /\ \A k \in 1 .. n : g[k] = vfs_find_child(t, g[k - 1], path[k])
  <2>1. \A k \in 0 .. n : g[k] = IF k = 0 THEN vfs_get_root(t) ELSE Stride("find", t, g[k - 1], path[k])
    BY <1>4
  <2>2. 0 \in 0 .. n /\ \A k \in 1 .. n : k \in 0 .. n /\ k # 0
    BY <1>1
  <2> QED
    BY <2>1, <2>2 DEF Stride
<1>6. g[0] \in InTree(t) \cup {NULL}
  BY <1>5, NodesAre, InTreeIs DEF vfs_get_root, Good, Typed
<1> DEFINE B == {k \in 0 .. n : g[k] \notin InTree(t) \cup {NULL}}
<1>7. B = {}
  <2> SUFFICES ASSUME B # {} PROVE FALSE
    OBVIOUS
  <2>1. B \in SUBSET Nat
    OBVIOUS
  <2>2. PICK l \in B : \A k \in B : l <= k
    BY <2>1, LeastNumber
  <2> DEFINE h == l - 1
  <2>3. l \in 1 .. n /\ h \in 0 .. n /\ ~(l <= h)
    BY <1>1, <1>6
  <2>4. h \notin B
    <3> HIDE DEF h, B
    <3> QED
      BY <2>2, <2>3
  <2>5. g[h] \in InTree(t) \cup {NULL}
    BY <2>3, <2>4
  <2>6. g[l] = vfs_find_child(t, g[h], path[l])
    BY <1>5, <2>3
  <2> HIDE DEF h
  <2>7. Child(t, g[h], path[l], g[l])
    BY <2>5, <2>6, ChildIs
  <2> QED
    BY <2>7 DEF Child
<1> QED
  BY <1>1, <1>2, <1>7
\* What is made after something was made.
LEMMA MadeTwice ==
    ASSUME NEW t, NEW u, NEW r, Good(t), Good(u), Grew(t, u), Made(u, r)
    PROVE  Made(t, r)
BY GrewTwice DEF Made

\* One component of mkdir -p.
LEMMA MkdirStep ==
    ASSUME NEW t, Good(t), NEW r, Made(t, r), NEW nm
    PROVE  Made(t, mkdir_step(r, nm))
<1> DEFINE c == vfs_find_child(r.tree, r.node, nm)
           to == IF is(r.tree, c, "directory") THEN c ELSE NULL
           u == r.tree
<1>1. Good(r.tree) /\ Grew(t, r.tree) /\ r.node \in InTree(r.tree) \cup {NULL}
      /\ r = [tree |-> r.tree, node |-> r.node]
  BY DEF Made
<1>2. Child(r.tree, r.node, nm, c)
  BY <1>1, ChildIs
<1>3. CASE r.node = NULL
  BY <1>3 DEF mkdir_step
<1>4. CASE r.node # NULL /\ c = NULL
  <2>1. mkdir_step(r, nm) = vfs_create_node(r.tree, r.node, nm, "directory")
    BY <1>4 DEF mkdir_step
  <2>2. "directory" \in Types /\ r.node \in InTree(r.tree)
    BY <1>1, <1>4 DEF Types
  <2>3. Made(r.tree, vfs_create_node(r.tree, r.node, nm, "directory"))
    BY <1>1, <2>2, CreateNode
  <2> QED
    BY <1>1, <2>1, <2>3, MadeTwice
<1>5. CASE r.node # NULL /\ c # NULL
  <2>1. mkdir_step(r, nm) = [r EXCEPT !.node = to]
    BY <1>5 DEF mkdir_step
  <2>2. to \in InTree(r.tree) \cup {NULL}
    BY <1>2, <1>5 DEF Child
  <2> HIDE DEF to
  <2>3. [r EXCEPT !.node = to] = [tree |-> r.tree, node |-> to]
    BY <1>1
  <2> QED
    BY <1>1, <2>1, <2>2, <2>3, MadeIs
<1> QED
  BY <1>3, <1>4, <1>5

\* The root, when there is one.
LEMMA RootIs ==
    ASSUME NEW t, Good(t)
    PROVE  vfs_get_root(t) \in InTree(t) \cup {NULL}
BY NodesAre, InTreeIs DEF vfs_get_root, Good, Typed

\* mkdir -p makes a good tree, however far it gets.
LEMMA MkdirIs ==
    ASSUME NEW t, Good(t), NEW path, Len(path) \in Nat
    PROVE  Made(t, vfs_mkdir(t, path))
<1> DEFINE n == Len(path)
           a == [tree |-> t, node |-> vfs_get_root(t)]
           Is(f) == f = [k \in 0 .. n |-> IF k = 0 THEN a ELSE Stride("mkdir", t, f[k - 1], path[k])]
           g == CHOOSE f : Is(f)
<1>1. n \in Nat
  OBVIOUS
<1>2. vfs_mkdir(t, path) = g[n]
  BY DEF vfs_mkdir, Stride
<1>3. \E f : Is(f)
  <2> HIDE DEF a
  <2>1. \E f : Walks("mkdir", t, a, path, f)
    BY WalkIs
  <2> QED
    BY <2>1 DEF Walks
<1>4. Is(g)
  <2> HIDE DEF Is
  <2> QED
    BY <1>3
<1>5. Made(t, a)
  BY RootIs, GrewSame, MadeIs
<1> HIDE DEF g, n, a
<1>6. g[0] = a /\ \A k \in 1 .. n : g[k] = mkdir_step(g[k - 1], path[k])
  <2>1. \A k \in 0 .. n : g[k] = IF k = 0 THEN a ELSE Stride("mkdir", t, g[k - 1], path[k])
    BY <1>4
  <2>2. 0 \in 0 .. n /\ \A k \in 1 .. n : k \in 0 .. n /\ k # 0
    BY <1>1
  <2> QED
    BY <2>1, <2>2 DEF Stride
<1> DEFINE B == {k \in 0 .. n : ~Made(t, g[k])}
<1>7. B = {}
  <2> SUFFICES ASSUME B # {} PROVE FALSE
    OBVIOUS
  <2>1. B \in SUBSET Nat
    OBVIOUS
  <2>2. PICK l \in B : \A k \in B : l <= k
    BY <2>1, LeastNumber
  <2> DEFINE h == l - 1
  <2>3. l \in 1 .. n /\ h \in 0 .. n /\ ~(l <= h)
    <3>1. l # 0
      BY <1>5, <1>6
    <3>2. l \in 0 .. n
      OBVIOUS
    <3> QED
      BY <1>1, <3>1, <3>2
  <2>4. h \notin B
    <3> HIDE DEF h, B
    <3> QED
      BY <2>2, <2>3
  <2>5. Made(t, g[h])
    BY <2>3, <2>4
  <2>6. g[l] = mkdir_step(g[h], path[l])
    BY <1>6, <2>3
  <2> HIDE DEF h
  <2>7. Made(t, g[l])
    BY <2>5, <2>6, MkdirStep
  <2> QED
    BY <2>7
<1>8. n \in 0 .. n
  BY <1>1
<1> QED
  BY <1>2, <1>7, <1>8

\* A path without its last name.
LEMMA FrontIs ==
    ASSUME NEW S, NEW path \in Seq(S), path # <<>>
    PROVE  Len(Front(path)) \in Nat
<1>1. Len(path) \in Nat \ {0}
  BY EmptySeq
<1>2. Len(SubSeq(path, 1, Len(path) - 1)) \in Nat
  BY <1>1
<1> QED
  BY <1>2 DEF Front

\* The directory of a path is made when it is missing, then the node.
LEMMA CreateIn ==
    ASSUME NEW t, Good(t), NEW S, NEW path \in Seq(S), NEW ty \in Types
    PROVE  Made(t, create_in(t, path, ty))
<1> DEFINE dir == vfs_find(t, Front(path))
           made == IF dir # NULL THEN [tree |-> t, node |-> dir]
                   ELSE vfs_mkdir(t, Front(path))
<1>1. CASE path = <<>>
  <2>1. create_in(t, path, ty) = [tree |-> t, node |-> NULL]
    BY <1>1 DEF create_in
  <2> QED
    BY <2>1, GrewSame, MadeIs
<1>2. CASE path # <<>>
  <2>1. dir \in InTree(t) \cup {NULL}
    BY <1>2, FrontIs, FindIs
  <2>2. Made(t, vfs_mkdir(t, Front(path)))
    BY <1>2, FrontIs, MkdirIs
  <2>3. create_in(t, path, ty) = IF made.node = NULL THEN made
                                 ELSE vfs_create_node(made.tree, made.node, Last(path), ty)
    BY <1>2 DEF create_in
  <2> HIDE DEF dir
  <2>4. Made(t, made)
    BY <2>1, <2>2, GrewSame, MadeIs
  <2> HIDE DEF made
  <2>5. CASE made.node = NULL
    BY <2>3, <2>4, <2>5
  <2>6. CASE made.node # NULL
    <3>1. Good(made.tree) /\ Grew(t, made.tree) /\ made.node \in InTree(made.tree)
      BY <2>4, <2>6 DEF Made
    <3>2. Made(made.tree, vfs_create_node(made.tree, made.node, Last(path), ty))
      BY <3>1, CreateNode
    <3> QED
      BY <2>3, <2>6, <3>1, <3>2, MadeTwice
  <2> QED
    BY <2>5, <2>6
<1> QED
  BY <1>1, <1>2
-----------------------------------------------------------------------------
(* Contents.                                                               *)

\* A node with other contents.
With(x, d, s, c, b, v) ==
    [name |-> x.name, type |-> x.type, parent |-> x.parent, children |-> x.children,
     data |-> d, size |-> s, capacity |-> c, borrowed |-> b, device |-> v]
Holds(y, d, s, c, b, v) ==
    y.data = d /\ y.size = s /\ y.capacity = c /\ y.borrowed = b /\ y.device = v

\* A node with other data is a node in the same place.
LEMMA WithIs ==
    ASSUME NEW x, IsNode(x), NEW d \in Nat, NEW s \in Nat, NEW c \in Nat,
           NEW b \in BOOLEAN, NEW v
    PROVE  /\ IsNode(With(x, d, s, c, b, v)) /\ SameShape(x, With(x, d, s, c, b, v))
           /\ Holds(With(x, d, s, c, b, v), d, s, c, b, v)
<1> DEFINE y == With(x, d, s, c, b, v)
<1>1. /\ y.name = x.name /\ y.type = x.type /\ y.parent = x.parent /\ y.children = x.children
      /\ y.data = d /\ y.size = s /\ y.capacity = c /\ y.borrowed = b /\ y.device = v
  BY DEF With
<1>2. y = [name |-> y.name, type |-> y.type, parent |-> y.parent, children |-> y.children,
           data |-> y.data, size |-> y.size, capacity |-> y.capacity,
           borrowed |-> y.borrowed, device |-> y.device]
  BY <1>1 DEF With
<1> HIDE DEF y
<1>3. IsNode(y)
  BY <1>1, <1>2 DEF IsNode
<1> QED
  BY <1>1, <1>3 DEF SameShape, Holds, y

\* The record of a node is its fields.
Fields(x) == [name |-> x.name, type |-> x.type, parent |-> x.parent, children |-> x.children,
              data |-> x.data, size |-> x.size, capacity |-> x.capacity,
              borrowed |-> x.borrowed, device |-> x.device]

\* The assignments of vfs_set_data and of vfs_write, field by field.
Lent(x, d, s, c, b) == [x EXCEPT !.data = d, !.size = s, !.capacity = c, !.borrowed = b]
Stored(x, d, s, c) == [x EXCEPT !.data = d, !.size = s, !.capacity = c]

\* Lending the bytes of an archive sets four fields.
LEMMA LentIs ==
    ASSUME NEW x, x = Fields(x), NEW d, NEW s, NEW c, NEW b
    PROVE  Lent(x, d, s, c, b) = With(x, d, s, c, b, x.device)
<1>1. x = With(x, x.data, x.size, x.capacity, x.borrowed, x.device)
  BY DEF Fields, With
<1>2. [[[[x EXCEPT !.data = d] EXCEPT !.size = s] EXCEPT !.capacity = c] EXCEPT !.borrowed = b] = With(x, d, s, c, b, x.device)
  <2>1. [x EXCEPT !.data = d] = With(x, d, x.size, x.capacity, x.borrowed, x.device)
    BY <1>1 DEF With
  <2>2. [With(x, d, x.size, x.capacity, x.borrowed, x.device) EXCEPT !.size = s] = With(x, d, s, x.capacity, x.borrowed, x.device)
    BY DEF With
  <2>3. [With(x, d, s, x.capacity, x.borrowed, x.device) EXCEPT !.capacity = c] = With(x, d, s, c, x.borrowed, x.device)
    BY DEF With
  <2>4. [With(x, d, s, c, x.borrowed, x.device) EXCEPT !.borrowed = b] = With(x, d, s, c, b, x.device)
    BY DEF With
  <2> QED
    BY <2>1, <2>2, <2>3, <2>4
<1> QED
  BY <1>2 DEF Lent

\* Storing written bytes sets three.
LEMMA StoredIs ==
    ASSUME NEW x, NEW f, NEW d, NEW c, NEW a, NEW v, NEW e, NEW s0, NEW s, NEW b,
           f = With(x, d, s0, c, b, v)
    PROVE  Stored(f, a, s, e) = With(x, a, s, e, b, v)
<1>1. [With(x, d, s0, c, b, v) EXCEPT !.data = a] = With(x, a, s0, c, b, v)
  BY DEF With
<1>2. [With(x, a, s0, c, b, v) EXCEPT !.size = s] = With(x, a, s, c, b, v)
  BY DEF With
<1>3. [With(x, a, s, c, b, v) EXCEPT !.capacity = e] = With(x, a, s, e, b, v)
  BY DEF With
<1> QED
  BY <1>1, <1>2, <1>3 DEF Stored

\* A tree in which one node has other contents.
Refilled(t, u, n, d, s, c, b, v) ==
    /\ Good(u) /\ InTree(u) = InTree(t)
    /\ \A k \in InTree(t) : k # n => u[k] = t[k]
    /\ IsNode(u[n]) /\ SameShape(t[n], u[n]) /\ Holds(u[n], d, s, c, b, v)

\* Other data in a node leaves a good tree good.
LEMMA RefillIs ==
    ASSUME NEW t, Good(t), NEW n \in InTree(t), NEW d \in Nat, NEW s \in Nat, NEW c \in Nat,
           NEW b \in BOOLEAN, NEW v
    PROVE  Refilled(t, [t EXCEPT ![n] = With(t[n], d, s, c, b, v)], n, d, s, c, b, v)
<1> DEFINE y == With(t[n], d, s, c, b, v)
           u == [t EXCEPT ![n] = y]
<1>1. n \in Nodes /\ IsNode(t[n])
  BY PlaceIs
<1>2. IsNode(y) /\ SameShape(t[n], y) /\ Holds(y, d, s, c, b, v)
  BY <1>1, WithIs
<1> HIDE DEF y
<1>3. Good(u) /\ InTree(u) = InTree(t)
  BY <1>2, Reshaped
<1>4. t = [k \in Nodes |-> t[k]] /\ InTree(t) \subseteq Nodes
  BY DEF Good, Typed, InTree
<1>5. u[n] = y /\ \A k \in InTree(t) : k # n => u[k] = t[k]
  BY <1>1, <1>4
<1> HIDE DEF u
<1>6. Refilled(t, u, n, d, s, c, b, v)
  BY <1>2, <1>3, <1>5 DEF Refilled
<1> QED
  BY <1>6 DEF u, y

\* cpio_extract points a file at its bytes in the archive.
LEMMA SetData ==
    ASSUME NEW t, Good(t), NEW n \in InTree(t), NEW at \in Nat, NEW size \in Nat
    PROVE  vfs_set_data(t, n, at, size) = t \/
           Refilled(t, vfs_set_data(t, n, at, size), n, at, size, size, TRUE, t[n].device)
<1> DEFINE y == With(t[n], at, size, size, TRUE, t[n].device)
<1>1. n \in Nodes /\ IsNode(t[n]) /\ t = [k \in Nodes |-> t[k]]
  BY PlaceIs DEF Good, Typed
<1>2. CASE ~is(t, n, "file")
  BY <1>2 DEF vfs_set_data
<1>3. CASE is(t, n, "file")
  <2>1. t[n] = Fields(t[n])
    BY <1>1 DEF IsNode, Fields
  <2>2. vfs_set_data(t, n, at, size) = [t EXCEPT ![n].data = at, ![n].size = size,
                   ![n].capacity = size, ![n].borrowed = TRUE]
    BY <1>3 DEF vfs_set_data
  <2>3. @ = [t EXCEPT ![n] = [t[n] EXCEPT !.data = at, !.size = size, !.capacity = size,
                                           !.borrowed = TRUE]]
    BY <1>1
  <2>4. Lent(t[n], at, size, size, TRUE) = y
    BY <2>1, LentIs
  <2>5. vfs_set_data(t, n, at, size) = [t EXCEPT ![n] = Lent(t[n], at, size, size, TRUE)]
    BY <2>2, <2>3 DEF Lent
  <2>6. vfs_set_data(t, n, at, size) = [t EXCEPT ![n] = y]
    BY <2>4, <2>5
  <2>7. Refilled(t, [t EXCEPT ![n] = y], n, at, size, size, TRUE, t[n].device)
    BY RefillIs
  <2> HIDE DEF y
  <2> QED
    BY <2>6, <2>7
<1> QED
  BY <1>2, <1>3

\* device_register names the driver of a node.
LEMMA CreateDevice ==
    ASSUME NEW t, Good(t), NEW S, NEW path \in Seq(S), NEW dev
    PROVE  LET r == create_in(t, path, "device")
               q == vfs_create_device(t, path, dev) IN
           /\ Made(t, r)
           /\ q = r \/ (r.node \in InTree(r.tree) /\
                 Refilled(r.tree, q.tree, r.node, r.tree[r.node].data, r.tree[r.node].size,
                    r.tree[r.node].capacity, r.tree[r.node].borrowed, dev))
<1> DEFINE r == create_in(t, path, "device")
           q == vfs_create_device(t, path, dev)
           u == r.tree
           n == r.node
           y == With(u[n], u[n].data, u[n].size, u[n].capacity, u[n].borrowed, dev)
<1>1. "device" \in Types
  BY DEF Types
<1>2. Made(t, r)
  BY <1>1, CreateIn
<1>3. q = IF n = NULL THEN r ELSE [r EXCEPT !.tree[n].device = dev]
  BY DEF vfs_create_device
<1> HIDE DEF r, q
<1>4. CASE n = NULL
  BY <1>2, <1>3, <1>4 DEF r, q
<1>5. CASE n # NULL
  <2>1. Good(u) /\ n \in InTree(u) /\ r = [tree |-> u, node |-> n]
    BY <1>2, <1>5 DEF Made
  <2>2. n \in Nodes /\ IsNode(u[n]) /\ u = [k \in Nodes |-> u[k]]
    BY <2>1, PlaceIs DEF Good, Typed
  <2>3. u[n] = Fields(u[n]) /\ u[n].data \in Nat /\ u[n].size \in Nat /\ u[n].capacity \in Nat
        /\ u[n].borrowed \in BOOLEAN
    BY <2>2 DEF IsNode, Fields
  <2>4. q.tree = [u EXCEPT ![n].device = dev]
    BY <1>3, <1>5, <2>1
  <2>5. [u EXCEPT ![n].device = dev] = [u EXCEPT ![n] = [u[n] EXCEPT !.device = dev]]
    OBVIOUS
  <2>6. [u[n] EXCEPT !.device = dev] = y
    BY <2>3 DEF Fields, With
  <2>7. q.tree = [u EXCEPT ![n] = y]
    BY <2>4, <2>5, <2>6
  <2>8. Refilled(u, [u EXCEPT ![n] = y], n, u[n].data, u[n].size, u[n].capacity, u[n].borrowed, dev)
    BY <2>1, <2>3, RefillIs
  <2>9. Refilled(u, q.tree, n, u[n].data, u[n].size, u[n].capacity, u[n].borrowed, dev)
    BY <2>7, <2>8
  <2> QED
    BY <1>2, <2>1, <2>9 DEF r, q
<1> QED
  BY <1>4, <1>5
\* The bytes a node says it has exist; z is the size of the archive.
Backed(x, z) ==
    x.type = "file" =>
        /\ x.size <= x.capacity
        /\ x.size > 0 => x.data # NULL
        /\ x.borrowed => /\ x.data - ARCHIVE >= HeaderSize
                         /\ (x.data - ARCHIVE) + x.size <= z

\* Contents may change, places and drivers do not.
Rewritten(t, u) ==
    /\ Good(u) /\ InTree(u) = InTree(t)
    /\ \A k \in InTree(t) : SameShape(t[k], u[k]) /\ u[k].device = t[k].device

\* A tree left alone is rewritten by nothing.
LEMMA RewriteSame ==
    ASSUME NEW t, Good(t)
    PROVE  Rewritten(t, t)
BY DEF Rewritten, SameShape

\* A write that finds no memory or has no bytes loses the bytes of the
\* archive; any other leaves the file with bytes for its size.
LEMMA WriteIs ==
    ASSUME NEW t, Good(t), NEW n \in InTree(t), NEW size \in Nat, NEW memory \in BOOLEAN, NEW z
    PROVE  LET u == vfs_write(t, n, size, memory).tree IN
           /\ Rewritten(t, u)
           /\ ~(t[n].borrowed /\ (size = 0 \/ ~memory)) =>
                 \A k \in InTree(t) : Backed(t[k], z) => Backed(u[k], z)
<1> DEFINE x == t[n]
           f == unborrowed(t[n])
           grows == f.data = NULL \/ f.capacity < size
           u == vfs_write(t, n, size, memory).tree
           fd0 == IF x.borrowed THEN NULL ELSE x.data
           fc0 == IF x.borrowed THEN 0 ELSE x.capacity
           c == IF grows THEN size ELSE fc0
           Bare == x.borrowed /\ (size = 0 \/ ~memory)
<1>1. n \in Nodes /\ IsNode(x) /\ t = [k \in Nodes |-> t[k]]
  BY PlaceIs DEF Good, Typed
<1>2. x = Fields(x) /\ x.data \in Nat /\ x.size \in Nat /\ x.capacity \in Nat
      /\ x.borrowed \in BOOLEAN
  BY <1>1 DEF IsNode, Fields
<1>3. f = With(x, fd0, x.size, fc0, FALSE, x.device)
  <2>1. CASE x.borrowed = TRUE
    <3>1. f = [x EXCEPT !.data = NULL, !.capacity = 0, !.borrowed = FALSE]
      BY <2>1 DEF unborrowed
    <3>2. fd0 = NULL /\ fc0 = 0
      BY <2>1
    <3> HIDE DEF fd0, fc0, f, x
    <3> QED
      BY <1>2, <3>1, <3>2 DEF Fields, With
  <2>2. CASE x.borrowed = FALSE
    <3>1. f = x
      BY <2>2 DEF unborrowed
    <3>2. fd0 = x.data /\ fc0 = x.capacity
      BY <2>2
    <3> HIDE DEF fd0, fc0, f, x
    <3> QED
      BY <1>2, <2>2, <3>1, <3>2 DEF Fields, With
  <2> QED
    BY <1>2, <2>1, <2>2
<1>4. fd0 \in Nat /\ fc0 \in Nat
  BY <1>2 DEF NULL
<1>5. f.data = fd0 /\ f.capacity = fc0 /\ f.borrowed = FALSE /\ f.size = x.size
  BY <1>3 DEF With
<1>6. c \in Nat /\ grows \in BOOLEAN
  BY <1>4
<1> DEFINE g == Stored(f, HEAP, size, IF grows THEN size ELSE f.capacity)
           refuse == [tree |-> t, ret |-> -1]
           drop == [tree |-> [t EXCEPT ![n] = f], ret |-> -1]
           store == [tree |-> [t EXCEPT ![n] = g], ret |-> size]
<1>7. vfs_write(t, n, size, memory) =
        IF ~is(t, n, "file") \/ size > VFS_MAX_FILE_SIZE THEN refuse
        ELSE IF grows /\ (size = 0 \/ ~memory) THEN drop ELSE store
  BY DEF vfs_write, Stored
<1>8. g = With(x, HEAP, size, c, FALSE, x.device)
  <2>1. (IF grows THEN size ELSE f.capacity) = c
    <3> HIDE DEF grows, f, x
    <3> QED
      BY <1>5
  <2>2. Stored(f, HEAP, size, c) = With(x, HEAP, size, c, FALSE, x.device)
    <3> DEFINE b == FALSE
    <3>1. f = With(x, fd0, x.size, fc0, b, x.device)
      BY <1>3
    <3> HIDE DEF grows, f, x, c, fd0, fc0, b
    <3>2. Stored(f, HEAP, size, c) = With(x, HEAP, size, c, b, x.device)
      BY <3>1, StoredIs
    <3> QED
      BY <3>2 DEF b
  <2> HIDE DEF grows, f, x, c
  <2> QED
    BY <2>1, <2>2
<1>9. HEAP \in Nat /\ HEAP # NULL
  BY DEF HEAP, NULL
<1>10. grows => c = size
  OBVIOUS
<1>11. ~grows => c = fc0 /\ size <= fc0
  <2> HIDE DEF f, fc0
  <2> QED
    BY <1>4, <1>5
<1> HIDE DEF f, grows, fd0, fc0, c, g
<1> DEFINE one == [t EXCEPT ![n] = With(x, fd0, x.size, fc0, FALSE, x.device)]
           two == [t EXCEPT ![n] = With(x, HEAP, size, c, FALSE, x.device)]
<1>12. \/ u = t
       \/ u = one /\ grows /\ (size = 0 \/ ~memory)
       \/ u = two
  <2>1. refuse.tree = t /\ drop.tree = [t EXCEPT ![n] = f] /\ store.tree = [t EXCEPT ![n] = g]
    OBVIOUS
  <2> HIDE DEF refuse, drop, store, g
  <2>2. drop.tree = one /\ store.tree = two
    BY <1>3, <1>8, <2>1
  <2> HIDE DEF one, two
  <2> QED
    BY <1>7, <2>1, <2>2
<1> HIDE DEF u
<1>13. Refilled(t, one, n, fd0, x.size, fc0, FALSE, x.device)
  BY <1>2, <1>4, RefillIs
<1>14. Refilled(t, two, n, HEAP, size, c, FALSE, x.device)
  BY <1>6, <1>9, RefillIs
<1> HIDE DEF one, two
<1>15. CASE u = t
  BY <1>15, RewriteSame DEF u
<1>16. CASE u = one /\ grows /\ (size = 0 \/ ~memory)
  <2>1. Rewritten(t, u)
    BY <1>13, <1>16 DEF Refilled, Rewritten, SameShape, Holds
  <2>2. ~Bare => fd0 = x.data /\ fc0 = x.capacity
    BY <1>16 DEF fd0, fc0
  <2>3. ASSUME ~Bare, NEW k \in InTree(t), Backed(t[k], z) PROVE Backed(u[k], z)
    <3>1. CASE k # n
      BY <1>13, <1>16, <2>3, <3>1 DEF Refilled
    <3>2. CASE k = n
      <4>1. /\ u[n].size = x.size /\ u[n].capacity = x.capacity /\ u[n].data = x.data
            /\ u[n].borrowed = FALSE /\ u[n].type = x.type
        BY <1>13, <1>16, <2>2, <2>3 DEF Refilled, SameShape, Holds
      <4> QED
        BY <2>3, <3>2, <4>1 DEF Backed
    <3> QED
      BY <3>1, <3>2
  <2> QED
    BY <2>1, <2>3 DEF u
<1>17. CASE u = two
  <2>1. Rewritten(t, u)
    BY <1>14, <1>17 DEF Refilled, Rewritten, SameShape, Holds
  <2>2. ASSUME NEW k \in InTree(t), Backed(t[k], z) PROVE Backed(u[k], z)
    <3>1. CASE k # n
      BY <1>14, <1>17, <2>2, <3>1 DEF Refilled
    <3>2. CASE k = n
      <4>1. /\ u[n].size = size /\ u[n].capacity = c /\ u[n].data = HEAP
            /\ u[n].borrowed = FALSE
        BY <1>14, <1>17 DEF Refilled, SameShape, Holds
      <4>2. size <= c
        BY <1>4, <1>6, <1>10, <1>11
      <4> QED
        BY <1>9, <3>2, <4>1, <4>2 DEF Backed
    <3> QED
      BY <3>1, <3>2
  <2> QED
    BY <2>1, <2>2 DEF u
<1> QED
  BY <1>12, <1>15, <1>16, <1>17
-----------------------------------------------------------------------------
(* Removing.                                                               *)

\* The first place of an element is taken out.
LEMMA FirstIs ==
    ASSUME NEW S, NEW s \in Seq(S), NEW e, NEW j \in 1 .. Len(s), s[j] = e
    PROVE  \E i \in 1 .. Len(s) : s[i] = e /\ RemoveFirst(s, e) = RemoveAt(s, i)
<1> DEFINE I == {i \in 1 .. Len(s) : s[i] = e}
<1>1. RemoveFirst(s, e) = RemoveAt(s, IF I # {} THEN Min(I) ELSE 0)
  BY DEF RemoveFirst, SelectInSeq
<1>2. I # {}
  OBVIOUS
<1>3. I \in SUBSET Nat
  OBVIOUS
<1>4. Min(I) \in I
  <2>1. \E x \in I : \A y \in I : x <= y
    BY <1>2, <1>3, LeastNumber
  <2> QED
    BY <2>1 DEF Min
<1> QED
  BY <1>1, <1>2, <1>4

\* What is left of the other nodes: all but their places in the array.
Stays(x, y, n) ==
    /\ y.name = x.name /\ y.type = x.type /\ y.parent = x.parent /\ y.data = x.data
    /\ y.size = x.size /\ y.capacity = x.capacity /\ y.borrowed = x.borrowed
    /\ y.device = x.device
    /\ \A j \in 1 .. Len(x.children) : x.children[j] # n =>
          \E i \in 1 .. Len(y.children) : i <= j /\ y.children[i] = x.children[j]
Shrunk(t, u, n) ==
    /\ Good(u) /\ t[n].children = <<>>
    /\ \A k : k \in InTree(u) <=> k \in InTree(t) /\ k # n
    /\ \A k \in InTree(u) : Stays(t[k], u[k], n)

\* Removing a leaf from its parent leaves a good tree, smaller by one.
LEMMA RemoveIs ==
    ASSUME NEW t, Good(t), NEW n \in InTree(t), removable(t, n)
    PROVE  Shrunk(t, [t EXCEPT ![n] = Free, ![t[n].parent].children = RemoveFirst(@, n)], n)
<1> DEFINE p == t[n].parent
           kids == t[p].children
           L == Len(kids)
           new == RemoveFirst(kids, n)
           y == [t[p] EXCEPT !.children = new]
           u == [t EXCEPT ![n] = Free, ![p].children = RemoveFirst(@, n)]
<1>1. n \in Nodes /\ IsNode(t[n]) /\ Lists(t, n) /\ Listed(t, n) /\ n # Root
      /\ Root \in InTree(t) /\ IsNode(t[Root]) /\ t[Root].type = "directory"
  BY PlaceIs DEF removable
<1>2. t[n].children = <<>>
  BY <1>1 DEF Lists, removable
<1>3. p \in InTree(t) /\ p \in Nodes /\ IsNode(t[p]) /\ kids \in Seq(Nodes) /\ L \in Nat /\ Lists(t, p)
  BY <1>1, PlaceIs DEF Listed
<1>4. PICK j \in 1 .. L : kids[j] = n
  BY <1>1 DEF Listed
<1>5. p # n
  <2>1. L # 0
    BY <1>4
  <2>2. Len(<<>>) = 0
    OBVIOUS
  <2> QED
    BY <1>2, <2>1, <2>2
<1>6. PICK i \in 1 .. L : kids[i] = n /\ new = RemoveAt(kids, i)
  BY <1>3, <1>4, FirstIs
<1>7. /\ new \in Seq(Nodes) /\ Len(new) = L - 1
      /\ \A k \in 1 .. L - 1 : new[k] = IF k < i THEN kids[k] ELSE kids[k + 1]
  BY <1>3, <1>6, RemovedIs
<1>8. u = [k \in Nodes |-> IF k = p THEN y ELSE IF k = n THEN Free ELSE t[k]]
  <2>1. t = [k \in Nodes |-> t[k]]
    BY DEF Good, Typed
  <2> QED
    BY <1>1, <1>3, <1>5, <2>1
<1>9. /\ IsNode(y) /\ y.children = new
      /\ y.name = t[p].name /\ y.type = t[p].type /\ y.parent = t[p].parent /\ y.data = t[p].data
      /\ y.size = t[p].size /\ y.capacity = t[p].capacity /\ y.borrowed = t[p].borrowed
      /\ y.device = t[p].device
  BY <1>3, <1>7, Rechilded
<1> HIDE DEF u, y, new
<1>10. \A k \in Nodes : u[k] = IF k = p THEN y ELSE IF k = n THEN Free ELSE t[k]
  BY <1>8
<1>11. Typed(u)
  <2>1. u = [k \in Nodes |-> u[k]]
    BY <1>8
  <2>2. \A k \in Nodes : u[k] = Free \/ u[k] = Lost \/ IsNode(u[k])
    BY <1>9, <1>10 DEF Good, Typed
  <2>3. Root \in Nodes
    BY NodesAre
  <2>4. IsNode(u[Root]) /\ u[Root].type = "directory"
    BY <1>1, <1>9, <1>10, <2>3
  <2> QED
    BY <2>1, <2>2, <2>4 DEF Typed
<1>12. \A k : k \in InTree(u) <=> k \in InTree(t) /\ k # n
  <2>1. ~IsNode(Free)
    BY NodeIs
  <2>2. \A k \in Nodes : IsNode(u[k]) <=> IsNode(t[k]) /\ k # n
    BY <1>3, <1>5, <1>9, <1>10, <2>1
  <2> QED
    BY <1>11, <2>2, InTreeIs DEF Good
<1>13. u[p] = y /\ \A k \in InTree(u) : k # p => u[k] = t[k]
  BY <1>3, <1>10, <1>12, PlaceIs
<1>14. \A k \in InTree(t) : Lists(t, k) /\ Listed(t, k)
  BY PlaceIs
<1> DEFINE Names(x, z) == /\ z.name = x.name /\ z.type = x.type /\ z.parent = x.parent
                          /\ z.data = x.data /\ z.size = x.size /\ z.capacity = x.capacity
                          /\ z.borrowed = x.borrowed /\ z.device = x.device
<1>15. \A k \in InTree(u) : Names(t[k], u[k])
  BY <1>9, <1>13
\* The other children keep their order.
<1>16. /\ \A k \in 1 .. L : /\ kids[k] \in InTree(t) /\ kids[k] # Root /\ t[kids[k]].parent = p
                            /\ (k # i => kids[k] # n)
       /\ \A k, l \in 1 .. L : k # l => t[kids[l]].name # t[kids[k]].name
       /\ L <= VFS_MAX_CHILDREN
  BY <1>3, <1>6 DEF Lists
<1> HIDE DEF L, kids, p
<1>17. \A k \in 1 .. L - 1 : \E l \in 1 .. L : l # i /\ new[k] = kids[l] /\ l = IF k < i THEN k ELSE k + 1
  <2> SUFFICES ASSUME NEW k \in 1 .. L - 1
               PROVE  \E l \in 1 .. L : l # i /\ new[k] = kids[l] /\ l = IF k < i THEN k ELSE k + 1
    OBVIOUS
  <2>1. CASE k < i
    <3>1. k \in 1 .. L /\ k # i
      BY <1>3, <2>1
    <3> QED
      BY <1>7, <2>1, <3>1
  <2>2. CASE ~(k < i)
    <3>1. k + 1 \in 1 .. L /\ k + 1 # i
      BY <1>3, <2>2
    <3> QED
      BY <1>7, <2>2, <3>1
  <2> QED
    BY <2>1, <2>2
<1>18. \A l \in 1 .. L : l # i => \E k \in 1 .. L - 1 : k <= l /\ new[k] = kids[l]
  <2> SUFFICES ASSUME NEW l \in 1 .. L, l # i
               PROVE  \E k \in 1 .. L - 1 : k <= l /\ new[k] = kids[l]
    OBVIOUS
  <2>1. CASE l < i
    <3>1. l \in 1 .. L - 1 /\ l <= l
      BY <1>3, <2>1
    <3> QED
      BY <1>7, <2>1, <3>1
  <2>2. CASE ~(l < i)
    <3> DEFINE k == l - 1
    <3>1. k \in 1 .. L - 1 /\ k <= l /\ k + 1 = l /\ ~(k < i)
      BY <1>3, <2>2
    <3> HIDE DEF k
    <3> QED
      BY <1>7, <3>1
  <2> QED
    BY <2>1, <2>2
<1>19. ASSUME NEW k \in InTree(u) PROVE Stays(t[k], u[k], n)
  <2>1. CASE k # p
    <3>1. u[k] = t[k] /\ Len(t[k].children) \in Nat
      BY <1>12, <1>13, <2>1, PlaceIs
    <3>2. \A j1 \in 1 .. Len(t[k].children) : j1 <= j1
      BY <3>1
    <3> QED
      BY <3>1, <3>2 DEF Stays
  <2>2. CASE k = p
    <3>1. t[p].children = kids /\ Len(kids) = L
      BY DEF kids, L
    <3>2. \A l \in 1 .. L : kids[l] # n => \E h \in 1 .. L - 1 : h <= l /\ new[h] = kids[l]
      BY <1>6, <1>18
    <3> QED
      BY <1>7, <1>9, <1>13, <1>15, <2>2, <3>1, <3>2 DEF Stays
  <2> QED
    BY <2>1, <2>2
<1>20. Lists(u, p)
  <2>1. \A k \in 1 .. L - 1 : new[k] \in InTree(u) /\ new[k] # Root /\ t[new[k]].parent = p
    BY <1>12, <1>16, <1>17
  <2>2. \A k \in 1 .. L - 1 : u[new[k]].parent = p /\ u[new[k]].name = t[new[k]].name
    BY <1>15, <2>1
  <2>3. ASSUME NEW k \in 1 .. L - 1, NEW l \in 1 .. L - 1, k # l
        PROVE  u[new[l]].name # u[new[k]].name
    <3>1. PICK a \in 1 .. L : new[k] = kids[a] /\ a = IF k < i THEN k ELSE k + 1
      BY <1>17
    <3>2. PICK b \in 1 .. L : new[l] = kids[b] /\ b = IF l < i THEN l ELSE l + 1
      BY <1>17
    <3>3. a # b
      BY <1>3, <2>3, <3>1, <3>2
    <3> QED
      BY <1>16, <2>2, <3>1, <3>2, <3>3
  <2>4. L - 1 <= VFS_MAX_CHILDREN
    BY <1>3, <1>16, VfsAssumption
  <2>5. u[p].type = "directory" /\ u[p].children = new
    <3>1. t[p].type = "directory"
      <4>1. Len(kids) # 0 /\ Len(<<>>) = 0
        BY <1>3, <1>4 DEF L
      <4> QED
        BY <1>3, <4>1 DEF Lists, kids
    <3> QED
      BY <1>9, <1>13, <3>1
  <2> QED
    BY <1>7, <2>1, <2>2, <2>3, <2>4, <2>5 DEF Lists
<1>21. ASSUME NEW k \in InTree(u), k # p PROVE Lists(u, k)
  <2>1. Lists(t, k) /\ u[k] = t[k]
    BY <1>12, <1>13, <1>14, <1>21
  <2>2. \A h \in 1 .. Len(t[k].children) : t[k].children[h] \in InTree(u)
    BY <1>12, <1>21, <2>1 DEF Lists, p
  <2>3. \A h \in 1 .. Len(t[k].children) :
            /\ u[t[k].children[h]].name = t[t[k].children[h]].name
            /\ u[t[k].children[h]].parent = t[t[k].children[h]].parent
    BY <1>15, <2>2
  <2> QED
    BY <2>1, <2>2, <2>3 DEF Lists
<1>22. ASSUME NEW k \in InTree(u), k # Root PROVE Listed(u, k)
  <2> DEFINE q == t[k].parent
  <2>1. q \in InTree(t) /\ u[k].parent = q /\ k # n
    BY <1>12, <1>14, <1>15, <1>22 DEF Listed
  <2>2. PICK h \in 1 .. Len(t[q].children) : t[q].children[h] = k
    BY <1>12, <1>14, <1>22 DEF Listed
  <2>3. q # n
    <3>1. Len(<<>>) = 0
      OBVIOUS
    <3> QED
      BY <1>2, <2>2, <3>1
  <2>4. q \in InTree(u)
    BY <1>12, <2>1, <2>3
  <2>5. \E a \in 1 .. Len(u[q].children) : a <= h /\ u[q].children[a] = k
    BY <1>19, <2>1, <2>2, <2>4 DEF Stays
  <2> QED
    BY <2>1, <2>4, <2>5 DEF Listed
<1>23. p \in InTree(u)
  BY <1>3, <1>5, <1>12
<1>24. Root \in InTree(u) => u[Root].parent = NULL
  <2>1. t[Root].parent = NULL
    BY <1>1, FormedIs DEF Good
  <2> QED
    BY <1>15, <2>1
<1>25. \A k \in InTree(u) : Lists(u, k) /\ Listed(u, k)
  <2>1. \A k \in InTree(u) : Lists(u, k)
    BY <1>20, <1>21
  <2>2. \A k \in InTree(u) : Listed(u, k)
    BY <1>22 DEF Listed
  <2> QED
    BY <2>1, <2>2
<1>26. WellFormed(u)
  BY <1>11, <1>24, <1>25, FormedIs
<1>27. Shrunk(t, u, n)
  BY <1>2, <1>11, <1>12, <1>19, <1>26 DEF Shrunk, Good
<1> QED
  BY <1>27 DEF u, p
-----------------------------------------------------------------------------
(* The boot and the system calls.                                          *)

\* vfs_init makes a root, or nothing.
LEMMA InitGood ==
    /\ Good(no_tree) /\ \A memory \in BOOLEAN : Good(vfs_init(memory))
    /\ \A memory \in BOOLEAN : \A n \in InTree(vfs_init(memory)) :
          vfs_init(memory)[n].type = "directory"
<1>1. ASSUME NEW t, t = [n \in Nodes |-> Free] PROVE Good(t) /\ InTree(t) = {}
  <2>1. \A n \in Nodes : t[n] = Free
    BY <1>1
  <2>2. Typed(t)
    BY <1>1, <2>1 DEF Typed
  <2>3. InTree(t) = {}
    BY <2>1 DEF InTree
  <2>4. WellFormed(t)
    BY <2>2, <2>3, FormedIs
  <2> QED
    BY <2>2, <2>3, <2>4 DEF Good
<1>2. ASSUME NEW t, t = [no_tree EXCEPT ![Root] = node("/", "directory", NULL)]
      PROVE  Good(t) /\ \A n \in InTree(t) : t[n].type = "directory"
  <2> DEFINE f == node("/", "directory", NULL)
  <2>1. IsFresh(f, "/", "directory", NULL)
    BY FreshIs DEF Types
  <2> HIDE DEF f
  <2>2. t = [n \in Nodes |-> IF n = Root THEN f ELSE Free]
    BY <1>2, NodesAre DEF no_tree, f
  <2>3. Root \in Nodes /\ IsNode(f) /\ f.type = "directory" /\ f.children = <<>> /\ f.parent = NULL
    BY <2>1, NodesAre DEF IsFresh
  <2>4. t[Root] = f /\ \A n \in Nodes : t[n] = IF n = Root THEN f ELSE Free
    BY <2>2, <2>3
  <2>5. Typed(t)
    BY <2>2, <2>3, <2>4 DEF Typed
  <2>6. \A n : n \in InTree(t) <=> n = Root
    BY <2>3, <2>4, <2>5, InTreeIs, NodeIs
  <2>7. Lists(t, Root)
    <3>1. \A i \in 1 .. Len(f.children) : FALSE
      BY <2>3
    <3>2. Len(f.children) <= VFS_MAX_CHILDREN
      BY <2>3, VfsAssumption
    <3> QED
      BY <2>3, <2>4, <3>1, <3>2 DEF Lists
  <2>8. WellFormed(t)
    BY <2>3, <2>4, <2>5, <2>6, <2>7, FormedIs DEF Listed
  <2> QED
    BY <2>3, <2>4, <2>5, <2>6, <2>8 DEF Good
<1>3. Good(no_tree) /\ InTree(no_tree) = {}
  BY <1>1 DEF no_tree
<1>4. ASSUME NEW memory \in BOOLEAN
      PROVE  /\ Good(vfs_init(memory))
             /\ \A n \in InTree(vfs_init(memory)) : vfs_init(memory)[n].type = "directory"
  <2>1. CASE memory = TRUE
    BY <1>2, <2>1 DEF vfs_init
  <2>2. CASE memory = FALSE
    BY <1>3, <2>2 DEF vfs_init
  <2> QED
    BY <2>1, <2>2
<1> QED
  BY <1>3, <1>4

\* The devices of kernel_devices_init.
MountNames == {"dev", "kbd_event0", "mouse", "fb0"}

\* The devices registered at boot.
LEMMA MountsAre ==
    /\ DOMAIN Mounts = 1 .. 3 /\ Len(Mounts) = 3
    /\ Mounts[1].name = "kbd" /\ Mounts[2].name = "mouse" /\ Mounts[3].name = "fb0"
    /\ \A i \in 1 .. 3 : Mounts[i].path \in Seq(MountNames)
<1>1. \A a, b \in MountNames : <<a, b>> \in Seq(MountNames)
  OBVIOUS
<1>2. /\ Mounts[1].path = <<"dev", "kbd_event0">> /\ Mounts[2].path = <<"dev", "mouse">>
      /\ Mounts[3].path = <<"dev", "fb0">>
  BY DEF Mounts
<1>3. /\ "dev" \in MountNames /\ "kbd_event0" \in MountNames /\ "mouse" \in MountNames
      /\ "fb0" \in MountNames
  BY DEF MountNames
<1>4. \A i \in 1 .. 3 : i = 1 \/ i = 2 \/ i = 3
  OBVIOUS
<1>5. \A i \in 1 .. 3 : Mounts[i].path \in Seq(MountNames)
  BY <1>1, <1>2, <1>3, <1>4
<1>6. DOMAIN Mounts = 1 .. 3 /\ Len(Mounts) = 3
  BY DEF Mounts
<1>7. Mounts[1].name = "kbd" /\ Mounts[2].name = "mouse" /\ Mounts[3].name = "fb0"
  BY DEF Mounts
<1> QED
  BY <1>5, <1>6, <1>7

\* Padding goes up.
LEMMA AlignIs ==
    ASSUME NEW x \in Nat
    PROVE  align4(x) \in Nat /\ align4(x) >= x
BY DEF align4

\* A header has sizes and a path, and so has what is not one.
LEMMA HeaderIs ==
    ASSUME archive \in Archives, NEW o \in Nat
    PROVE  /\ header(o).namesize \in Nat /\ header(o).filesize \in Nat /\ archive.size \in Nat
           /\ \E S : header(o).name \in Seq(S)
           /\ data_off(o) \in Nat /\ data_off(o) >= HeaderSize
           /\ next_off(o) \in Nat /\ next_off(o) >= data_off(o) + header(o).filesize
<1> DEFINE a == header(o).namesize
           b == header(o).filesize
<1>1. a \in Nat /\ b \in Nat /\ archive.size \in Nat /\ \E S : header(o).name \in Seq(S)
  <2>1. CASE o \in DOMAIN archive.at
    BY <2>1, FilesAssumption DEF header
  <2>2. CASE o \notin DOMAIN archive.at
    <3>1. header(o).name = <<>> /\ a = 0 /\ b = 0
      BY <2>2 DEF header
    <3>2. <<>> \in Seq({})
      OBVIOUS
    <3> QED
      BY <3>1, <3>2, FilesAssumption
  <2> QED
    BY <2>1, <2>2
<1> HIDE DEF a, b
<1>2. data_off(o) = align4(o + HeaderSize + a)
  BY DEF data_off, a
<1>3. o + HeaderSize + a \in Nat /\ o + HeaderSize + a >= HeaderSize /\ HeaderSize \in Nat
  BY <1>1 DEF HeaderSize
<1>4. data_off(o) \in Nat /\ data_off(o) >= HeaderSize
  <2> DEFINE e == o + HeaderSize + a
  <2>1. e \in Nat /\ e >= HeaderSize
    BY <1>3
  <2> HIDE DEF e
  <2>2. align4(e) \in Nat /\ align4(e) >= e
    BY <2>1, AlignIs
  <2> QED
    BY <1>2, <1>3, <2>1, <2>2 DEF e
<1> DEFINE d == data_off(o)
<1>5. next_off(o) = align4(d + b)
  BY DEF next_off, b
<1> HIDE DEF d
<1>6. d \in Nat
  BY <1>4 DEF d
<1>7. next_off(o) \in Nat /\ next_off(o) >= d + b
  <2>1. d + b \in Nat
    BY <1>1, <1>6
  <2> QED
    BY <1>5, <2>1, AlignIs
<1> QED
  BY <1>1, <1>4, <1>7 DEF a, b, d
\* The bytes of every file exist.
AllBacked(t, z) == \A k \in InTree(t) : Backed(t[k], z)

\* FilesBacked as a predicate of any tree.
LEMMA BackedIs == FilesBacked <=> AllBacked(tree, archive.size)
BY DEF FilesBacked, AllBacked, Backed

\* New nodes have no bytes.
LEMMA GrewBacked ==
    ASSUME NEW t, NEW u, NEW z, Grew(t, u), AllBacked(t, z)
    PROVE  AllBacked(u, z)
<1> SUFFICES ASSUME NEW k \in InTree(u) PROVE Backed(u[k], z)
  BY DEF AllBacked
<1>1. CASE k \in InTree(t)
  BY <1>1 DEF Grew, Kept, AllBacked, Backed
<1>2. CASE k \notin InTree(t)
  BY <1>2 DEF Grew, Empty, Backed
<1> QED
  BY <1>1, <1>2

\* A driver does not touch contents.
LEMMA RefilledBacked ==
    ASSUME NEW t, NEW u, NEW n, NEW z, NEW d, NEW s, NEW c, NEW b, NEW v,
           Refilled(t, u, n, d, s, c, b, v), AllBacked(t, z), n \in InTree(t),
           Backed(u[n], z)
    PROVE  AllBacked(u, z)
BY DEF Refilled, AllBacked

\* One entry of the archive.
LEMMA UnpackIs ==
    ASSUME NEW t, Good(t), archive \in Archives, NEW o \in Nat, entry_ok(o)
    PROVE  /\ Good(unpack(t, o))
           /\ AllBacked(t, archive.size) => AllBacked(unpack(t, o), archive.size)
<1> DEFINE h == header(o)
           f == vfs_create_file(t, h.name)
           d == data_off(o)
           s == h.filesize
           z == archive.size
<1>1. PICK S : h.name \in Seq(S)
  BY HeaderIs
<1>2. d \in Nat /\ s \in Nat /\ z \in Nat /\ d >= HeaderSize /\ next_off(o) \in Nat
      /\ next_off(o) >= d + s
  BY HeaderIs
<1>3. d + s <= z
  <2> HIDE DEF d, s, z
  <2>1. next_off(o) <= z
    BY DEF entry_ok, z
  <2> QED
    BY <1>2, <2>1
<1>4. Made(t, f)
  BY <1>1, CreateIn DEF vfs_create_file, Types
<1>5. Made(t, vfs_mkdir(t, h.name))
  <2>1. \A q \in Seq(S) : Len(q) \in Nat
    OBVIOUS
  <2> QED
    BY <1>1, <2>1, MkdirIs
<1> DEFINE w == vfs_set_data(f.tree, f.node, ARCHIVE + d, s)
           e == unpack(t, o)
<1>6. \/ e = t
      \/ e = vfs_mkdir(t, h.name).tree
      \/ e = f.tree
      \/ e = w /\ f.node # NULL
  <2> DEFINE A == h.name = <<>>
             B == h.name # <<>> /\ h.type = "dir"
             C == h.name # <<>> /\ h.type = "reg"
             v == IF f.node # NULL /\ h.filesize > 0 THEN w ELSE f.tree
             m == vfs_mkdir(t, h.name).tree
  <2>1. e = CASE A -> t [] B -> m [] C -> v [] OTHER -> t
    BY DEF unpack
  <2> HIDE DEF e, A, B, C, v, m
  <2>2. e = t \/ e = m \/ e = v
    <3>1. CASE A
      <4>1. ~B /\ ~C
        BY <3>1 DEF A, B, C
      <4> QED
        BY <2>1, <3>1, <4>1
    <3>2. CASE B
      <4>1. ~A /\ ~C
        BY <3>2 DEF A, B, C
      <4> QED
        BY <2>1, <3>2, <4>1
    <3>3. CASE C
      <4>1. ~A /\ ~B
        BY <3>3 DEF A, B, C
      <4> QED
        BY <2>1, <3>3, <4>1
    <3>4. CASE ~A /\ ~B /\ ~C
      BY <2>1, <3>4
    <3> QED
      BY <3>1, <3>2, <3>3, <3>4
  <2> QED
    BY <2>2 DEF v, m
<1> HIDE DEF e, w, f, h, d, s, z
<1>7. CASE e = t
  BY <1>7 DEF e
<1>8. CASE e = vfs_mkdir(t, h.name).tree
  BY <1>5, <1>8, GrewBacked DEF Made, e, z
<1>9. Good(f.tree) /\ (AllBacked(t, z) => AllBacked(f.tree, z))
  BY <1>4, GrewBacked DEF Made
<1>10. CASE e = f.tree
  BY <1>9, <1>10 DEF e, z
<1>11. CASE e = w /\ f.node # NULL
  <2>1. f.node \in InTree(f.tree) /\ Good(f.tree)
    BY <1>4, <1>11 DEF Made
  <2>2. ARCHIVE + d \in Nat /\ ARCHIVE + d # NULL /\ (ARCHIVE + d) - ARCHIVE = d
    BY <1>2 DEF ARCHIVE, NULL
  <2> DEFINE at == ARCHIVE + d
             u == f.tree
             n == f.node
  <2> HIDE DEF at, u, n
  <2>3. vfs_set_data(u, n, at, s) = u \/
           Refilled(u, vfs_set_data(u, n, at, s), n, at, s, s, TRUE, u[n].device)
    BY <1>2, <2>1, <2>2, SetData DEF at, u, n
  <2>4. w = vfs_set_data(u, n, at, s)
    BY DEF w, u, n, at
  <2>5. CASE w = u
    BY <1>9, <1>11, <2>5 DEF u, e, z
  <2>6. CASE Refilled(u, w, n, at, s, s, TRUE, u[n].device)
    <3>1. w[n].size = s /\ w[n].capacity = s /\ w[n].data = at
      BY <2>6 DEF Refilled, Holds
    <3>2. at # NULL /\ at - ARCHIVE = d /\ s <= s
      BY <1>2, <2>2 DEF at
    <3>3. Backed(w[n], z)
      BY <1>2, <1>3, <3>1, <3>2 DEF Backed
    <3>4. Good(w)
      BY <2>6 DEF Refilled
    <3>5. AllBacked(u, z) => AllBacked(w, z)
      <4>1. n \in InTree(u)
        BY <2>1 DEF u, n
      <4>2. \A k \in InTree(u) : k # n => w[k] = u[k]
        BY <2>6 DEF Refilled
      <4>3. InTree(w) = InTree(u)
        BY <2>6 DEF Refilled
      <4> QED
        BY <3>3, <4>1, <4>2, <4>3 DEF AllBacked
    <3> QED
      BY <1>9, <1>11, <3>4, <3>5 DEF u, e, z
  <2> QED
    BY <2>3, <2>4, <2>5, <2>6
<1> QED
  BY <1>6, <1>7, <1>8, <1>10, <1>11

\* One device.
LEMMA RegisterIs ==
    ASSUME NEW t, Good(t), NEW i \in 1 .. 3, NEW z
    PROVE  /\ Good(device_register(t, Mounts[i]).tree)
           /\ AllBacked(t, z) => AllBacked(device_register(t, Mounts[i]).tree, z)
<1> DEFINE path == Mounts[i].path
           dev == Mounts[i].name
           r == create_in(t, path, "device")
           q == vfs_create_device(t, path, dev)
           u == r.tree
           n == r.node
           e == device_register(t, Mounts[i]).tree
<1>1. path \in Seq(MountNames)
  BY MountsAre
<1>2. e = t \/ e = q.tree
  BY DEF device_register
<1>3. /\ Made(t, r)
      /\ q = r \/ (n \in InTree(u) /\
            Refilled(u, q.tree, n, u[n].data, u[n].size, u[n].capacity, u[n].borrowed, dev))
  <2> HIDE DEF path, dev
  <2> QED
    BY <1>1, CreateDevice
<1> HIDE DEF e, q, r, path, dev
<1>4. Good(u) /\ (AllBacked(t, z) => AllBacked(u, z))
  BY <1>3, GrewBacked DEF Made
<1>5. CASE e = t
  BY <1>5 DEF e
<1>6. CASE e = q.tree /\ q = r
  BY <1>4, <1>6 DEF e
<1>7. CASE /\ e = q.tree /\ n \in InTree(u)
           /\ Refilled(u, q.tree, n, u[n].data, u[n].size, u[n].capacity, u[n].borrowed, dev)
  <2>1. Good(q.tree)
    BY <1>7 DEF Refilled
  <2>2. AllBacked(u, z) => Backed(q.tree[n], z)
    BY <1>7 DEF Refilled, SameShape, Holds, AllBacked, Backed
  <2>3. AllBacked(u, z) => AllBacked(q.tree, z)
    BY <1>7, <2>2, RefilledBacked
  <2> QED
    BY <1>4, <1>7, <2>1, <2>3 DEF e
<1> QED
  BY <1>2, <1>3, <1>5, <1>6, <1>7
FdType == [used : BOOLEAN, node : Nodes \cup {NULL}, offset : Nat, handle : Handles \cup {NULL}]
HandleType == [used : BOOLEAN, owner : Procs \cup {NULL}, mapped : BOOLEAN, orphan : BOOLEAN]
FdTable == [Procs -> [FDs -> FdType]]
FbMaps == [Procs -> Seq(Regions)]
FbEntries == [Procs -> {"none", "fb", "anon"}]

\* What holds in every state, whatever programs do.
Base ==
    /\ TypeOK /\ archive \in Archives /\ Good(tree)
    /\ stage # "user" => live = {}
    /\ \A p \in Procs : p \notin live => fd[p] = fresh
    /\ \A p \in Procs, f \in FDs : fd[p][f].used \/ fd[p][f] = Closed

\* A closed descriptor and a table of them.
LEMMA ClosedIs ==
    /\ Closed \in FdType /\ fresh \in [FDs -> FdType] /\ \A f \in FDs : fresh[f] = Closed
    /\ Closed.used = FALSE /\ Closed.handle = NULL /\ Closed.offset = 0
BY DEF Closed, fresh, FdType

\* What TypeOK says of descriptors and handles.
LEMMA TypesAre ==
    ASSUME TypeOK
    PROVE  fd \in FdTable /\ handle \in [Handles -> HandleType]
BY DEF TypeOK, FdTable, FdType, HandleType

\* One descriptor gets another value.
Puts(p, f, x) ==
    /\ fd' \in FdTable /\ fd'[p][f] = x
    /\ \A q \in Procs, e \in FDs : ~(q = p /\ e = f) => fd'[q][e] = fd[q][e]
    /\ \A q \in Procs : q # p => fd'[q] = fd[q]

\* Setting one descriptor leaves the others alone.
LEMMA PutIs ==
    ASSUME fd \in FdTable, NEW p \in Procs, NEW f \in FDs, NEW x \in FdType,
           fd' = [fd EXCEPT ![p][f] = x]
    PROVE  Puts(p, f, x)
<1>1. fd' = [q \in Procs |-> [e \in FDs |-> IF q = p /\ e = f THEN x ELSE fd[q][e]]]
  BY DEF FdTable
<1>2. fd' \in FdTable
  BY <1>1 DEF FdTable
<1>3. \A q \in Procs : q # p => fd'[q] = fd[q]
  BY DEF FdTable
<1> QED
  BY <1>1, <1>2, <1>3 DEF Puts

\* Seeking and reading move the offset and nothing else.
Moved(x, y, v) == y.used = x.used /\ y.node = x.node /\ y.handle = x.handle /\ y.offset = v

\* So does moving the offset of one.
LEMMA MoveIs ==
    ASSUME fd \in FdTable, NEW p \in Procs, NEW f \in FDs, NEW v \in Nat,
           fd' = [fd EXCEPT ![p][f].offset = v]
    PROVE  \E y \in FdType : Puts(p, f, y) /\ Moved(fd[p][f], y, v)
<1> DEFINE x == fd[p][f]
           y == [x EXCEPT !.offset = v]
<1>1. x \in FdType
  BY DEF FdTable
<1>2. y \in FdType /\ Moved(x, y, v)
  <2> HIDE DEF x
  <2> QED
    BY <1>1 DEF FdType, Moved
<1>3. fd' = [fd EXCEPT ![p][f] = y]
  OBVIOUS
<1> HIDE DEF y
<1>4. Puts(p, f, y)
  BY <1>2, <1>3, PutIs
<1> QED
  BY <1>2, <1>4

\* A process starts and ends with an empty table.
Clears(p) ==
    /\ fd' \in FdTable /\ fd'[p] = fresh
    /\ \A q \in Procs : q # p => fd'[q] = fd[q]

\* A process gets or leaves behind a table of closed descriptors.
LEMMA ClearIs ==
    ASSUME fd \in FdTable, NEW p \in Procs, fd' = [fd EXCEPT ![p] = fresh]
    PROVE  Clears(p)
BY ClosedIs DEF FdTable, Clears

\* The table after each of them.
LEMMA BasePut ==
    ASSUME Base, NEW p \in live, NEW f \in FDs, NEW x, Puts(p, f, x), live' = live,
           x.used \/ x = Closed
    PROVE  /\ \A q \in Procs : q \notin live' => fd'[q] = fresh
           /\ \A q \in Procs, e \in FDs : fd'[q][e].used \/ fd'[q][e] = Closed
BY DEF Base, Puts

\* That keeps the parts of Base that are about descriptors.
LEMMA BaseClear ==
    ASSUME Base, NEW p \in Procs, Clears(p), live' = live \cup {p} \/ live' = live \ {p}
    PROVE  /\ \A q \in Procs : q \notin live' => fd'[q] = fresh
           /\ \A q \in Procs, e \in FDs : fd'[q][e].used \/ fd'[q][e] = Closed
BY ClosedIs DEF Base, Clears

\* So does a step that leaves descriptors and processes alone.
LEMMA BaseSame ==
    ASSUME Base, fd' = fd, live' = live
    PROVE  /\ \A q \in Procs : q \notin live' => fd'[q] = fresh
           /\ \A q \in Procs, e \in FDs : fd'[q][e].used \/ fd'[q][e] = Closed
BY DEF Base
\* The boot leaves programs out, and the tree good.
Stages == {"vfs", "rootfs", "cpio", "kbd", "mouse", "fb0", "user"}
BootNext == start_vfs \/ rootfs_init \/ cpio_entry \/ cpio_done \/ kernel_devices_init

\* The stages of boot.
LEMMA StagesAre ==
    {"vfs", "rootfs", "cpio", "user"} \cup {Mounts[i].name : i \in DOMAIN Mounts} = Stages
<1>1. \A i \in 1 .. 3 : i = 1 \/ i = 2 \/ i = 3
  OBVIOUS
<1> QED
  BY <1>1, MountsAre DEF Stages

\* Every step of boot leaves a good tree, and bytes behind its files.
LEMMA BootGood ==
    ASSUME Base, BootNext
    PROVE  /\ Good(tree') /\ stage # "user" /\ stage' \in Stages /\ off' \in Nat /\ bs3' = bs3
           /\ archive' = archive /\ UNCHANGED <<live, fd, fbs, listed>>
           /\ AllBacked(tree, archive.size) => AllBacked(tree', archive.size)
<1>0. Good(tree) /\ archive \in Archives /\ off \in Nat
  BY DEF Base, TypeOK
<1>1. CASE start_vfs
  <2>1. PICK memory \in BOOLEAN : tree' = vfs_init(memory)
    BY <1>1 DEF start_vfs
  <2>2. Good(tree') /\ AllBacked(tree', archive.size)
    BY <2>1, InitGood DEF AllBacked, Backed
  <2> QED
    BY <1>0, <1>1, <2>2 DEF start_vfs, Stages
<1>2. CASE rootfs_init
  <2> DEFINE a == vfs_mkdir(tree, <<"dev">>)
             b == vfs_mkdir(a.tree, <<"tmp">>)
  <2>1. Made(tree, a)
    <3>1. Len(<<"dev">>) \in Nat
      OBVIOUS
    <3> QED
      BY <1>0, <3>1, MkdirIs
  <2>2. tree' = b.tree
    BY <1>2 DEF rootfs_init
  <2> HIDE DEF a
  <2>3. Good(a.tree) /\ Grew(tree, a.tree)
    BY <2>1 DEF Made
  <2>4. Made(a.tree, b)
    <3>1. Len(<<"tmp">>) \in Nat
      OBVIOUS
    <3> QED
      BY <2>3, <3>1, MkdirIs
  <2>5. Good(tree') /\ (AllBacked(tree, archive.size) => AllBacked(tree', archive.size))
    BY <2>2, <2>3, <2>4, GrewBacked DEF Made
  <2>6. stage' \in Stages /\ stage # "user"
    BY <1>2, MountsAre DEF rootfs_init, Stages
  <2> QED
    BY <1>0, <1>2, <2>5, <2>6 DEF rootfs_init
<1>3. CASE cpio_entry
  <2>1. entry_ok(off) /\ tree' = unpack(tree, off) /\ off' = next_off(off)
    BY <1>3 DEF cpio_entry
  <2>2. Good(tree') /\ (AllBacked(tree, archive.size) => AllBacked(tree', archive.size))
    BY <1>0, <2>1, UnpackIs
  <2>3. off' \in Nat
    BY <1>0, <2>1, HeaderIs
  <2> QED
    BY <1>3, <2>2, <2>3 DEF cpio_entry, Stages
<1>4. CASE cpio_done
  BY <1>0, <1>4, MountsAre DEF cpio_done, Stages
<1>5. CASE kernel_devices_init
  <2>1. PICK i \in 1 .. 3 :
            /\ stage = Mounts[i].name
            /\ stage' = IF i = 3 THEN "user" ELSE Mounts[i + 1].name
            /\ tree' = device_register(tree, Mounts[i]).tree
    BY <1>5, MountsAre DEF kernel_devices_init
  <2>2. Good(tree') /\ (AllBacked(tree, archive.size) => AllBacked(tree', archive.size))
    BY <1>0, <2>1, RegisterIs
  <2>3. i = 1 \/ i = 2 \/ i = 3
    OBVIOUS
  <2>4. stage' \in Stages /\ stage # "user"
    BY <2>1, <2>3, MountsAre DEF Stages
  <2> QED
    BY <1>0, <1>5, <2>2, <2>4 DEF kernel_devices_init
<1> QED
  BY <1>1, <1>2, <1>3, <1>4, <1>5 DEF BootNext

\* Every step of boot keeps Base.
LEMMA BootBase ==
    ASSUME Base, BootNext
    PROVE  Base'
<1>1. /\ Good(tree') /\ stage # "user" /\ stage' \in Stages /\ off' \in Nat /\ bs3' = bs3
      /\ archive' = archive /\ UNCHANGED <<live, fd, fbs, listed>>
  BY BootGood
<1>2. TypeOK'
  BY <1>1, StagesAre DEF Base, TypeOK, fbs
<1> QED
  BY <1>1, <1>2 DEF Base
\* What stays typed when a call leaves the boot alone.
LEMMA CallTyped ==
    ASSUME Base, UNCHANGED boot, live' \subseteq Procs, fd' \in FdTable,
           handle' \in [Handles -> HandleType], fbmaps' \in FbMaps,
           fbpte' \in FbEntries, listed' \in [Procs -> [FDs -> SUBSET Nodes]]
    PROVE  TypeOK' /\ archive' \in Archives /\ stage' = stage
BY DEF Base, TypeOK, boot, FdTable, FdType, HandleType, FbMaps, FbEntries

\* What Base says of the types of variables.
LEMMA BaseTypes ==
    ASSUME Base
    PROVE  /\ fd \in FdTable /\ handle \in [Handles -> HandleType] /\ fbmaps \in FbMaps
           /\ fbpte \in FbEntries /\ listed \in [Procs -> [FDs -> SUBSET Nodes]]
           /\ live \subseteq Procs /\ Good(tree) /\ archive \in Archives
BY TypesAre DEF Base, TypeOK, FbMaps, FbEntries

\* What Base says of one descriptor.
LEMMA FdIs ==
    ASSUME Base, NEW p \in Procs, NEW f \in FDs
    PROVE  /\ fd[p][f] \in FdType /\ fd[p][f].used \in BOOLEAN /\ fd[p][f].offset \in Nat
           /\ fd[p][f].node \in Nodes \cup {NULL} /\ fd[p][f].handle \in Handles \cup {NULL}
           /\ fd[p][f] = [used |-> fd[p][f].used, node |-> fd[p][f].node,
                          offset |-> fd[p][f].offset, handle |-> fd[p][f].handle]
<1>1. fd[p][f] \in FdType
  BY BaseTypes DEF FdTable
<1> QED
  BY <1>1 DEF FdType

\* A pointer that was checked is one to a node of the tree.
LEMMA IsIs ==
    ASSUME NEW t, Good(t), NEW n \in Nodes \cup {NULL}, NEW ty \in Types, is(t, n, ty)
    PROVE  n \in InTree(t) /\ t[n].type = ty
<1>1. n \in Nodes /\ t[n].type = ty
  BY DEF is
<1>2. Free.type = "free" /\ Lost.type = "lost" /\ ty # "free" /\ ty # "lost"
  BY DEF Free, Lost, Types
<1>3. t[n] # Free /\ t[n] # Lost
  BY <1>1, <1>2
<1> QED
  BY <1>1, <1>3 DEF InTree

\* A descriptor the code accepts as one of a type refers to such a node.
LEMMA UsedIs ==
    ASSUME Base, NEW p \in Procs, NEW f \in FDs, NEW ty \in Types, used(p, f, ty)
    PROVE  fd[p][f].node \in InTree(tree) /\ tree[fd[p][f].node].type = ty
<1> DEFINE n == fd[p][f].node
<1>1. n \in Nodes \cup {NULL} /\ is(tree, n, ty) /\ Good(tree)
  BY BaseTypes, FdIs DEF used
<1> HIDE DEF n
<1>2. n \in InTree(tree) /\ tree[n].type = ty
  BY <1>1, IsIs
<1> QED
  BY <1>2 DEF n

\* proc_alloc keeps Base.
LEMMA AllocBase ==
    ASSUME Base, NEW p \in Procs, proc_alloc(p)
    PROVE  Base' /\ Clears(p)
<1>1. Clears(p)
  BY BaseTypes, ClearIs DEF proc_alloc
<1>2. live' = live \cup {p} /\ UNCHANGED <<boot, tree, fbs, listed>> /\ stage = "user"
  BY DEF proc_alloc
<1>3. TypeOK' /\ archive' \in Archives /\ stage' = stage
  BY <1>1, <1>2, BaseTypes, CallTyped DEF Clears, fbs
<1> QED
  BY <1>1, <1>2, <1>3, BaseTypes, BaseClear DEF Base

\* process_destroy keeps Base.
LEMMA DestroyBase ==
    ASSUME Base, NEW p \in Procs, process_destroy(p)
    PROVE  Base' /\ Clears(p)
<1>1. Clears(p)
  BY BaseTypes, ClearIs DEF process_destroy
<1>2. live' = live \ {p} /\ UNCHANGED <<boot, tree>> /\ stage = "user"
  BY DEF process_destroy, up
<1>3. handle' \in [Handles -> HandleType]
  <2>1. \A h \in Handles : [handle[h] EXCEPT !.orphan = TRUE] \in HandleType
    BY BaseTypes DEF HandleType
  <2> QED
    BY <2>1, BaseTypes DEF process_destroy
<1>4. fbmaps' \in FbMaps /\ fbpte' \in FbEntries
      /\ listed' \in [Procs -> [FDs -> SUBSET Nodes]]
  BY BaseTypes, EmptySeq DEF process_destroy, FbMaps, FbEntries
<1>5. TypeOK' /\ archive' \in Archives /\ stage' = stage
  BY <1>1, <1>2, <1>3, <1>4, BaseTypes, CallTyped DEF Clears
<1> QED
  BY <1>1, <1>2, <1>5, BaseTypes, BaseClear DEF Base

\* A call that changes one descriptor, and not the tree.
LEMMA PutBase ==
    ASSUME Base, NEW p \in live, NEW f \in FDs, NEW x, Puts(p, f, x), x.used \/ x = Closed,
           UNCHANGED <<boot, tree, live>>, stage = "user",
           handle' \in [Handles -> HandleType], fbmaps' \in FbMaps,
           fbpte' \in FbEntries, listed' \in [Procs -> [FDs -> SUBSET Nodes]]
    PROVE  Base'
<1>1. TypeOK' /\ archive' \in Archives /\ stage' = stage
  BY BaseTypes, CallTyped DEF Puts
<1>2. live' = live /\ tree' = tree
  OBVIOUS
<1>3. /\ \A q \in Procs : q \notin live' => fd'[q] = fresh
      /\ \A q \in Procs, e \in FDs : fd'[q][e].used \/ fd'[q][e] = Closed
  BY <1>2, BasePut
<1> QED
  BY <1>1, <1>2, <1>3, BaseTypes DEF Base

\* A call that changes the tree, and no descriptor.
LEMMA TreeBase ==
    ASSUME Base, Good(tree'), UNCHANGED <<boot, live, fd>>, stage = "user",
           handle' \in [Handles -> HandleType], fbmaps' \in FbMaps,
           fbpte' \in FbEntries, listed' \in [Procs -> [FDs -> SUBSET Nodes]]
    PROVE  Base'
<1>1. TypeOK' /\ archive' \in Archives /\ stage' = stage
  BY BaseTypes, CallTyped
<1> QED
  BY <1>1, BaseTypes, BaseSame DEF Base

\* sys_mkdir keeps Base; the tree only grows.
LEMMA MkdirBase ==
    ASSUME Base, NEW p \in Procs, NEW path \in UserPaths, sys_mkdir(p, path)
    PROVE  Base' /\ Grew(tree, tree')
<1>1. \A s \in Seq(STRING) : Len(s) \in Nat
  OBVIOUS
<1>2. Made(tree, vfs_mkdir(tree, path))
  BY <1>1, BaseTypes, FilesAssumption, MkdirIs
<1>3. Good(tree') /\ Grew(tree, tree')
  BY <1>2 DEF Made, sys_mkdir
<1>4. UNCHANGED <<boot, live, fd>> /\ stage = "user" /\ UNCHANGED <<fbs, listed>>
  BY DEF sys_mkdir, up
<1> QED
  BY <1>3, <1>4, BaseTypes, TreeBase DEF fbs

\* sys_unlink keeps Base; the tree loses at most the node named.
LEMMA UnlinkBase ==
    ASSUME Base, NEW p \in Procs, NEW path \in UserPaths, sys_unlink(p, path)
    PROVE  LET n == vfs_find(tree, path) IN
           Base' /\ (tree' = tree \/ (n \in InTree(tree) /\ Shrunk(tree, tree', n)))
<1> DEFINE n == vfs_find(tree, path)
<1>1. \A s \in Seq(STRING) : Len(s) \in Nat
  OBVIOUS
<1>2. n \in InTree(tree) \cup {NULL}
  BY <1>1, BaseTypes, FilesAssumption, FindIs
<1>3. tree' = IF ~removable(tree, n) THEN tree
              ELSE [tree EXCEPT ![n] = Free, ![tree[n].parent].children = RemoveFirst(@, n)]
  BY DEF sys_unlink, vfs_remove
<1>4. UNCHANGED <<boot, live, fd>> /\ stage = "user" /\ UNCHANGED fbs
      /\ listed' = [q \in Procs |-> [f \in FDs |-> listed[q][f] \ {n}]]
  BY DEF sys_unlink, up
<1> HIDE DEF n
<1>5. tree' = tree \/ (n \in InTree(tree) /\ Shrunk(tree, tree', n))
  <2>1. CASE ~removable(tree, n)
    BY <1>3, <2>1
  <2>2. CASE removable(tree, n)
    <3>1. n \in InTree(tree)
      BY <1>2, <2>2 DEF removable
    <3> QED
      BY <1>3, <2>2, <3>1, BaseTypes, RemoveIs
  <2> QED
    BY <2>1, <2>2
<1>6. Good(tree')
  BY <1>5, BaseTypes DEF Shrunk
<1>7. listed' \in [Procs -> [FDs -> SUBSET Nodes]]
  BY <1>4, BaseTypes
<1>8. Base'
  BY <1>4, <1>6, <1>7, BaseTypes, TreeBase DEF fbs
<1> QED
  BY <1>5, <1>8 DEF n

\* sys_write keeps Base, the shape of the tree and, with memory and something
\* to write, the bytes of files.
LEMMA WriteBase ==
    ASSUME Base, NEW p \in Procs, NEW f \in FDs, NEW len \in Lengths, NEW memory \in BOOLEAN,
           sys_write(p, f, len, memory)
    PROVE  /\ Base' /\ Rewritten(tree, tree')
           /\ ("bare_write" \notin Situations /\ AllBacked(tree, archive.size)) =>
                 AllBacked(tree', archive.size)
<1> DEFINE n == fd[p][f].node
           Bare == tree[n].borrowed /\ (len = 0 \/ ~memory)
<1>1. n \in InTree(tree)
  BY UsedIs DEF sys_write, Types
<1>2. len \in Nat
  BY FilesAssumption
<1>3. tree' = vfs_write(tree, n, len, memory).tree /\ (Bare => "bare_write" \in Situations)
  BY DEF sys_write
<1> HIDE DEF n
<1>4. /\ Rewritten(tree, tree')
      /\ ~Bare => \A k \in InTree(tree) : Backed(tree[k], archive.size)
                                             => Backed(tree'[k], archive.size)
  BY <1>1, <1>2, <1>3, BaseTypes, WriteIs
<1>5. UNCHANGED <<boot, live, fd>> /\ stage = "user" /\ UNCHANGED <<fbs, listed>>
  BY DEF sys_write, up
<1>6. Base'
  BY <1>4, <1>5, BaseTypes, TreeBase DEF fbs, Rewritten
<1>7. ~Bare /\ AllBacked(tree, archive.size) => AllBacked(tree', archive.size)
  BY <1>4 DEF AllBacked, Rewritten
<1> QED
  BY <1>3, <1>4, <1>6, <1>7
\* lseek and read: the offset of a file moves.
LEMMA SeekBase ==
    ASSUME Base, NEW p \in Procs, NEW f \in FDs, NEW v \in Nat,
           up(p), fd' = [fd EXCEPT ![p][f].offset = v], fd[p][f].used,
           UNCHANGED <<boot, tree, live, fbs>>, listed' \in [Procs -> [FDs -> SUBSET Nodes]]
    PROVE  Base' /\ \E y \in FdType : Puts(p, f, y) /\ Moved(fd[p][f], y, v)
<1>1. PICK y \in FdType : Puts(p, f, y) /\ Moved(fd[p][f], y, v)
  BY BaseTypes, MoveIs
<1>2. y.used /\ p \in live /\ stage = "user"
  BY <1>1 DEF Moved, up
<1>3. Base'
  BY <1>1, <1>2, BaseTypes, PutBase DEF fbs
<1> QED
  BY <1>1, <1>3

\* sys_lseek keeps Base and moves one offset.
LEMMA LseekBase ==
    ASSUME Base, NEW p \in Procs, NEW f \in FDs, NEW whence \in 0 .. 2, NEW by \in -1 .. 1,
           sys_lseek(p, f, whence, by)
    PROVE  /\ Base' /\ used(p, f, "file") /\ p \in live
           /\ \E v \in Nat : \E y \in FdType : Puts(p, f, y) /\ Moved(fd[p][f], y, v)
<1> DEFINE from == CASE whence = 0 -> 0
                     [] whence = 1 -> fd[p][f].offset
                     [] whence = 2 -> tree[fd[p][f].node].size
           v == from + by
<1>1. up(p) /\ used(p, f, "file") /\ v >= 0 /\ fd' = [fd EXCEPT ![p][f].offset = v]
      /\ UNCHANGED <<boot, tree, live, fbs, listed>>
  BY DEF sys_lseek, lands
<1>2. fd[p][f].node \in InTree(tree)
  BY <1>1, UsedIs DEF Types
<1>3. tree[fd[p][f].node].size \in Nat
  BY <1>2, BaseTypes, PlaceIs DEF IsNode
<1>4. from \in Nat
  <2>1. whence = 0 \/ whence = 1 \/ whence = 2
    OBVIOUS
  <2>2. fd[p][f].offset \in Nat
    BY FdIs
  <2> QED
    BY <1>3, <2>1, <2>2
<1> HIDE DEF from
<1>5. v \in Nat
  BY <1>1, <1>4
<1> HIDE DEF v
<1>6. Base' /\ \E y \in FdType : Puts(p, f, y) /\ Moved(fd[p][f], y, v)
  BY <1>1, <1>5, BaseTypes, SeekBase DEF used
<1> QED
  BY <1>1, <1>5, <1>6 DEF up

\* sys_read keeps Base and moves one offset.
LEMMA ReadBase ==
    ASSUME Base, NEW p \in Procs, NEW f \in FDs, NEW len \in Lengths, sys_read(p, f, len)
    PROVE  /\ Base' /\ used(p, f, "file") /\ p \in live
           /\ \E v \in Nat : \E y \in FdType : Puts(p, f, y) /\ Moved(fd[p][f], y, v)
<1> DEFINE size == tree[fd[p][f].node].size
           from == fd[p][f].offset
           v == from + Smaller(len, size - from)
<1>1. up(p) /\ used(p, f, "file") /\ from < size /\ fd' = [fd EXCEPT ![p][f].offset = v]
      /\ UNCHANGED <<boot, tree, live, fbs, listed>>
  BY DEF sys_read
<1>2. fd[p][f].node \in InTree(tree)
  BY <1>1, UsedIs DEF Types
<1>3. size \in Nat
  BY <1>2, BaseTypes, PlaceIs DEF IsNode
<1>4. from \in Nat /\ len \in Nat
  BY FdIs, FilesAssumption
<1> HIDE DEF from, size
<1>5. v \in Nat
  BY <1>1, <1>3, <1>4 DEF Smaller
<1> HIDE DEF v
<1>6. Base' /\ \E y \in FdType : Puts(p, f, y) /\ Moved(fd[p][f], y, v)
  BY <1>1, <1>5, BaseTypes, SeekBase DEF used
<1> QED
  BY <1>1, <1>5, <1>6 DEF up

\* getdents: from counts the children already shown, to those shown now.
Shows(p, f, from, to) ==
    LET kids == tree[fd[p][f].node].children IN
    /\ fd[p][f].node \in InTree(tree) /\ tree[fd[p][f].node].type = "directory"
    /\ from \in Nat /\ to \in Nat /\ from <= to /\ to <= Len(kids) /\ from = fd[p][f].offset
    /\ listed' = [listed EXCEPT ![p][f] = @ \cup {kids[i] : i \in from + 1 .. to}]

\* sys_getdents keeps Base, moves one offset and shows what it passed.
LEMMA GetdentsBase ==
    ASSUME Base, NEW p \in Procs, NEW f \in FDs, NEW room \in Lengths, sys_getdents(p, f, room)
    PROVE  /\ Base' /\ used(p, f, "directory") /\ p \in live /\ tree' = tree /\ live' = live
           /\ UNCHANGED fbs
           /\ \E from \in Nat : \E to \in Nat : \E y \in FdType :
                 Puts(p, f, y) /\ Moved(fd[p][f], y, to) /\ Shows(p, f, from, to)
<1> DEFINE n == fd[p][f].node
           kids == tree[fd[p][f].node].children
           from == fd[p][f].offset
           to == Smaller(from + room, Len(kids))
<1>1. up(p) /\ used(p, f, "directory") /\ from < Len(kids) /\ fd' = [fd EXCEPT ![p][f].offset = to]
      /\ UNCHANGED <<boot, tree, live, fbs>>
      /\ listed' = [listed EXCEPT ![p][f] = @ \cup {kids[i] : i \in from + 1 .. to}]
  BY DEF sys_getdents
<1>2. n \in InTree(tree) /\ tree[n].type = "directory"
  BY <1>1, UsedIs DEF Types
<1>3. Len(kids) \in Nat /\ kids \in Seq(Nodes) /\ Lists(tree, n)
  BY <1>2, BaseTypes, PlaceIs
<1>4. from \in Nat /\ room \in Nat
  BY FdIs, FilesAssumption
<1>5. to \in Nat /\ from <= to /\ to <= Len(kids)
  <2> DEFINE L == Len(kids)
  <2> HIDE DEF from, L
  <2> QED
    BY <1>1, <1>3, <1>4 DEF Smaller, L
<1>6. Shows(p, f, from, to)
  BY <1>1, <1>2, <1>4, <1>5 DEF Shows
<1>7. {kids[i] : i \in from + 1 .. to} \in SUBSET Nodes
  <2>1. \A i \in 1 .. Len(kids) : kids[i] \in Nodes
    BY <1>3
  <2> DEFINE L == Len(kids)
  <2>2. L \in Nat /\ to <= L
    BY <1>3, <1>5
  <2> HIDE DEF from, to, L
  <2>3. \A i \in from + 1 .. to : i \in 1 .. L
    BY <1>4, <1>5, <2>2
  <2> QED
    BY <2>1, <2>3 DEF L
<1> DEFINE K == {kids[i] : i \in from + 1 .. to}
<1>8. listed' \in [Procs -> [FDs -> SUBSET Nodes]]
  <2>1. K \in SUBSET Nodes /\ listed' = [listed EXCEPT ![p][f] = @ \cup K]
    BY <1>1, <1>7
  <2> HIDE DEF K
  <2>2. listed[p][f] \cup K \in SUBSET Nodes
    BY <2>1, BaseTypes
  <2> QED
    BY <2>1, <2>2, BaseTypes
<1> HIDE DEF from, to, kids, n, K
<1>9. Base' /\ \E y \in FdType : Puts(p, f, y) /\ Moved(fd[p][f], y, to)
  BY <1>1, <1>5, <1>8, BaseTypes, SeekBase DEF used
<1> QED
  BY <1>1, <1>4, <1>5, <1>6, <1>9 DEF up

\* The least of the free ones.
LEMMA LeastIs ==
    ASSUME NEW S, S \in SUBSET Nat, S # {}
    PROVE  (CHOOSE x \in S : \A y \in S : x <= y) \in S
BY LeastNumber

\* open: a free slot refers to a node, and to a handle when it is fb0.
Opens(p, f, n, h) ==
    /\ f \in FDs /\ n \in InTree(tree) /\ h \in Handles \cup {NULL}
    /\ ~fd[p][f].used
    /\ Puts(p, f, [used |-> TRUE, node |-> n, offset |-> 0, handle |-> h])
    /\ \/ ~is_fb0(n) /\ h = NULL /\ handle' = handle
       \/ /\ is_fb0(n) /\ h \in Handles /\ ~handle[h].used
          /\ handle' = [handle EXCEPT ![h] =
               [used |-> TRUE, owner |-> p, mapped |-> FALSE, orphan |-> FALSE]]
    /\ listed' = [listed EXCEPT ![p][f] = {}]
    /\ UNCHANGED <<boot, tree, live, fbmaps, fbpte>>

\* sys_open keeps Base and sets one closed descriptor.
LEMMA OpenBase ==
    ASSUME Base, NEW p \in Procs, NEW path \in UserPaths, sys_open(p, path)
    PROVE  Base' /\ p \in live /\ \E f, n, h : Opens(p, f, n, h)
<1> DEFINE n == vfs_find(tree, path)
           f == CHOOSE x \in free_fds(p) : \A y \in free_fds(p) : x <= y
           hh == CHOOSE x \in free_handles : \A y \in free_handles : x <= y
<1>1. \A s \in Seq(STRING) : Len(s) \in Nat
  OBVIOUS
<1>2. n \in InTree(tree) /\ n # NULL
  BY <1>1, BaseTypes, FilesAssumption, FindIs DEF sys_open
<1>3. up(p) /\ free_fds(p) # {} /\ listed' = [listed EXCEPT ![p][f] = {}]
      /\ UNCHANGED <<boot, tree, live, fbmaps, fbpte>>
  BY DEF sys_open
<1>4. \/ ~is_fb0(n) /\ opened(p, f, n, NULL) /\ handle' = handle
      \/ /\ is_fb0(n) /\ free_handles # {} /\ opened(p, f, n, hh)
         /\ handle' = [handle EXCEPT ![hh] =
              [used |-> TRUE, owner |-> p, mapped |-> FALSE, orphan |-> FALSE]]
  BY DEF sys_open
<1>5. f \in free_fds(p)
  <2>1. free_fds(p) \in SUBSET Nat
    BY FilesAssumption DEF free_fds, FDs
  <2> QED
    BY <1>3, <2>1, LeastIs
<1>6. free_handles # {} => hh \in free_handles
  <2>1. free_handles \in SUBSET Nat
    BY FilesAssumption DEF free_handles
  <2> QED
    BY <2>1, LeastIs
<1> HIDE DEF n, f, hh
<1>7. f \in FDs /\ ~fd[p][f].used /\ n \in Nodes
  BY <1>2, <1>5, BaseTypes, PlaceIs DEF free_fds
<1>8. PICK h \in Handles \cup {NULL} :
        /\ opened(p, f, n, h)
        /\ \/ ~is_fb0(n) /\ h = NULL /\ handle' = handle
           \/ /\ is_fb0(n) /\ h \in Handles /\ ~handle[h].used
              /\ handle' = [handle EXCEPT ![h] =
                   [used |-> TRUE, owner |-> p, mapped |-> FALSE, orphan |-> FALSE]]
  <2>1. free_handles # {} => hh \in Handles /\ ~handle[hh].used
    BY <1>6 DEF free_handles
  <2> QED
    BY <1>4, <2>1
<1> DEFINE x == [used |-> TRUE, node |-> n, offset |-> 0, handle |-> h]
<1>9. x \in FdType /\ x.used
  BY <1>7 DEF FdType
<1>10. Puts(p, f, x)
  BY <1>7, <1>8, <1>9, BaseTypes, PutIs DEF opened
<1>11. Opens(p, f, n, h)
  BY <1>2, <1>3, <1>7, <1>8, <1>10 DEF Opens
<1>12. handle' \in [Handles -> HandleType]
  <2>1. [used |-> TRUE, owner |-> p, mapped |-> FALSE, orphan |-> FALSE] \in HandleType
    BY DEF HandleType
  <2> QED
    BY <1>8, <2>1, BaseTypes
<1>13. listed' \in [Procs -> [FDs -> SUBSET Nodes]]
  BY <1>3, <1>7, BaseTypes
<1> HIDE DEF x
<1>14. Base'
  BY <1>3, <1>7, <1>9, <1>10, <1>12, <1>13, BaseTypes, PutBase DEF up
<1> QED
  BY <1>3, <1>11, <1>14 DEF up
-----------------------------------------------------------------------------
(* The regions at FB_MAP_VADDR.                                            *)

\* The regions of the backbuffer that the process made are among the first c.
OwnFirst(l, c) == \A i \in 1 .. Len(l) : l[i].fb /\ l[i].own => i <= c
HasFb(l) == \E i \in 1 .. Len(l) : l[i].fb

\* A list of regions.
LEMMA ListIs ==
    ASSUME NEW l \in Seq(Regions)
    PROVE  /\ Len(l) \in Nat /\ DOMAIN l = 1 .. Len(l) /\ \A i \in 1 .. Len(l) : l[i] \in Regions
           /\ l # <<>> => Len(l) > 0
BY LenProperties, EmptySeq, ElementOfSeq

\* A list whose regions are the same but for the flag.
LEMMA ListSame ==
    ASSUME NEW l \in Seq(Regions), NEW m,
           m = [i \in 1 .. Len(l) |-> m[i]],
           \A i \in 1 .. Len(l) : m[i] \in Regions /\ m[i].fb = l[i].fb /\ m[i].own = l[i].own
    PROVE  /\ m \in Seq(Regions) /\ Len(m) = Len(l)
           /\ \A c : OwnFirst(l, c) => OwnFirst(m, c)
           /\ HasFb(l) => HasFb(m)
<1>1. Len(l) \in Nat
  BY ListIs
<1>2. m \in Seq(Regions) /\ Len(m) = Len(l)
  <2>1. m \in [1 .. Len(l) -> Regions]
    OBVIOUS
  <2>2. m \in Seq(Regions)
    BY <1>1, <2>1, IsASeq
  <2>3. DOMAIN m = 1 .. Len(l)
    BY <2>1
  <2> QED
    BY <1>1, <2>2, <2>3, LenProperties
<1> QED
  BY <1>2 DEF OwnFirst, HasFb

\* The first region is freed.
LEMMA ListFree ==
    ASSUME NEW l \in Seq(Regions), l # <<>>
    PROVE  /\ Tail(l) \in Seq(Regions) /\ Len(Tail(l)) = Len(l) - 1
           /\ \A i \in 1 .. Len(Tail(l)) : i + 1 \in 1 .. Len(l) /\ Tail(l)[i] = l[i + 1]
           /\ \A c \in Int : OwnFirst(l, c) => OwnFirst(Tail(l), c - 1)
<1>1. Tail(l) \in Seq(Regions) /\ Len(Tail(l)) = Len(l) - 1 /\ Len(l) \in Nat
  BY HeadTailProperties, LenProperties
<1>2. \A i \in 1 .. Len(Tail(l)) : i + 1 \in 1 .. Len(l) /\ Tail(l)[i] = l[i + 1]
  BY <1>1, HeadTailProperties
<1>3. ASSUME NEW c \in Int, OwnFirst(l, c), NEW i \in 1 .. Len(Tail(l)), Tail(l)[i].fb, Tail(l)[i].own
      PROVE  i <= c - 1
  <2>1. i + 1 \in 1 .. Len(l) /\ l[i + 1].fb /\ l[i + 1].own /\ i \in Int
    BY <1>1, <1>2, <1>3
  <2>2. i + 1 <= c
    BY <1>3, <2>1 DEF OwnFirst
  <2> QED
    BY <2>1, <2>2
<1> QED
  BY <1>1, <1>2, <1>3 DEF OwnFirst

\* A region is put in front.
LEMMA ListPush ==
    ASSUME NEW l \in Seq(Regions), NEW fb \in BOOLEAN, NEW m, m = <<region(fb)>> \o l
    PROVE  /\ m \in Seq(Regions) /\ Len(m) = Len(l) + 1 /\ m[1] = region(fb) /\ m[1].fb = fb
           /\ \A i \in 1 .. Len(l) : m[i + 1] = l[i]
           /\ \A c \in Int : OwnFirst(l, c - 1) /\ (fb => c >= 1) => OwnFirst(m, c)
           /\ fb => HasFb(m)
<1> DEFINE r == <<region(fb)>>
<1>1. region(fb) \in Regions /\ region(fb).fb = fb
  BY DEF region, Regions
<1>2. r \in Seq(Regions) /\ Len(r) = 1 /\ r[1] = region(fb)
  BY <1>1
<1> HIDE DEF r
<1>3. m = r \o l /\ Len(l) \in Nat
  BY LenProperties DEF r
<1>4. /\ m \in Seq(Regions) /\ Len(m) = 1 + Len(l)
      /\ \A i \in 1 .. 1 + Len(l) : m[i] = IF i <= 1 THEN r[i] ELSE l[i - 1]
  BY <1>2, <1>3, ConcatProperties
<1>5. m[1] = region(fb) /\ \A i \in 1 .. Len(l) : m[i + 1] = l[i]
  BY <1>2, <1>3, <1>4
<1>6. ASSUME NEW c \in Int, OwnFirst(l, c - 1), fb => c >= 1, NEW i \in 1 .. Len(m), m[i].fb, m[i].own
      PROVE  i <= c
  <2>1. CASE i = 1
    BY <1>1, <1>5, <1>6, <2>1
  <2>2. CASE i # 1
    <3>1. i - 1 \in 1 .. Len(l) /\ m[i] = l[i - 1] /\ i \in Int
      BY <1>3, <1>4, <2>2
    <3>2. i - 1 <= c - 1
      BY <1>6, <3>1 DEF OwnFirst
    <3> QED
      BY <3>1, <3>2
  <2> QED
    BY <2>1, <2>2
<1>7. fb => HasFb(m)
  <2>1. 1 \in 1 .. Len(m)
    BY <1>3, <1>4
  <2>2. m[1].fb = fb
    BY <1>1, <1>5
  <2> QED
    BY <2>1, <2>2 DEF HasFb
<1> QED
  BY <1>1, <1>3, <1>4, <1>5, <1>6, <1>7 DEF OwnFirst

\* A region with one of its flags changed is a region.
LEMMA RegionFlags ==
    ASSUME NEW x \in Regions, NEW b \in BOOLEAN
    PROVE  /\ [x EXCEPT !.cow = b] \in Regions /\ [x EXCEPT !.cow = TRUE, !.own = FALSE] \in Regions
           /\ [x EXCEPT !.cow = b].fb = x.fb /\ [x EXCEPT !.cow = b].own = x.own
           /\ [x EXCEPT !.cow = TRUE, !.own = FALSE].fb = x.fb
           /\ ~[x EXCEPT !.cow = TRUE, !.own = FALSE].own
BY DEF Regions

\* A clone makes regions of the parent copy-on-write.
LEMMA ListCow ==
    ASSUME NEW l \in Seq(Regions), NEW k \in Int
    PROVE  /\ cow_first(l, k) \in Seq(Regions)
           /\ \A c : OwnFirst(l, c) => OwnFirst(cow_first(l, k), c)
           /\ HasFb(l) => HasFb(cow_first(l, k))
<1> DEFINE m == cow_first(l, k)
<1>1. DOMAIN l = 1 .. Len(l) /\ \A i \in 1 .. Len(l) : l[i] \in Regions
  BY ListIs
<1>2. m = [i \in 1 .. Len(l) |-> IF i <= k THEN [l[i] EXCEPT !.cow = TRUE] ELSE l[i]]
  BY <1>1 DEF cow_first
<1>3. \A i \in 1 .. Len(l) : m[i] \in Regions /\ m[i].fb = l[i].fb /\ m[i].own = l[i].own
  BY <1>1, <1>2, RegionFlags
<1>4. m = [i \in 1 .. Len(l) |-> m[i]]
  BY <1>2
<1> HIDE DEF m
<1>5. /\ m \in Seq(Regions)
      /\ HasFb(l) => HasFb(m)
      /\ \A c : OwnFirst(l, c) => OwnFirst(m, c)
  BY <1>3, <1>4, ListSame
<1> QED
  BY <1>5 DEF m

\* The child has the same regions, none of its own making.
LEMMA ListClone ==
    ASSUME NEW l \in Seq(Regions)
    PROVE  /\ cloned(l) \in Seq(Regions) /\ \A c : OwnFirst(cloned(l), c)
           /\ HasFb(l) => HasFb(cloned(l))
<1> DEFINE n == Len(l)
           m == cloned(l)
           turned(i) == n + 1 - i
<1>1. n \in Nat /\ DOMAIN l = 1 .. n /\ \A i \in 1 .. n : l[i] \in Regions
  BY ListIs
<1>2. m = [i \in 1 .. n |-> [l[turned(i)] EXCEPT !.cow = TRUE, !.own = FALSE]]
  BY <1>1 DEF cloned
<1>3. \A i \in 1 .. n : turned(i) \in 1 .. n /\ turned(turned(i)) = i
  BY <1>1
<1> HIDE DEF n, m, turned
<1>4. \A i \in 1 .. n : m[i] \in Regions /\ m[i].fb = l[turned(i)].fb /\ ~m[i].own
  BY <1>1, <1>2, <1>3, RegionFlags
<1>5. m \in [1 .. n -> Regions]
  BY <1>2, <1>4
<1>6. m \in Seq(Regions) /\ Len(m) = n
  BY <1>1, <1>5, IsASeq, LenProperties
<1>7. ASSUME NEW i \in 1 .. n, l[i].fb PROVE HasFb(m)
  <2>1. turned(i) \in 1 .. Len(m) /\ m[turned(i)].fb
    BY <1>3, <1>4, <1>6, <1>7
  <2> QED
    BY <2>1 DEF HasFb
<1>8. HasFb(l) => HasFb(m)
  BY <1>7 DEF HasFb, n
<1>9. \A c : OwnFirst(m, c)
  BY <1>4, <1>6 DEF OwnFirst
<1> QED
  BY <1>6, <1>8, <1>9 DEF m

\* The first region loses its flag.
LEMMA ListBreak ==
    ASSUME NEW l \in Seq(Regions), l # <<>>
    PROVE  /\ [l EXCEPT ![1].cow = FALSE] \in Seq(Regions)
           /\ \A c : OwnFirst(l, c) => OwnFirst([l EXCEPT ![1].cow = FALSE], c)
           /\ HasFb(l) => HasFb([l EXCEPT ![1].cow = FALSE])
<1> DEFINE m == [l EXCEPT ![1].cow = FALSE]
<1>1. DOMAIN l = 1 .. Len(l) /\ \A i \in 1 .. Len(l) : l[i] \in Regions
  BY ListIs
<1>2. m = [i \in 1 .. Len(l) |-> IF i = 1 THEN [l[i] EXCEPT !.cow = FALSE] ELSE l[i]]
  BY <1>1, ListIs
<1>3. \A i \in 1 .. Len(l) : m[i] \in Regions /\ m[i].fb = l[i].fb /\ m[i].own = l[i].own
  BY <1>1, <1>2, RegionFlags
<1>4. m = [i \in 1 .. Len(l) |-> m[i]]
  BY <1>2
<1> HIDE DEF m
<1>5. /\ m \in Seq(Regions)
      /\ HasFb(l) => HasFb(m)
      /\ \A c : OwnFirst(l, c) => OwnFirst(m, c)
  BY <1>3, <1>4, ListSame
<1> QED
  BY <1>5 DEF m

\* Unmapping touches the list and the entries of one process.
LEMMA UnmapTyped ==
    ASSUME Base, NEW o, NEW yes, unmapped(o, yes)
    PROVE  fbmaps' \in FbMaps /\ fbpte' \in FbEntries
<1>1. fbpte' \in FbEntries
  BY BaseTypes DEF unmapped, FbEntries
<1>2. CASE fbmaps' = fbmaps
  BY <1>1, <1>2, BaseTypes
<1>3. CASE fbmaps' = [fbmaps EXCEPT ![o] = Tail(@)] /\ fbmaps[o] # <<>>
  <2>1. o \in Procs => Tail(fbmaps[o]) \in Seq(Regions)
    BY <1>3, BaseTypes, ListFree DEF FbMaps
  <2> QED
    BY <1>1, <1>3, <2>1, BaseTypes DEF FbMaps
<1> QED
  BY <1>2, <1>3 DEF unmapped

\* sys_close keeps Base and closes one descriptor.
LEMMA CloseBase ==
    ASSUME Base, NEW p \in Procs, NEW f \in FDs, sys_close(p, f)
    PROVE  /\ Base' /\ p \in live /\ Puts(p, f, Closed)
           /\ UNCHANGED <<boot, tree, live, listed>>
<1> DEFINE h == fd[p][f].handle
<1>1. up(p) /\ fd[p][f].used /\ fd' = [fd EXCEPT ![p][f] = Closed]
      /\ UNCHANGED <<boot, tree, live, listed>>
  BY DEF sys_close
<1>2. Puts(p, f, Closed)
  BY <1>1, BaseTypes, ClosedIs, PutIs
<1>3. NoHandle \in HandleType
  BY DEF NoHandle, HandleType
<1>4. handle' \in [Handles -> HandleType] /\ fbmaps' \in FbMaps /\ fbpte' \in FbEntries
  <2>1. CASE is_fb0(fd[p][f].node)
    <3>1. unmapped(handle[h].owner, handle[h].mapped) /\ handle' = [handle EXCEPT ![h] = NoHandle]
      BY <2>1 DEF sys_close
    <3>2. handle' \in [Handles -> HandleType]
      BY <1>3, <3>1, BaseTypes
    <3> QED
      BY <3>1, <3>2, UnmapTyped
  <2>2. CASE ~is_fb0(fd[p][f].node)
    BY <2>2, BaseTypes DEF sys_close, fbs
  <2> QED
    BY <2>1, <2>2
<1>5. Base'
  BY <1>1, <1>2, <1>4, BaseTypes, PutBase DEF up
<1> QED
  BY <1>1, <1>2, <1>5 DEF up

\* Mapping the framebuffer keeps Base.
LEMMA MapBase ==
    ASSUME Base, NEW p \in Procs, NEW f \in FDs, sys_ioctl_map(p, f)
    PROVE  Base'
<1> DEFINE h == fd[p][f].handle
           o == handle[h].owner
<1>1. up(p) /\ UNCHANGED <<boot, tree, live, fd, listed>>
      /\ handle' = [handle EXCEPT ![h].mapped = TRUE]
      /\ fbmaps' = [fbmaps EXCEPT ![o] = <<region(TRUE)>> \o @] /\ fbpte' = [fbpte EXCEPT ![o] = "fb"]
  BY DEF sys_ioctl_map
<1> HIDE DEF h, o
<1>2. handle' \in [Handles -> HandleType]
  <2>1. \A x \in HandleType : [x EXCEPT !.mapped = TRUE] \in HandleType
    BY DEF HandleType
  <2>2. h \in Handles => handle[h] \in HandleType
    BY BaseTypes
  <2> QED
    BY <1>1, <2>1, <2>2, BaseTypes
<1>3. fbmaps' \in FbMaps /\ fbpte' \in FbEntries
  <2>1. o \in Procs => <<region(TRUE)>> \o fbmaps[o] \in Seq(Regions)
    BY BaseTypes, ListPush DEF FbMaps
  <2> QED
    BY <1>1, <2>1, BaseTypes DEF FbMaps, FbEntries
<1> QED
  BY <1>1, <1>2, <1>3, BaseTypes, TreeBase DEF up

\* Unmapping the framebuffer keeps Base.
LEMMA UnmapBase ==
    ASSUME Base, NEW p \in Procs, NEW f \in FDs, sys_ioctl_unmap(p, f)
    PROVE  Base'
<1> DEFINE h == fd[p][f].handle
<1>1. up(p) /\ UNCHANGED <<boot, tree, live, fd, listed>>
      /\ handle' = [handle EXCEPT ![h].mapped = FALSE]
      /\ unmapped(handle[h].owner, TRUE)
  BY DEF sys_ioctl_unmap
<1> HIDE DEF h
<1>2. handle' \in [Handles -> HandleType]
  <2>1. \A x \in HandleType : [x EXCEPT !.mapped = FALSE] \in HandleType
    BY DEF HandleType
  <2>2. h \in Handles => handle[h] \in HandleType
    BY BaseTypes
  <2> QED
    BY <1>1, <2>1, <2>2, BaseTypes
<1>3. fbmaps' \in FbMaps /\ fbpte' \in FbEntries
  BY <1>1, UnmapTyped
<1> QED
  BY <1>1, <1>2, <1>3, BaseTypes, TreeBase DEF up

\* The calls that change the memory of one process and nothing else.
MemoryNext ==
    \/ \E p \in Procs : sys_munmap(p)
    \/ \E p \in Procs, k \in 0 .. MaxRegions : process_fork_fails(p, k)
    \/ \E p \in Procs, fixed, memory \in BOOLEAN : sys_mmap(p, fixed, memory)
    \/ \E p \in Procs, shared \in BOOLEAN : vmm_cow_break(p, shared)

\* What such a call does to a process: its regions are as before, fewer or
\* more, but those it made of the backbuffer are no deeper.
Remaps(p) ==
    /\ \A q \in Procs : q # p => fbmaps'[q] = fbmaps[q] /\ fbpte'[q] = fbpte[q]
    /\ \A c \in Nat : OwnFirst(fbmaps[p], c) => OwnFirst(fbmaps'[p], c)
    /\ (fbpte[p] = "fb" => HasFb(fbmaps[p])) => (fbpte'[p] = "fb" => HasFb(fbmaps'[p]))

\* vmm_space_free of the first region.
LEMMA UnmapRemaps ==
    ASSUME Base, NEW p \in Procs, unmapped(p, TRUE)
    PROVE  /\ Remaps(p)
           /\ \A c \in Nat \ {0} : OwnFirst(fbmaps[p], c) => OwnFirst(fbmaps'[p], c - 1)
<1> DEFINE l == fbmaps[p]
<1>1. l \in Seq(Regions) /\ fbmaps \in FbMaps /\ fbpte \in FbEntries
  BY BaseTypes DEF FbMaps
<1>2. CASE l # <<>>
  <2>1. fbmaps'[p] = Tail(l) /\ fbpte'[p] = "none"
        /\ \A q \in Procs : q # p => fbmaps'[q] = fbmaps[q] /\ fbpte'[q] = fbpte[q]
    BY <1>1, <1>2 DEF unmapped, FbMaps, FbEntries
  <2> HIDE DEF l
  <2>2. \A c \in Nat : OwnFirst(l, c) => OwnFirst(Tail(l), c - 1)
    BY <1>1, <1>2, ListFree
  <2>3. \A c \in Nat : OwnFirst(Tail(l), c - 1) => OwnFirst(Tail(l), c)
    BY <1>1, <1>2, ListFree DEF OwnFirst
  <2> QED
    BY <2>1, <2>2, <2>3 DEF Remaps, l
<1>3. CASE l = <<>>
  <2>1. fbmaps' = fbmaps /\ fbpte' = fbpte
    BY <1>3 DEF unmapped
  <2>2. \A c : OwnFirst(l, c)
    BY <1>3 DEF OwnFirst
  <2> QED
    BY <2>1, <2>2 DEF Remaps
<1> QED
  BY <1>2, <1>3

\* sys_mmap at the address.
LEMMA MmapRemaps ==
    ASSUME Base, NEW p \in Procs, NEW fixed, NEW memory \in BOOLEAN, sys_mmap(p, fixed, memory)
    PROVE  Remaps(p) /\ fbmaps' \in FbMaps /\ fbpte' \in FbEntries
<1> DEFINE l == fbmaps[p]
           rest == IF l = <<>> THEN <<>> ELSE Tail(l)
           m == IF memory THEN <<region(FALSE)>> \o rest ELSE rest
<1>1. l \in Seq(Regions) /\ fbmaps \in FbMaps /\ fbpte \in FbEntries
  BY BaseTypes DEF FbMaps
<1>2. fbmaps' = [fbmaps EXCEPT ![p] = m]
      /\ fbpte' = [fbpte EXCEPT ![p] = IF memory THEN "anon" ELSE "none"]
  BY DEF sys_mmap
<1> HIDE DEF l
<1>3. rest \in Seq(Regions) /\ \A c \in Nat : OwnFirst(l, c) => OwnFirst(rest, c - 1)
  <2>1. CASE l = <<>>
    BY <2>1, EmptySeq DEF OwnFirst
  <2>2. CASE l # <<>>
    BY <1>1, <2>2, ListFree
  <2> QED
    BY <2>1, <2>2
<1> HIDE DEF rest
<1>4. m \in Seq(Regions) /\ \A c \in Nat : OwnFirst(rest, c - 1) => OwnFirst(m, c)
  <2>1. CASE memory
    <3>1. m = <<region(FALSE)>> \o rest
      BY <2>1
    <3> HIDE DEF m
    <3>2. m \in Seq(Regions) /\ \A c \in Int : OwnFirst(rest, c - 1) => OwnFirst(m, c)
      BY <1>3, <3>1, ListPush
    <3> QED
      BY <3>2
  <2>2. CASE ~memory
    BY <1>3, <2>2, ListIs DEF OwnFirst
  <2> QED
    BY <2>1, <2>2
<1> HIDE DEF m
<1>5. fbmaps'[p] = m /\ fbpte'[p] # "fb"
      /\ \A q \in Procs : q # p => fbmaps'[q] = fbmaps[q] /\ fbpte'[q] = fbpte[q]
  BY <1>1, <1>2 DEF FbMaps, FbEntries
<1>6. fbmaps' \in FbMaps /\ fbpte' \in FbEntries
  BY <1>1, <1>2, <1>4 DEF FbMaps, FbEntries
<1> QED
  BY <1>3, <1>4, <1>5, <1>6 DEF Remaps, l

\* A fork that fails.
LEMMA CowRemaps ==
    ASSUME Base, NEW p \in Procs, NEW k, process_fork_fails(p, k)
    PROVE  Remaps(p) /\ fbmaps' \in FbMaps /\ fbpte' \in FbEntries
<1> DEFINE l == fbmaps[p]
           m == cow_first(l, k)
<1>1. l \in Seq(Regions) /\ fbmaps \in FbMaps /\ fbpte \in FbEntries
  BY BaseTypes DEF FbMaps
<1>2. fbmaps' = [fbmaps EXCEPT ![p] = m] /\ fbpte' = fbpte /\ k \in Int
  BY <1>1, ListIs DEF process_fork_fails
<1> HIDE DEF l
<1>3. m \in Seq(Regions) /\ (\A c : OwnFirst(l, c) => OwnFirst(m, c)) /\ (HasFb(l) => HasFb(m))
  BY <1>1, <1>2, ListCow
<1> HIDE DEF m
<1>4. fbmaps'[p] = m /\ fbmaps' \in FbMaps /\ \A q \in Procs : q # p => fbmaps'[q] = fbmaps[q]
  BY <1>1, <1>2, <1>3 DEF FbMaps
<1> QED
  BY <1>1, <1>2, <1>3, <1>4 DEF Remaps, l

\* A write after a fork.
LEMMA BreakRemaps ==
    ASSUME Base, NEW p \in Procs, NEW shared, vmm_cow_break(p, shared)
    PROVE  Remaps(p) /\ fbmaps' \in FbMaps /\ fbpte' \in FbEntries
<1> DEFINE l == fbmaps[p]
           m == [l EXCEPT ![1].cow = FALSE]
<1>1. l \in Seq(Regions) /\ fbmaps \in FbMaps /\ fbpte \in FbEntries
  BY BaseTypes DEF FbMaps
<1>2. fbmaps' = [fbmaps EXCEPT ![p] = m] /\ l # <<>>
      /\ fbpte' = [fbpte EXCEPT ![p] = IF shared THEN "anon" ELSE @]
  BY DEF vmm_cow_break
<1> HIDE DEF l
<1>3. m \in Seq(Regions) /\ (\A c : OwnFirst(l, c) => OwnFirst(m, c)) /\ (HasFb(l) => HasFb(m))
  BY <1>1, <1>2, ListBreak
<1> HIDE DEF m
<1>4. fbmaps'[p] = m /\ fbmaps' \in FbMaps /\ \A q \in Procs : q # p => fbmaps'[q] = fbmaps[q]
  BY <1>1, <1>2, <1>3 DEF FbMaps
<1>5. fbpte' \in FbEntries /\ (fbpte'[p] = "fb" => fbpte[p] = "fb")
      /\ \A q \in Procs : q # p => fbpte'[q] = fbpte[q]
  BY <1>1, <1>2 DEF FbEntries
<1> QED
  BY <1>1, <1>2, <1>3, <1>4, <1>5 DEF Remaps, l

\* They keep Base.
LEMMA MemoryBase ==
    ASSUME Base, MemoryNext
    PROVE  /\ Base' /\ UNCHANGED <<boot, tree, live, fd, handle, listed>>
           /\ \E p \in Procs : Remaps(p)
<1>1. ASSUME NEW p \in Procs, up(p), UNCHANGED <<boot, tree, live, fd, handle, listed>>,
             Remaps(p), fbmaps' \in FbMaps, fbpte' \in FbEntries
      PROVE  /\ Base' /\ UNCHANGED <<boot, tree, live, fd, handle, listed>>
             /\ \E q \in Procs : Remaps(q)
  BY <1>1, BaseTypes, TreeBase DEF up
<1>2. ASSUME NEW p \in Procs, sys_munmap(p)
      PROVE  /\ Base' /\ UNCHANGED <<boot, tree, live, fd, handle, listed>>
             /\ \E q \in Procs : Remaps(q)
  BY <1>1, <1>2, UnmapRemaps, UnmapTyped DEF sys_munmap
<1>3. ASSUME NEW p \in Procs, NEW k \in 0 .. MaxRegions, process_fork_fails(p, k)
      PROVE  /\ Base' /\ UNCHANGED <<boot, tree, live, fd, handle, listed>>
             /\ \E q \in Procs : Remaps(q)
  <2>1. up(p) /\ UNCHANGED <<boot, tree, live, fd, handle, listed>>
    BY <1>3 DEF process_fork_fails
  <2> QED
    BY <1>1, <1>3, <2>1, CowRemaps
<1>4. ASSUME NEW p \in Procs, NEW fixed \in BOOLEAN, NEW memory \in BOOLEAN, sys_mmap(p, fixed, memory)
      PROVE  /\ Base' /\ UNCHANGED <<boot, tree, live, fd, handle, listed>>
             /\ \E q \in Procs : Remaps(q)
  <2>1. up(p) /\ UNCHANGED <<boot, tree, live, fd, handle, listed>>
    BY <1>4 DEF sys_mmap
  <2> QED
    BY <1>1, <1>4, <2>1, MmapRemaps
<1>5. ASSUME NEW p \in Procs, NEW shared \in BOOLEAN, vmm_cow_break(p, shared)
      PROVE  /\ Base' /\ UNCHANGED <<boot, tree, live, fd, handle, listed>>
             /\ \E q \in Procs : Remaps(q)
  <2>1. up(p) /\ UNCHANGED <<boot, tree, live, fd, handle, listed>>
    BY <1>5 DEF vmm_cow_break
  <2> QED
    BY <1>1, <1>5, <2>1, BreakRemaps
<1> QED
  BY <1>2, <1>3, <1>4, <1>5 DEF MemoryNext

\* process_fork keeps Base: the child has an empty table and the parent's list.
LEMMA ForkBase ==
    ASSUME Base, NEW p \in Procs, NEW q \in Procs, process_fork(p, q)
    PROVE  /\ Base' /\ Clears(q) /\ q # p
           /\ fbmaps'[p] = cow_first(fbmaps[p], Len(fbmaps[p])) /\ fbmaps'[q] = cloned(fbmaps[p])
           /\ \A o \in Procs : o # p /\ o # q => fbmaps'[o] = fbmaps[o]
           /\ fbpte'[q] = fbpte[p] /\ \A o \in Procs : o # q => fbpte'[o] = fbpte[o]
<1> DEFINE l == fbmaps[p]
           parent == cow_first(l, Len(l))
           child == cloned(l)
<1>1. Clears(q)
  BY BaseTypes, ClearIs DEF process_fork
<1>2. /\ live' = live \cup {q} /\ UNCHANGED <<boot, tree, handle, listed>> /\ stage = "user"
      /\ p \in live /\ q \notin live /\ fbpte' = [fbpte EXCEPT ![q] = fbpte[p]]
      /\ fbmaps' = [fbmaps EXCEPT ![p] = parent, ![q] = child]
  BY DEF process_fork, up
<1>3. l \in Seq(Regions) /\ fbmaps \in FbMaps /\ fbpte \in FbEntries
  BY BaseTypes DEF FbMaps
<1>4. parent \in Seq(Regions) /\ child \in Seq(Regions)
  <2> HIDE DEF l
  <2>1. Len(l) \in Int
    BY <1>3, ListIs
  <2> QED
    BY <1>3, <2>1, ListCow, ListClone
<1>5. p # q
  BY <1>2
<1> HIDE DEF parent, child
<1>6. /\ fbmaps' \in FbMaps /\ fbmaps'[p] = parent /\ fbmaps'[q] = child
      /\ \A o \in Procs : o # p /\ o # q => fbmaps'[o] = fbmaps[o]
  BY <1>2, <1>3, <1>4, <1>5 DEF FbMaps
<1>7. /\ fbpte' \in FbEntries /\ fbpte'[q] = fbpte[p]
      /\ \A o \in Procs : o # q => fbpte'[o] = fbpte[o]
  BY <1>2, <1>3 DEF FbEntries
<1>8. TypeOK' /\ archive' \in Archives /\ stage' = stage
  BY <1>1, <1>2, <1>6, <1>7, BaseTypes, CallTyped DEF Clears
<1>9. Base'
  BY <1>1, <1>2, <1>8, BaseTypes, BaseClear DEF Base
<1> QED
  BY <1>1, <1>5, <1>6, <1>7, <1>9 DEF parent, child, l

\* Base holds before boot.
LEMMA BaseInit ==
    ASSUME Init
    PROVE  Base
<1>1. Good(tree)
  BY InitGood DEF Init
<1>2. NoHandle \in HandleType
  BY DEF NoHandle, HandleType
<1>3. fd \in FdTable /\ handle \in [Handles -> HandleType]
  BY <1>2, ClosedIs DEF Init, FdTable
<1>4. fbmaps \in FbMaps /\ fbpte \in FbEntries
      /\ listed \in [Procs -> [FDs -> SUBSET Nodes]] /\ live = {} /\ archive \in Archives
      /\ stage = "vfs" /\ off = 0 /\ bs3 \in BOOLEAN /\ fd = [p \in Procs |-> fresh]
  BY EmptySeq DEF Init, FbMaps, FbEntries
<1>5. TypeOK
  BY <1>3, <1>4 DEF TypeOK, FdTable, FdType, HandleType, FbMaps, FbEntries
<1>6. \A p \in Procs : fd[p] = fresh /\ \A f \in FDs : fd[p][f] = Closed
  BY <1>4, ClosedIs
<1> QED
  BY <1>1, <1>4, <1>5, <1>6 DEF Base

\* The steps of Next, one after the other.
LEMMA NextIs ==
    ASSUME Next
    PROVE  \/ BootNext
           \/ \E p \in Procs : proc_alloc(p)
           \/ \E p \in Procs : process_destroy(p)
           \/ MemoryNext
           \/ \E p \in Procs, q \in Procs : process_fork(p, q)
           \/ \E p \in Procs, path \in UserPaths : sys_open(p, path)
           \/ \E p \in Procs, path \in UserPaths : sys_mkdir(p, path)
           \/ \E p \in Procs, path \in UserPaths : sys_unlink(p, path)
           \/ \E p \in Procs, f \in FDs : sys_close(p, f)
           \/ \E p \in Procs, f \in FDs : sys_ioctl_map(p, f)
           \/ \E p \in Procs, f \in FDs : sys_ioctl_unmap(p, f)
           \/ \E p \in Procs, f \in FDs, whence \in 0 .. 2, by \in -1 .. 1 :
                sys_lseek(p, f, whence, by)
           \/ \E p \in Procs, f \in FDs, len \in Lengths : sys_read(p, f, len)
           \/ \E p \in Procs, f \in FDs, len \in Lengths : sys_getdents(p, f, len)
           \/ \E p \in Procs, f \in FDs, len \in Lengths, memory \in BOOLEAN :
                sys_write(p, f, len, memory)
BY Zenon DEF Next, BootNext, MemoryNext

\* Every step keeps Base.
LEMMA BaseStep ==
    ASSUME Base, [Next]_vars
    PROVE  Base'
<1>1. CASE UNCHANGED vars
  BY <1>1 DEF vars, boot, fbs, Base, TypeOK
<1>2. CASE Next
  <2>1. CASE BootNext
    BY <2>1, BootBase
  <2>2. ASSUME NEW p \in Procs, proc_alloc(p) PROVE Base'
    BY <2>2, AllocBase
  <2>3. ASSUME NEW p \in Procs, process_destroy(p) PROVE Base'
    BY <2>3, DestroyBase
  <2>4. ASSUME NEW p \in Procs, NEW path \in UserPaths, sys_open(p, path) PROVE Base'
    BY <2>4, OpenBase
  <2>5. ASSUME NEW p \in Procs, NEW path \in UserPaths, sys_mkdir(p, path) PROVE Base'
    BY <2>5, MkdirBase
  <2>6. ASSUME NEW p \in Procs, NEW path \in UserPaths, sys_unlink(p, path) PROVE Base'
    BY <2>6, UnlinkBase
  <2>7. ASSUME NEW p \in Procs, NEW f \in FDs, sys_close(p, f) PROVE Base'
    BY <2>7, CloseBase
  <2>8. ASSUME NEW p \in Procs, NEW f \in FDs, sys_ioctl_map(p, f) PROVE Base'
    BY <2>8, MapBase
  <2>9. ASSUME NEW p \in Procs, NEW f \in FDs, sys_ioctl_unmap(p, f) PROVE Base'
    BY <2>9, UnmapBase
  <2>10. ASSUME NEW p \in Procs, NEW f \in FDs, NEW whence \in 0 .. 2, NEW by \in -1 .. 1,
                sys_lseek(p, f, whence, by)
         PROVE  Base'
    BY <2>10, LseekBase
  <2>11. ASSUME NEW p \in Procs, NEW f \in FDs, NEW len \in Lengths, sys_read(p, f, len)
         PROVE  Base'
    BY <2>11, ReadBase
  <2>12. ASSUME NEW p \in Procs, NEW f \in FDs, NEW len \in Lengths, sys_getdents(p, f, len)
         PROVE  Base'
    BY <2>12, GetdentsBase
  <2>13. ASSUME NEW p \in Procs, NEW f \in FDs, NEW len \in Lengths, NEW memory \in BOOLEAN,
                sys_write(p, f, len, memory)
         PROVE  Base'
    BY <2>13, WriteBase
  <2>14. CASE MemoryNext
    BY <2>14, MemoryBase
  <2>15. ASSUME NEW p \in Procs, NEW q \in Procs, process_fork(p, q) PROVE Base'
    BY <2>15, ForkBase
  <2> QED
    BY <1>2, <2>1, <2>2, <2>3, <2>4, <2>5, <2>6, <2>7, <2>8, <2>9, <2>10, <2>11, <2>12, <2>13, <2>14, <2>15, NextIs
<1> QED
  BY <1>1, <1>2

\* Base is an invariant.
LEMMA BaseHolds == Spec => []Base
BY BaseInit, BaseStep, PTL DEF Spec

\* Whatever is unpacked, made, written and removed, in whatever order, and
\* wherever memory runs out, the nodes of vfs.c stay a tree: every node is
\* listed once, by its parent, which is a directory.
THEOREM TreeStaysSound == Spec => []TreeSound
<1>1. Base => TreeSound
  BY DEF Base, Good, TreeSound
<1> QED
  BY <1>1, BaseHolds, PTL
-----------------------------------------------------------------------------
(* The bytes of files.                                                     *)

\* Every step leaves bytes behind all files, if none is a write of nothing to a
\* file of the archive.
LEMMA BytesStep ==
    ASSUME Base, "bare_write" \notin Situations, AllBacked(tree, archive.size), [Next]_vars
    PROVE  AllBacked(tree, archive.size)'
<1> DEFINE Same == tree' = tree /\ archive' = archive
<1>0. Same => AllBacked(tree, archive.size)'
  OBVIOUS
<1>1. CASE UNCHANGED vars
  BY <1>0, <1>1 DEF vars, boot
<1>2. CASE Next
  <2>1. CASE BootNext
    BY <2>1, BootGood
  <2>2. ASSUME NEW p \in Procs, proc_alloc(p) PROVE Same
    BY <2>2 DEF proc_alloc, boot
  <2>3. ASSUME NEW p \in Procs, process_destroy(p) PROVE Same
    BY <2>3 DEF process_destroy, boot
  <2>4. ASSUME NEW p \in Procs, NEW path \in UserPaths, sys_open(p, path) PROVE Same
    BY <2>4 DEF sys_open, boot
  <2>5. ASSUME NEW p \in Procs, NEW path \in UserPaths, sys_mkdir(p, path)
        PROVE  AllBacked(tree, archive.size)'
    <3>1. Grew(tree, tree') /\ archive' = archive
      BY <2>5, MkdirBase DEF sys_mkdir, boot
    <3> QED
      BY <3>1, GrewBacked
  <2>6. ASSUME NEW p \in Procs, NEW path \in UserPaths, sys_unlink(p, path)
        PROVE  AllBacked(tree, archive.size)'
    <3> DEFINE n == vfs_find(tree, path)
    <3>1. tree' = tree \/ Shrunk(tree, tree', n)
      BY <2>6, UnlinkBase
    <3>2. archive' = archive
      BY <2>6 DEF sys_unlink, boot
    <3> HIDE DEF n
    <3>3. CASE Shrunk(tree, tree', n)
      BY <3>2, <3>3 DEF Shrunk, Stays, AllBacked, Backed
    <3> QED
      BY <1>0, <3>1, <3>2, <3>3
  <2>7. ASSUME NEW p \in Procs, NEW f \in FDs, sys_close(p, f) PROVE Same
    BY <2>7 DEF sys_close, boot
  <2>8. ASSUME NEW p \in Procs, NEW f \in FDs, sys_ioctl_map(p, f) PROVE Same
    BY <2>8 DEF sys_ioctl_map, boot
  <2>9. ASSUME NEW p \in Procs, NEW f \in FDs, sys_ioctl_unmap(p, f) PROVE Same
    BY <2>9 DEF sys_ioctl_unmap, boot
  <2>10. ASSUME NEW p \in Procs, NEW f \in FDs, NEW whence \in 0 .. 2, NEW by \in -1 .. 1,
                sys_lseek(p, f, whence, by)
         PROVE  Same
    BY <2>10 DEF sys_lseek, boot
  <2>11. ASSUME NEW p \in Procs, NEW f \in FDs, NEW len \in Lengths, sys_read(p, f, len)
         PROVE  Same
    BY <2>11 DEF sys_read, boot
  <2>12. ASSUME NEW p \in Procs, NEW f \in FDs, NEW len \in Lengths, sys_getdents(p, f, len)
         PROVE  Same
    BY <2>12 DEF sys_getdents, boot
  <2>13. ASSUME NEW p \in Procs, NEW f \in FDs, NEW len \in Lengths, NEW memory \in BOOLEAN,
                sys_write(p, f, len, memory)
         PROVE  AllBacked(tree, archive.size)'
    <3>1. archive' = archive
      BY <2>13 DEF sys_write, boot
    <3> QED
      BY <2>13, <3>1, WriteBase
  <2>14. CASE MemoryNext
    BY <2>14, MemoryBase DEF boot
  <2>15. ASSUME NEW p \in Procs, NEW q \in Procs, process_fork(p, q) PROVE Same
    BY <2>15 DEF process_fork, boot
  <2> HIDE DEF Same
  <2> QED
    BY <1>0, <1>2, <2>1, <2>2, <2>3, <2>4, <2>5, <2>6, <2>7, <2>8, <2>9, <2>10, <2>11, <2>12, <2>13, <2>14, <2>15, NextIs
<1> QED
  BY <1>1, <1>2

\* Behind the size of every file are as many bytes, of the archive or of its
\* own buffer, so sys_read stays within them, unless a write to a file of the
\* archive is empty or finds no memory.
THEOREM BytesExist ==
    ASSUME "bare_write" \notin Situations
    PROVE  Spec => []FilesBacked
<1>1. Init => AllBacked(tree, archive.size)
  <2>1. Init => InTree(tree) = {}
    BY DEF Init, no_tree, InTree
  <2> QED
    BY <2>1 DEF AllBacked
<1>2. Base /\ AllBacked(tree, archive.size) /\ [Next]_vars => AllBacked(tree, archive.size)'
  BY BytesStep
<1>3. AllBacked(tree, archive.size) => FilesBacked
  BY BackedIs
<1> QED
  BY <1>1, <1>2, <1>3, BaseHolds, PTL DEF Spec

-----------------------------------------------------------------------------
(* Listing a directory.                                                    *)

\* What a descriptor has shown lies among the children it counts.
Seen(p, f) ==
    \A c \in listed[p][f] :
        /\ fd[p][f].node \in InTree(tree)
        /\ \E i \in 1 .. Len(tree[fd[p][f].node].children) :
              i <= fd[p][f].offset /\ tree[fd[p][f].node].children[i] = c
Shown == \A p \in Procs, f \in FDs : fd[p][f].used => Seen(p, f)

\* A file was never listed.
LEMMA FileUnseen ==
    ASSUME Base, Shown, NEW p \in Procs, NEW f \in FDs, used(p, f, "file")
    PROVE  listed[p][f] = {}
<1>1. fd[p][f].node \in InTree(tree) /\ tree[fd[p][f].node].type = "file"
  BY UsedIs DEF Types
<1>2. tree[fd[p][f].node].children = <<>>
  BY <1>1, BaseTypes, PlaceIs DEF Lists
<1>3. Len(<<>>) = 0
  OBVIOUS
<1> QED
  BY <1>2, <1>3 DEF Shown, Seen, used

\* What holds of the descriptors a step leaves alone.
LEMMA SeenSame ==
    ASSUME NEW q \in Procs, NEW e \in FDs, fd[q][e].used => Seen(q, e), tree' = tree,
           fd'[q][e] = fd[q][e], listed'[q][e] = listed[q][e]
    PROVE  (fd[q][e].used => Seen(q, e))'
BY DEF Seen

\* Setting a descriptor of a file keeps Shown.
LEMMA ShownSeek ==
    ASSUME Base, Shown, NEW p \in Procs, NEW f \in FDs, used(p, f, "file"),
           NEW y, Puts(p, f, y), UNCHANGED <<tree, listed>>
    PROVE  Shown'
<1> SUFFICES ASSUME NEW q \in Procs, NEW e \in FDs PROVE (fd[q][e].used => Seen(q, e))'
  BY DEF Shown
<1>1. CASE q = p /\ e = f
  BY <1>1, FileUnseen DEF Seen
<1>2. CASE ~(q = p /\ e = f)
  BY <1>2, SeenSame DEF Puts, Shown
<1> QED
  BY <1>1, <1>2
\* Making and writing leave the children where they are, removing moves
\* them up: what was shown stays among those counted.
LEMMA ShownTree ==
    ASSUME Base, Shown, NEW n, UNCHANGED fd, Good(tree'),
           \/ Grew(tree, tree') /\ listed' = listed
           \/ Rewritten(tree, tree') /\ listed' = listed
           \/ /\ tree' = tree \/ Shrunk(tree, tree', n)
              /\ listed' = [q \in Procs |-> [f \in FDs |-> listed[q][f] \ {n}]]
    PROVE  Shown'
<1> SUFFICES ASSUME NEW q \in Procs, NEW e \in FDs, fd[q][e].used,
                    NEW c \in listed'[q][e]
             PROVE  /\ fd[q][e].node \in InTree(tree')
                    /\ \E i \in 1 .. Len(tree'[fd[q][e].node].children) :
                          i <= fd[q][e].offset /\ tree'[fd[q][e].node].children[i] = c
  BY DEF Shown, Seen
<1> DEFINE k == fd[q][e].node
           o == fd[q][e].offset
           s == tree[k].children
<1>1. c \in listed[q][e]
  OBVIOUS
<1>2. k \in InTree(tree)
  BY <1>1 DEF Shown, Seen
<1>3. PICK j \in 1 .. Len(s) : j <= o /\ s[j] = c
  BY <1>1 DEF Shown, Seen
<1>4. Len(s) \in Nat /\ o \in Nat
  <2>1. o \in Nat
    BY FdIs
  <2> HIDE DEF k, o
  <2> QED
    BY <1>2, <2>1, BaseTypes, PlaceIs
<1> HIDE DEF k, o
<1>5. CASE Grew(tree, tree')
  <2>1. k \in InTree(tree') /\ Kept(tree[k], tree'[k])
    BY <1>2, <1>5 DEF Grew
  <2>2. Len(s) <= Len(tree'[k].children) /\ tree'[k].children[j] = c
    BY <1>3, <2>1 DEF Kept
  <2>3. j \in 1 .. Len(tree'[k].children)
    <3>1. Len(tree'[k].children) \in Nat
      BY <2>1, PlaceIs
    <3> QED
      BY <1>3, <1>4, <2>2, <3>1
  <2> QED
    BY <1>3, <2>1, <2>2, <2>3 DEF k, o
<1>6. CASE Rewritten(tree, tree')
  BY <1>2, <1>3, <1>6 DEF Rewritten, SameShape, k, o
<1>7. CASE tree' = tree
  BY <1>2, <1>3, <1>7 DEF k, o
<1>8. CASE Shrunk(tree, tree', n) /\ c # n
  <2>1. k # n
    <3>1. Len(<<>>) = 0
      OBVIOUS
    <3> QED
      BY <1>3, <1>8, <3>1 DEF Shrunk
  <2>2. k \in InTree(tree') /\ Stays(tree[k], tree'[k], n)
    BY <1>2, <1>8, <2>1 DEF Shrunk
  <2>3. PICK i \in 1 .. Len(tree'[k].children) : i <= j /\ tree'[k].children[i] = c
    BY <1>3, <1>8, <2>2 DEF Stays
  <2>4. i <= o
    BY <1>3, <1>4, <2>3
  <2> QED
    BY <2>2, <2>3, <2>4 DEF k, o
<1> QED
  BY <1>5, <1>6, <1>7, <1>8

\* Listing a directory further keeps Shown.
LEMMA ShownGetdents ==
    ASSUME Base, Shown, NEW p \in Procs, NEW f \in FDs, NEW from, NEW to, NEW y,
           Puts(p, f, y), Moved(fd[p][f], y, to), Shows(p, f, from, to), fd[p][f].used, tree' = tree
    PROVE  Shown'
<1> SUFFICES ASSUME NEW q \in Procs, NEW e \in FDs PROVE (fd[q][e].used => Seen(q, e))'
  BY DEF Shown
<1> DEFINE k == fd[p][f].node
           s == tree[k].children
           K == {s[i] : i \in from + 1 .. to}
<1>0. listed \in [Procs -> [FDs -> SUBSET Nodes]] /\ listed' = [listed EXCEPT ![p][f] = @ \cup K]
  BY BaseTypes DEF Shows
<1>1. CASE q = p /\ e = f
  <2>1. fd'[p][f].node = k /\ fd'[p][f].offset = to
    BY DEF Puts, Moved
  <2>2. k \in InTree(tree) /\ from \in Nat /\ to \in Nat /\ from <= to /\ to <= Len(s)
        /\ from = fd[p][f].offset /\ Len(s) \in Nat
    BY BaseTypes, PlaceIs DEF Shows
  <2>3. listed'[p][f] = listed[p][f] \cup K
    <3> HIDE DEF K
    <3> QED
      BY <1>0
  <2>4. ASSUME NEW c \in listed[p][f]
        PROVE  \E i \in 1 .. Len(s) : i <= to /\ s[i] = c
    <3>1. PICK i \in 1 .. Len(s) : i <= from /\ s[i] = c
      BY <2>2 DEF Shown, Seen
    <3> DEFINE L == Len(s)
    <3> HIDE DEF L, s
    <3>2. i <= to
      BY <2>2, <3>1 DEF L
    <3> QED
      BY <3>1, <3>2
  <2>5. ASSUME NEW c \in K PROVE \E i \in 1 .. Len(s) : i <= to /\ s[i] = c
    <3>1. PICK i \in from + 1 .. to : s[i] = c
      OBVIOUS
    <3>2. i \in 1 .. Len(s) /\ i <= to
      BY <2>2
    <3> QED
      BY <3>1, <3>2
  <2> HIDE DEF K
  <2> QED
    BY <1>1, <2>1, <2>2, <2>3, <2>4, <2>5 DEF Seen
<1>2. CASE ~(q = p /\ e = f)
  <2> HIDE DEF K
  <2>1. listed'[q][e] = listed[q][e]
    BY <1>0, <1>2
  <2> QED
    BY <1>2, <2>1, SeenSame DEF Puts, Shown
<1> QED
  BY <1>1, <1>2

\* Every step keeps Shown.
LEMMA ShownStep ==
    ASSUME Base, Shown, [Next]_vars
    PROVE  Shown'
<1>0. Base'
  BY BaseStep
<1>1. CASE UNCHANGED vars
  BY <1>1 DEF vars, boot, fbs, Shown, Seen
<1>2. CASE Next
  <2>1. CASE BootNext
    <3>1. fd' = fd /\ live = {} /\ stage # "user"
      BY <2>1, BootGood DEF Base
    <3>2. \A p \in Procs, f \in FDs : fd[p][f] = Closed
      BY <3>1, ClosedIs DEF Base
    <3> QED
      BY <3>1, <3>2, ClosedIs DEF Shown
  <2>2. ASSUME NEW p \in Procs, proc_alloc(p) PROVE Shown'
    <3>1. Clears(p) /\ tree' = tree /\ listed' = listed
      BY <2>2, AllocBase DEF proc_alloc
    <3> SUFFICES ASSUME NEW q \in Procs, NEW e \in FDs PROVE (fd[q][e].used => Seen(q, e))'
      BY DEF Shown
    <3>2. CASE q = p
      BY <3>1, <3>2, ClosedIs DEF Clears
    <3>3. CASE q # p
      BY <3>1, <3>3, SeenSame DEF Clears, Shown
    <3> QED
      BY <3>2, <3>3
  <2>3. ASSUME NEW p \in Procs, process_destroy(p) PROVE Shown'
    <3>1. Clears(p) /\ tree' = tree /\ listed' = [listed EXCEPT ![p] = [f \in FDs |-> {}]]
      BY <2>3, DestroyBase DEF process_destroy
    <3> SUFFICES ASSUME NEW q \in Procs, NEW e \in FDs PROVE (fd[q][e].used => Seen(q, e))'
      BY DEF Shown
    <3>2. CASE q = p
      BY <3>1, <3>2, ClosedIs DEF Clears
    <3>3. CASE q # p
      <4>1. listed'[q][e] = listed[q][e]
        BY <3>1, <3>3, BaseTypes
      <4> QED
        BY <3>1, <3>3, <4>1, SeenSame DEF Clears, Shown
    <3> QED
      BY <3>2, <3>3
  <2>4. ASSUME NEW p \in Procs, NEW path \in UserPaths, sys_open(p, path) PROVE Shown'
    <3>1. PICK f, n, h : Opens(p, f, n, h)
      BY <2>4, OpenBase
    <3> DEFINE x == [used |-> TRUE, node |-> n, offset |-> 0, handle |-> h]
    <3>2. f \in FDs /\ Puts(p, f, x) /\ tree' = tree /\ listed' = [listed EXCEPT ![p][f] = {}]
      BY <3>1 DEF Opens
    <3> HIDE DEF x
    <3> SUFFICES ASSUME NEW q \in Procs, NEW e \in FDs PROVE (fd[q][e].used => Seen(q, e))'
      BY DEF Shown
    <3>3. CASE q = p /\ e = f
      <4>1. listed'[q][e] = {}
        BY <3>2, <3>3, BaseTypes
      <4> QED
        BY <4>1 DEF Seen
    <3>4. CASE ~(q = p /\ e = f)
      <4>1. listed'[q][e] = listed[q][e]
        BY <3>2, <3>4, BaseTypes
      <4> QED
        BY <3>2, <3>4, <4>1, SeenSame DEF Puts, Shown
    <3> QED
      BY <3>3, <3>4
  <2>5. ASSUME NEW p \in Procs, NEW path \in UserPaths, sys_mkdir(p, path) PROVE Shown'
    <3>1. Good(tree') /\ Grew(tree, tree') /\ listed' = listed /\ fd' = fd
      BY <1>0, <2>5, MkdirBase DEF sys_mkdir, Base
    <3> QED
      BY <3>1, ShownTree
  <2>6. ASSUME NEW p \in Procs, NEW path \in UserPaths, sys_unlink(p, path) PROVE Shown'
    <3> DEFINE n == vfs_find(tree, path)
    <3>1. tree' = tree \/ Shrunk(tree, tree', n)
      BY <2>6, UnlinkBase
    <3>2. Good(tree') /\ fd' = fd /\ listed' = [q \in Procs |-> [f \in FDs |-> listed[q][f] \ {n}]]
      BY <1>0, <2>6 DEF sys_unlink, Base
    <3> HIDE DEF n
    <3> QED
      BY <3>1, <3>2, ShownTree
  <2>7. ASSUME NEW p \in Procs, NEW f \in FDs, sys_close(p, f) PROVE Shown'
    <3>1. Puts(p, f, Closed) /\ tree' = tree /\ listed' = listed
      BY <2>7, CloseBase
    <3> SUFFICES ASSUME NEW q \in Procs, NEW e \in FDs PROVE (fd[q][e].used => Seen(q, e))'
      BY DEF Shown
    <3>2. CASE q = p /\ e = f
      BY <3>1, <3>2, ClosedIs DEF Puts
    <3>3. CASE ~(q = p /\ e = f)
      BY <3>1, <3>3, SeenSame DEF Puts, Shown
    <3> QED
      BY <3>2, <3>3
  <2>8. ASSUME NEW p \in Procs, NEW f \in FDs, sys_ioctl_map(p, f) PROVE Shown'
    BY <2>8 DEF sys_ioctl_map, Shown, Seen
  <2>9. ASSUME NEW p \in Procs, NEW f \in FDs, sys_ioctl_unmap(p, f) PROVE Shown'
    BY <2>9 DEF sys_ioctl_unmap, Shown, Seen
  <2>10. ASSUME NEW p \in Procs, NEW f \in FDs, NEW whence \in 0 .. 2, NEW by \in -1 .. 1,
                sys_lseek(p, f, whence, by)
         PROVE  Shown'
    <3>1. used(p, f, "file") /\ \E y : Puts(p, f, y)
      BY <2>10, LseekBase
    <3>2. UNCHANGED <<tree, listed>>
      BY <2>10 DEF sys_lseek
    <3> QED
      BY <3>1, <3>2, ShownSeek
  <2>11. ASSUME NEW p \in Procs, NEW f \in FDs, NEW len \in Lengths, sys_read(p, f, len)
         PROVE  Shown'
    <3>1. used(p, f, "file") /\ \E y : Puts(p, f, y)
      BY <2>11, ReadBase
    <3>2. UNCHANGED <<tree, listed>>
      BY <2>11 DEF sys_read
    <3> QED
      BY <3>1, <3>2, ShownSeek
  <2>12. ASSUME NEW p \in Procs, NEW f \in FDs, NEW len \in Lengths, sys_getdents(p, f, len)
         PROVE  Shown'
    <3>1. PICK from \in Nat, to \in Nat, y \in FdType :
              Puts(p, f, y) /\ Moved(fd[p][f], y, to) /\ Shows(p, f, from, to)
      BY <2>12, GetdentsBase
    <3>2. fd[p][f].used /\ tree' = tree
      BY <2>12, GetdentsBase DEF used
    <3> QED
      BY <3>1, <3>2, ShownGetdents
  <2>13. ASSUME NEW p \in Procs, NEW f \in FDs, NEW len \in Lengths, NEW memory \in BOOLEAN,
                sys_write(p, f, len, memory)
         PROVE  Shown'
    <3>1. Good(tree') /\ Rewritten(tree, tree') /\ listed' = listed /\ fd' = fd
      BY <1>0, <2>13, WriteBase DEF sys_write, Base
    <3> QED
      BY <3>1, ShownTree
  <2>14. CASE MemoryNext
    <3>1. UNCHANGED <<tree, fd, listed>>
      BY <2>14, MemoryBase
    <3> QED
      BY <3>1 DEF Shown, Seen
  <2>15. ASSUME NEW p \in Procs, NEW q \in Procs, process_fork(p, q) PROVE Shown'
    <3>1. Clears(q) /\ tree' = tree /\ listed' = listed
      BY <2>15, ForkBase DEF process_fork
    <3> SUFFICES ASSUME NEW o \in Procs, NEW e \in FDs PROVE (fd[o][e].used => Seen(o, e))'
      BY DEF Shown
    <3>2. CASE o = q
      BY <3>1, <3>2, ClosedIs DEF Clears
    <3>3. CASE o # q
      BY <3>1, <3>3, SeenSame DEF Clears, Shown
    <3> QED
      BY <3>2, <3>3
  <2> QED
    BY <1>2, <2>1, <2>2, <2>3, <2>4, <2>5, <2>6, <2>7, <2>8, <2>9, <2>10, <2>11, <2>12, <2>13, <2>14, <2>15, NextIs
<1> QED
  BY <1>1, <1>2
\* What a step shows through a descriptor was not shown before.
OnceIn(p, f) ==
    used(p, f, "directory") /\ fd'[p][f].offset > fd[p][f].offset =>
       LET kids == tree[fd[p][f].node].children
       IN  {kids[i] : i \in fd[p][f].offset + 1 .. fd'[p][f].offset} \cap listed[p][f] = {}

\* Only getdents moves the offset of a directory on.
LEMMA OnlyGetdents ==
    ASSUME Base, Next, NEW q \in Procs, NEW e \in FDs, used(q, e, "directory"),
           fd'[q][e].offset > fd[q][e].offset
    PROVE  \E len \in Lengths : sys_getdents(q, e, len)
<1> DEFINE Same == fd'[q][e].offset = fd[q][e].offset \/ fd'[q][e].offset = 0
<1>0. ~Same
  <2> DEFINE a == fd'[q][e].offset
             b == fd[q][e].offset
  <2>1. b \in Nat /\ a > b
    BY FdIs
  <2> HIDE DEF a, b
  <2>2. ~(a = b \/ a = 0)
    BY <2>1
  <2> QED
    BY <2>2 DEF a, b
<1>1. CASE BootNext
  <2>1. fd' = fd
    BY <1>1, BootGood
  <2> QED
    BY <1>0, <2>1
<1>2. ASSUME NEW p \in Procs, proc_alloc(p) PROVE FALSE
  <2>1. Clears(p)
    BY <1>2, AllocBase
  <2> QED
    BY <1>0, <2>1, ClosedIs DEF Clears
<1>3. ASSUME NEW p \in Procs, process_destroy(p) PROVE FALSE
  <2>1. Clears(p)
    BY <1>3, DestroyBase
  <2> QED
    BY <1>0, <2>1, ClosedIs DEF Clears
<1>4. ASSUME NEW p \in Procs, NEW path \in UserPaths, sys_open(p, path) PROVE FALSE
  <2>1. PICK f, n, h : Opens(p, f, n, h)
    BY <1>4, OpenBase
  <2> DEFINE x == [used |-> TRUE, node |-> n, offset |-> 0, handle |-> h]
  <2>2. f \in FDs /\ Puts(p, f, x) /\ x.offset = 0
    BY <2>1 DEF Opens
  <2> HIDE DEF x
  <2> QED
    BY <1>0, <2>2 DEF Puts
<1>5. ASSUME NEW p \in Procs, NEW path \in UserPaths, sys_mkdir(p, path) PROVE FALSE
  BY <1>0, <1>5 DEF sys_mkdir
<1>6. ASSUME NEW p \in Procs, NEW path \in UserPaths, sys_unlink(p, path) PROVE FALSE
  BY <1>0, <1>6 DEF sys_unlink
<1>7. ASSUME NEW p \in Procs, NEW f \in FDs, sys_close(p, f) PROVE FALSE
  <2>1. Puts(p, f, Closed)
    BY <1>7, CloseBase
  <2> QED
    BY <1>0, <2>1, ClosedIs DEF Puts
<1>8. ASSUME NEW p \in Procs, NEW f \in FDs, sys_ioctl_map(p, f) PROVE FALSE
  BY <1>0, <1>8 DEF sys_ioctl_map
<1>9. ASSUME NEW p \in Procs, NEW f \in FDs, sys_ioctl_unmap(p, f) PROVE FALSE
  BY <1>0, <1>9 DEF sys_ioctl_unmap
<1>10. ASSUME NEW p \in Procs, NEW f \in FDs, used(p, f, "file"), NEW y, Puts(p, f, y) PROVE FALSE
  <2>1. ~(q = p /\ e = f)
    BY <1>10 DEF used, is
  <2> QED
    BY <1>0, <1>10, <2>1 DEF Puts
<1>11. ASSUME NEW p \in Procs, NEW f \in FDs, NEW whence \in 0 .. 2, NEW by \in -1 .. 1,
              sys_lseek(p, f, whence, by)
       PROVE  FALSE
  BY <1>10, <1>11, LseekBase
<1>12. ASSUME NEW p \in Procs, NEW f \in FDs, NEW len \in Lengths, sys_read(p, f, len) PROVE FALSE
  BY <1>10, <1>12, ReadBase
<1>13. ASSUME NEW p \in Procs, NEW f \in FDs, NEW len \in Lengths, sys_getdents(p, f, len)
       PROVE  p = q /\ f = e
  <2>1. \E y : Puts(p, f, y)
    BY <1>13, GetdentsBase
  <2> QED
    BY <1>0, <2>1 DEF Puts
<1>14. ASSUME NEW p \in Procs, NEW f \in FDs, NEW len \in Lengths, NEW memory \in BOOLEAN,
              sys_write(p, f, len, memory)
       PROVE  FALSE
  BY <1>0, <1>14 DEF sys_write
<1>15. CASE MemoryNext
  <2>1. fd' = fd
    BY <1>15, MemoryBase
  <2> QED
    BY <1>0, <2>1
<1>16. ASSUME NEW p \in Procs, NEW o \in Procs, process_fork(p, o) PROVE FALSE
  <2>1. Clears(o)
    BY <1>16, ForkBase
  <2> QED
    BY <1>0, <2>1, ClosedIs DEF Clears
<1> HIDE DEF Same
<1> QED
  BY <1>1, <1>2, <1>3, <1>4, <1>5, <1>6, <1>7, <1>8, <1>9, <1>11, <1>12, <1>13, <1>14, <1>15, <1>16, NextIs

\* No step lists a child that its descriptor has listed before.
LEMMA OnceStep ==
    ASSUME Base, Shown, Next, NEW p \in Procs, NEW f \in FDs
    PROVE  OnceIn(p, f)
<1> SUFFICES ASSUME used(p, f, "directory"), fd'[p][f].offset > fd[p][f].offset
             PROVE  {tree[fd[p][f].node].children[i] : i \in fd[p][f].offset + 1 .. fd'[p][f].offset}
                        \cap listed[p][f] = {}
  BY DEF OnceIn
<1> DEFINE k == fd[p][f].node
           s == tree[k].children
           L == Len(s)
<1>1. PICK len \in Lengths : sys_getdents(p, f, len)
  BY OnlyGetdents
<1>2. PICK from \in Nat, to \in Nat, y \in FdType :
          Puts(p, f, y) /\ Moved(fd[p][f], y, to) /\ Shows(p, f, from, to)
  BY <1>1, GetdentsBase
<1>3. fd[p][f].offset = from /\ fd'[p][f].offset = to /\ k \in InTree(tree) /\ to <= L
  BY <1>2 DEF Puts, Moved, Shows
<1>4. L \in Nat /\ \A i, j \in 1 .. L : i # j => s[i] # s[j]
  <2> HIDE DEF k
  <2>1. Lists(tree, k) /\ L \in Nat
    BY <1>3, BaseTypes, PlaceIs
  <2> QED
    BY <2>1 DEF Lists
<1>5. \A c \in listed[p][f] : \E j \in 1 .. L : j <= from /\ s[j] = c
  BY <1>3 DEF Shown, Seen, used
<1> HIDE DEF s, L
<1>6. ASSUME NEW i \in from + 1 .. to, s[i] \in listed[p][f] PROVE FALSE
  <2>1. PICK j \in 1 .. L : j <= from /\ s[j] = s[i]
    BY <1>5, <1>6
  <2>2. i \in 1 .. L /\ i # j
    BY <1>3, <1>4, <2>1
  <2> QED
    BY <1>4, <2>1, <2>2
<1> QED
  BY <1>3, <1>6 DEF s

\* Between opening and closing a directory sys_getdents shows no child twice,
\* however calls of other processes add and remove children in between.
THEOREM ListsOnce == Spec => ListedOnce
<1>1. Init => Shown
  <2>1. Init => Base
    BY BaseInit
  <2>2. Init => \A p \in Procs, f \in FDs : fd[p][f] = Closed
    BY ClosedIs DEF Init
  <2> QED
    BY <2>2, ClosedIs DEF Shown
<1>2. Base /\ Shown /\ [Next]_vars => Shown'
  BY ShownStep
<1>3. Base /\ Shown /\ [Next]_vars => [\A p \in Procs, f \in FDs :
          used(p, f, "directory") /\ fd'[p][f].offset > fd[p][f].offset =>
             LET kids == tree[fd[p][f].node].children
             IN  {kids[i] : i \in fd[p][f].offset + 1 .. fd'[p][f].offset}
                    \cap listed[p][f] = {}]_vars
  BY OnceStep DEF OnceIn
<1> QED
  BY <1>1, <1>2, <1>3, BaseHolds, PTL DEF Spec, ListedOnce
-----------------------------------------------------------------------------
(* Descriptors and handles.                                                *)

\* A descriptor in use: its node, and its handle when the node is fb0.
Refers(p, f) ==
    /\ p \in live /\ fd[p][f].node \in InTree(tree)
    /\ is_fb0(fd[p][f].node) <=> fd[p][f].handle # NULL
    /\ fd[p][f].handle # NULL =>
         /\ handle[fd[p][f].handle].used /\ handle[fd[p][f].handle].owner = p
         /\ ~handle[fd[p][f].handle].orphan

\* The regions of the backbuffer that a process made are among the first so
\* many as it has handles that say mapped: each unmapping takes the first.
Mapping(p) ==
    /\ OwnFirst(fbmaps[p], Cardinality(drawing(p)))
    /\ fbpte[p] = "fb" => HasFb(fbmaps[p])

OpenInv ==
    /\ \A p \in Procs, f \in FDs : fd[p][f].used => Refers(p, f)
    /\ \A p, q \in Procs, e, f \in FDs :
         fd[p][e].handle # NULL /\ fd[q][f].handle = fd[p][e].handle => p = q /\ e = f
    /\ \A h \in Handles : handle[h].used /\ ~handle[h].orphan =>
         \E p \in Procs, f \in FDs : fd[p][f].handle = h
    /\ \A p \in Procs : Mapping(p)

\* A process has finitely many handles.
LEMMA DrawingIs ==
    ASSUME NEW p
    PROVE  IsFiniteSet(drawing(p)) /\ Cardinality(drawing(p)) \in Nat
<1>1. drawing(p) \in SUBSET Handles
  BY DEF drawing
<1>2. IsFiniteSet(Handles)
  BY FilesAssumption
<1> QED
  BY <1>1, <1>2, FS_Subset, FS_CardinalityType

\* OpenInv gives what programs rely on.
LEMMA OpenImplies ==
    ASSUME Base, OpenInv
    PROVE  OpenFilesSound
<1>1. TypeOK
  BY DEF Base
<1>2. ASSUME NEW h \in Handles, handle[h].used, ~handle[h].orphan
      PROVE  Cardinality({x \in Procs \X FDs : fd[x[1]][x[2]].handle = h}) = 1
  <2>1. PICK p \in Procs, f \in FDs : fd[p][f].handle = h
    BY <1>2 DEF OpenInv
  <2>2. h # NULL
    BY FilesAssumption DEF NULL
  <2>3. \A q \in Procs, e \in FDs : fd[q][e].handle = h => q = p /\ e = f
    BY <2>1, <2>2 DEF OpenInv
  <2>4. {x \in Procs \X FDs : fd[x[1]][x[2]].handle = h} = {<<p, f>>}
    BY <2>1, <2>3
  <2> QED
    BY <2>4, FS_Singleton
<1>3. HandlesOwned
  BY <1>2 DEF HandlesOwned, OpenInv, Refers
<1>4. ASSUME NEW p \in Procs
      PROVE  /\ Cardinality({i \in DOMAIN fbmaps[p] : fbmaps[p][i].fb /\ fbmaps[p][i].own})
                  <= Cardinality(drawing(p))
             /\ fbpte[p] = "fb" => \E i \in DOMAIN fbmaps[p] : fbmaps[p][i].fb
  <2> DEFINE l == fbmaps[p]
             c == Cardinality(drawing(p))
             S == {i \in DOMAIN l : l[i].fb /\ l[i].own}
  <2>1. OwnFirst(l, c) /\ (fbpte[p] = "fb" => HasFb(l))
    BY DEF OpenInv, Mapping
  <2>2. l \in Seq(Regions) /\ c \in Nat
    BY BaseTypes, DrawingIs DEF FbMaps
  <2> HIDE DEF l, c
  <2>3. DOMAIN l = 1 .. Len(l) /\ Len(l) \in Nat
    BY <2>2, ListIs
  <2>4. S \in SUBSET (1 .. c)
    BY <2>1, <2>2, <2>3 DEF OwnFirst
  <2>5. IsFiniteSet(1 .. c) /\ Cardinality(1 .. c) = c
    BY <2>2, FS_Interval
  <2> HIDE DEF S
  <2>6. Cardinality(S) <= c
    BY <2>4, <2>5, FS_Subset
  <2> QED
    BY <2>1, <2>3, <2>6 DEF HasFb, S, l, c
<1>5. MappingReleased
  BY <1>4 DEF MappingReleased
<1> QED
  BY <1>1, <1>3, <1>5 DEF OpenFilesSound

\* Who has a handle.
LEMMA HasHandle ==
    ASSUME Base, OpenInv, NEW p \in Procs, NEW f \in FDs, fd[p][f].handle # NULL
    PROVE  /\ fd[p][f].handle \in Handles /\ fd[p][f].used /\ Refers(p, f)
<1>1. fd[p][f].used
  BY ClosedIs DEF Base
<1> QED
  BY <1>1, FdIs DEF OpenInv

\* What a descriptor refers to lasts through a step that leaves the
\* handles alone.
LEMMA OpenTree ==
    ASSUME Base, OpenInv, UNCHANGED fbs, live \subseteq live',
           \A p \in Procs, f \in FDs : fd'[p][f] = fd[p][f],
           \A p \in Procs, f \in FDs : fd[p][f].used =>
               LET n == fd[p][f].node IN
               n \in InTree(tree') /\ tree'[n].type = tree[n].type /\ tree'[n].device = tree[n].device
    PROVE  OpenInv'
<1>1. handle' = handle /\ fbmaps' = fbmaps /\ fbpte' = fbpte
  BY DEF fbs
<1>2. ASSUME NEW p \in Procs, NEW f \in FDs, fd'[p][f].used PROVE Refers(p, f)'
  <2>1. Refers(p, f) /\ fd'[p][f] = fd[p][f] /\ fd[p][f].used
    BY <1>2 DEF OpenInv
  <2> QED
    BY <1>1, <2>1 DEF Refers, is_fb0, is
<1>3. \A p \in Procs : Mapping(p)' <=> Mapping(p)
  BY <1>1 DEF Mapping, drawing
<1> QED
  BY <1>1, <1>2, <1>3 DEF OpenInv

\* Moving an offset keeps OpenInv.
LEMMA OpenMove ==
    ASSUME Base, OpenInv, NEW p \in Procs, NEW f \in FDs, NEW y, NEW v, Puts(p, f, y),
           Moved(fd[p][f], y, v), UNCHANGED <<tree, live, fbs>>
    PROVE  OpenInv'
<1>1. handle' = handle /\ fbmaps' = fbmaps /\ fbpte' = fbpte
  BY DEF fbs
<1>2. \A q \in Procs, e \in FDs : /\ fd'[q][e].used = fd[q][e].used
                                  /\ fd'[q][e].node = fd[q][e].node
                                  /\ fd'[q][e].handle = fd[q][e].handle
  BY DEF Puts, Moved
<1>3. \A q \in Procs : Mapping(q)' <=> Mapping(q)
  BY <1>1 DEF Mapping, drawing
<1>4. ASSUME NEW q \in Procs, NEW e \in FDs, fd'[q][e].used PROVE Refers(q, e)'
  <2>1. Refers(q, e)
    BY <1>2, <1>4 DEF OpenInv
  <2> QED
    BY <1>1, <1>2, <2>1 DEF Refers, is_fb0, is
<1> QED
  BY <1>1, <1>2, <1>3, <1>4 DEF OpenInv

\* sys_open keeps OpenInv.
LEMMA OpenOpen ==
    ASSUME Base, OpenInv, NEW p \in Procs, p \in live, NEW f, NEW n, NEW h, Opens(p, f, n, h)
    PROVE  OpenInv'
<1> DEFINE x == [used |-> TRUE, node |-> n, offset |-> 0, handle |-> h]
           w == [used |-> TRUE, owner |-> p, mapped |-> FALSE, orphan |-> FALSE]
<1>1. /\ f \in FDs /\ n \in InTree(tree) /\ h \in Handles \cup {NULL} /\ Puts(p, f, x)
      /\ UNCHANGED <<tree, live, fbmaps, fbpte>> /\ ~fd[p][f].used
  BY DEF Opens
<1>2. x.used /\ x.node = n /\ x.handle = h /\ w.used /\ w.owner = p /\ ~w.orphan /\ ~w.mapped
  OBVIOUS
<1>3. fd[p][f].handle = NULL
  BY <1>1, ClosedIs DEF Base
<1>4. NULL \notin Handles
  BY FilesAssumption DEF NULL
<1>5. /\ is_fb0(n) <=> h # NULL
      /\ h # NULL => h \in Handles /\ ~handle[h].used /\ handle'[h] = w
      /\ \A g \in Handles : g # h => handle'[g] = handle[g]
  BY <1>4, BaseTypes DEF Opens
<1> HIDE DEF x, w
<1>6. \A q \in Procs, e \in FDs : h # NULL => fd[q][e].handle # h
  <2> SUFFICES ASSUME NEW q \in Procs, NEW e \in FDs, h # NULL, fd[q][e].handle = h PROVE FALSE
    OBVIOUS
  <2>1. Refers(q, e)
    BY HasHandle
  <2> QED
    BY <1>5, <2>1 DEF Refers
<1>7. \A q \in Procs, e \in FDs :
        fd'[q][e] = IF q = p /\ e = f THEN x ELSE fd[q][e]
  BY <1>1 DEF Puts
<1>8. ASSUME NEW q \in Procs, NEW e \in FDs, fd'[q][e].used PROVE Refers(q, e)'
  <2>1. CASE q = p /\ e = f
    BY <1>1, <1>2, <1>5, <1>7, <2>1 DEF Refers, is_fb0, is
  <2>2. CASE ~(q = p /\ e = f)
    <3>1. fd'[q][e] = fd[q][e] /\ Refers(q, e)
      BY <1>7, <1>8, <2>2 DEF OpenInv
    <3>2. fd[q][e].handle # NULL => fd[q][e].handle \in Handles /\ fd[q][e].handle # h
      BY <1>6, HasHandle
    <3>3. fd[q][e].handle # NULL => handle'[fd[q][e].handle] = handle[fd[q][e].handle]
      BY <1>5, <3>2
    <3> QED
      BY <1>1, <3>1, <3>3 DEF Refers, is_fb0, is
  <2> QED
    BY <2>1, <2>2
<1>9. ASSUME NEW a \in Procs, NEW b \in Procs, NEW d \in FDs, NEW e \in FDs,
             fd'[a][d].handle # NULL, fd'[b][e].handle = fd'[a][d].handle
      PROVE  a = b /\ d = e
  BY <1>2, <1>6, <1>7, <1>9 DEF OpenInv
<1>10. ASSUME NEW g \in Handles, handle'[g].used, ~handle'[g].orphan
       PROVE  \E q \in Procs, e \in FDs : fd'[q][e].handle = g
  <2>1. CASE g = h
    BY <1>1, <1>2, <1>7, <2>1
  <2>2. CASE g # h
    <3>1. PICK q \in Procs, e \in FDs : fd[q][e].handle = g
      BY <1>5, <1>10, <2>2 DEF OpenInv
    <3>2. ~(q = p /\ e = f)
      BY <1>3, <1>4, <3>1
    <3> QED
      BY <1>7, <3>1, <3>2
  <2> QED
    BY <2>1, <2>2
<1>11. ASSUME NEW q \in Procs PROVE drawing(q)' = drawing(q)
  <2>1. ASSUME NEW g \in Handles PROVE g \in drawing(q)' <=> g \in drawing(q)
    <3>1. CASE g = h
      <4>1. g \notin drawing(q)
        BY <1>4, <1>5, <3>1 DEF drawing
      <4>2. g \notin drawing(q)'
        BY <1>2, <1>4, <1>5, <3>1 DEF drawing
      <4> QED
        BY <4>1, <4>2
    <3>2. CASE g # h
      BY <1>5, <3>2 DEF drawing
    <3> QED
      BY <3>1, <3>2
  <2> QED
    BY <2>1 DEF drawing
<1>12. \A q \in Procs : Mapping(q)' <=> Mapping(q)
  BY <1>1, <1>11 DEF Mapping
<1> QED
  BY <1>1, <1>8, <1>9, <1>10, <1>12 DEF OpenInv

\* The mapping after a handle of the process was unmapped or closed.
LEMMA UnmapDrawing ==
    ASSUME Base, OpenInv, NEW p \in Procs, NEW h \in drawing(p), unmapped(p, TRUE),
           \A g \in Handles : g # h => handle'[g] = handle[g],
           \A q \in Procs : h \notin drawing(q)'
    PROVE  \A q \in Procs : Mapping(q)'
<1>1. Remaps(p) /\ \A c \in Nat \ {0} : OwnFirst(fbmaps[p], c) => OwnFirst(fbmaps'[p], c - 1)
  BY UnmapRemaps
<1>2. \A q \in Procs, g \in Handles : g # h => (g \in drawing(q)' <=> g \in drawing(q))
  BY DEF drawing
<1>3. drawing(p)' = drawing(p) \ {h}
  BY <1>2 DEF drawing
<1>4. \A q \in Procs : q # p => h \notin drawing(q)
  BY DEF drawing
<1>5. \A q \in Procs : q # p => drawing(q)' = drawing(q)
  BY <1>2, <1>4 DEF drawing
<1> DEFINE D == drawing(p)
<1>6. IsFiniteSet(D) /\ Cardinality(D) \in Nat /\ h \in D
  BY DrawingIs
<1> HIDE DEF D
<1>7. Cardinality(D \ {h}) = Cardinality(D) - 1 /\ IsFiniteSet(D \ {h})
  BY <1>6, FS_RemoveElement
<1>8. Cardinality(D \ {h}) \in Nat
  BY <1>7, FS_CardinalityType
<1>9. Cardinality(D) \in Nat \ {0}
  BY <1>6, <1>7, <1>8
<1>10. OwnFirst(fbmaps'[p], Cardinality(drawing(p)'))
  <2>1. OwnFirst(fbmaps[p], Cardinality(D))
    BY DEF OpenInv, Mapping, D
  <2>2. OwnFirst(fbmaps'[p], Cardinality(D) - 1)
    BY <1>1, <1>9, <2>1
  <2>3. Cardinality(drawing(p)') = Cardinality(D) - 1
    BY <1>3, <1>7 DEF D
  <2> QED
    BY <2>2, <2>3
<1>11. Mapping(p)'
  BY <1>1, <1>10 DEF Mapping, Remaps, OpenInv
<1>12. ASSUME NEW q \in Procs, q # p PROVE Mapping(q)'
  BY <1>1, <1>5, <1>12 DEF Mapping, Remaps, OpenInv
<1> QED
  BY <1>11, <1>12

\* sys_close keeps OpenInv.
LEMMA OpenClose ==
    ASSUME Base, OpenInv, NEW p \in Procs, NEW f \in FDs, sys_close(p, f)
    PROVE  OpenInv'
<1> DEFINE h == fd[p][f].handle
<1>1. Puts(p, f, Closed) /\ UNCHANGED <<tree, live>> /\ fd[p][f].used
  BY CloseBase DEF sys_close
<1>2. \A q \in Procs, e \in FDs : fd'[q][e] = IF q = p /\ e = f THEN Closed ELSE fd[q][e]
  BY <1>1 DEF Puts
<1>3. Refers(p, f)
  BY <1>1 DEF OpenInv
<1>4. is_fb0(fd[p][f].node) <=> h # NULL
  BY <1>3 DEF Refers
<1>5. \A g \in Handles : g # h => handle'[g] = handle[g]
  BY BaseTypes DEF sys_close, fbs
<1>6. h # NULL => h \in Handles /\ handle'[h] = NoHandle
  BY <1>4, BaseTypes, HasHandle DEF sys_close
<1>7. NULL \notin Handles /\ ~NoHandle.used
  BY FilesAssumption DEF NULL, NoHandle
<1>8. ASSUME NEW q \in Procs, NEW e \in FDs, fd'[q][e].used PROVE Refers(q, e)'
  <2>1. ~(q = p /\ e = f) /\ fd'[q][e] = fd[q][e] /\ Refers(q, e)
    BY <1>2, <1>8, ClosedIs DEF OpenInv
  <2>2. fd[q][e].handle # NULL => fd[q][e].handle \in Handles /\ fd[q][e].handle # h
    BY <2>1, HasHandle DEF OpenInv
  <2>3. fd[q][e].handle # NULL => handle'[fd[q][e].handle] = handle[fd[q][e].handle]
    BY <1>5, <2>2
  <2> QED
    BY <1>1, <2>1, <2>3 DEF Refers, is_fb0, is
<1>9. ASSUME NEW a \in Procs, NEW b \in Procs, NEW d \in FDs, NEW e \in FDs,
             fd'[a][d].handle # NULL, fd'[b][e].handle = fd'[a][d].handle
      PROVE  a = b /\ d = e
  BY <1>2, <1>9, ClosedIs DEF OpenInv
<1>10. ASSUME NEW g \in Handles, handle'[g].used, ~handle'[g].orphan
       PROVE  \E q \in Procs, e \in FDs : fd'[q][e].handle = g
  <2>1. g # h
    BY <1>6, <1>7, <1>10
  <2>2. PICK q \in Procs, e \in FDs : fd[q][e].handle = g
    BY <1>5, <1>10, <2>1 DEF OpenInv
  <2>3. ~(q = p /\ e = f)
    BY <2>1, <2>2
  <2> QED
    BY <1>2, <2>2, <2>3
<1>11. \A q \in Procs : Mapping(q)'
  <2>1. CASE h = NULL
    <3>1. handle' = handle /\ fbmaps' = fbmaps /\ fbpte' = fbpte
      BY <1>4, <2>1 DEF sys_close, fbs
    <3>2. \A q \in Procs : Mapping(q)' <=> Mapping(q)
      BY <3>1 DEF Mapping, drawing
    <3> QED
      BY <3>1, <3>2 DEF OpenInv
  <2>2. CASE h # NULL
    <3>1. unmapped(p, handle[h].mapped) /\ handle[h].used /\ handle[h].owner = p /\ ~handle[h].orphan
      BY <1>3, <1>4, <2>2 DEF sys_close, Refers
    <3>2. \A q \in Procs : h \notin drawing(q)'
      BY <1>6, <1>7, <2>2 DEF drawing
    <3>3. handle[h].mapped \in BOOLEAN
      BY <1>6, <2>2, BaseTypes DEF HandleType
    <3>4. CASE handle[h].mapped = TRUE
      <4>1. h \in drawing(p)
        BY <1>6, <2>2, <3>1, <3>4 DEF drawing
      <4>2. unmapped(p, TRUE)
        BY <3>1, <3>4
      <4> QED
        BY <1>5, <3>2, <4>1, <4>2, UnmapDrawing
    <3>5. CASE handle[h].mapped = FALSE
      <4>1. fbmaps' = fbmaps /\ fbpte' = fbpte
        BY <3>1, <3>5 DEF unmapped
      <4>2. \A q \in Procs : h \notin drawing(q)
        BY <3>5 DEF drawing
      <4>3. ASSUME NEW q \in Procs PROVE drawing(q)' = drawing(q)
        <5>1. \A g \in Handles : g # h => (g \in drawing(q)' <=> g \in drawing(q))
          BY <1>5 DEF drawing
        <5>2. \A g \in Handles : g \in drawing(q)' <=> g \in drawing(q)
          BY <3>2, <4>2, <5>1
        <5> QED
          BY <5>2 DEF drawing
      <4> QED
        BY <4>1, <4>3 DEF Mapping, OpenInv
    <3> QED
      BY <3>3, <3>4, <3>5
  <2> QED
    BY <2>1, <2>2
<1> QED
  BY <1>1, <1>8, <1>9, <1>10, <1>11 DEF OpenInv
\* A handle keeps its owner when only its mapping changes.
LEMMA OpenMapping ==
    ASSUME Base, OpenInv, UNCHANGED <<tree, live, fd>>,
           \A g \in Handles : /\ handle'[g].used = handle[g].used
                              /\ handle'[g].owner = handle[g].owner
                              /\ handle'[g].orphan = handle[g].orphan,
           \A q \in Procs : Mapping(q)'
    PROVE  OpenInv'
<1>1. ASSUME NEW q \in Procs, NEW e \in FDs, fd'[q][e].used PROVE Refers(q, e)'
  <2>1. Refers(q, e) /\ (fd[q][e].handle # NULL => fd[q][e].handle \in Handles)
    BY <1>1, HasHandle DEF OpenInv
  <2> QED
    BY <2>1 DEF Refers, is_fb0, is
<1> QED
  BY <1>1 DEF OpenInv

\* Mapping the framebuffer keeps OpenInv.
LEMMA OpenMap ==
    ASSUME Base, OpenInv, NEW p \in Procs, NEW f \in FDs, sys_ioctl_map(p, f)
    PROVE  OpenInv'
<1> DEFINE h == fd[p][f].handle
           l == fbmaps[p]
           m == <<region(TRUE)>> \o l
<1>1. fd[p][f].used /\ is_fb0(fd[p][f].node) /\ p \in live /\ Refers(p, f)
  BY DEF sys_ioctl_map, OpenInv, up
<1>2. h # NULL /\ h \in Handles /\ handle[h].used /\ handle[h].owner = p /\ ~handle[h].orphan
  BY <1>1, HasHandle DEF Refers
<1>3. /\ ~handle[h].mapped /\ handle' = [handle EXCEPT ![h].mapped = TRUE]
      /\ fbmaps' = [fbmaps EXCEPT ![p] = m] /\ fbpte' = [fbpte EXCEPT ![p] = "fb"]
      /\ UNCHANGED <<tree, live, fd>>
  BY <1>2 DEF sys_ioctl_map
<1>4. fbmaps \in FbMaps /\ fbpte \in FbEntries /\ l \in Seq(Regions)
  BY BaseTypes DEF FbMaps
<1>5. fbmaps'[p] = m /\ fbpte'[p] = "fb"
      /\ \A q \in Procs : q # p => fbmaps'[q] = fbmaps[q] /\ fbpte'[q] = fbpte[q]
  BY <1>3, <1>4 DEF FbMaps, FbEntries
<1>6. \A g \in Handles : g # h => handle'[g] = handle[g]
  BY <1>3, BaseTypes
<1>7. handle'[h].mapped /\ handle'[h].used = handle[h].used /\ handle'[h].owner = handle[h].owner
      /\ handle'[h].orphan = handle[h].orphan
  <2>1. handle'[h] = [handle[h] EXCEPT !.mapped = TRUE]
    BY <1>2, <1>3, BaseTypes
  <2>2. handle[h] \in HandleType
    BY <1>2, BaseTypes
  <2> QED
    BY <2>1, <2>2 DEF HandleType
<1> HIDE DEF h
<1>8. \A q \in Procs, g \in Handles : g # h => (g \in drawing(q)' <=> g \in drawing(q))
  BY <1>6 DEF drawing
<1>9. h \notin drawing(p) /\ h \in drawing(p)' /\ \A q \in Procs : q # p =>
        h \notin drawing(q) /\ h \notin drawing(q)'
  BY <1>2, <1>3, <1>7 DEF drawing
<1>10. drawing(p)' = drawing(p) \cup {h} /\ \A q \in Procs : q # p => drawing(q)' = drawing(q)
  BY <1>8, <1>9 DEF drawing
<1> DEFINE D == drawing(p)
<1>11. IsFiniteSet(D) /\ Cardinality(D) \in Nat /\ h \notin D
  BY <1>9, DrawingIs
<1>12. OwnFirst(l, Cardinality(D))
  BY DEF OpenInv, Mapping
<1> HIDE DEF D, l
<1>13. Cardinality(D \cup {h}) = Cardinality(D) + 1
  BY <1>11, FS_AddElement
<1>14. OwnFirst(m, Cardinality(D) + 1) /\ HasFb(m)
  <2> DEFINE c == Cardinality(D) + 1
  <2>1. c \in Int /\ c >= 1 /\ c - 1 = Cardinality(D)
    BY <1>11
  <2> HIDE DEF c
  <2>2. OwnFirst(l, c - 1)
    BY <1>12, <2>1
  <2>3. OwnFirst(m, c) /\ HasFb(m)
    BY <1>4, <2>1, <2>2, ListPush
  <2> QED
    BY <2>3 DEF c
<1> HIDE DEF m
<1>15. Mapping(p)'
  <2>1. Cardinality(drawing(p)') = Cardinality(D) + 1
    BY <1>10, <1>13 DEF D
  <2> QED
    BY <1>5, <1>14, <2>1 DEF Mapping
<1>16. ASSUME NEW q \in Procs, q # p PROVE Mapping(q)'
  BY <1>5, <1>10, <1>16 DEF Mapping, OpenInv
<1>17. \A g \in Handles : /\ handle'[g].used = handle[g].used
                          /\ handle'[g].owner = handle[g].owner
                          /\ handle'[g].orphan = handle[g].orphan
  BY <1>6, <1>7
<1> QED
  BY <1>3, <1>15, <1>16, <1>17, OpenMapping

\* Unmapping the framebuffer keeps OpenInv.
LEMMA OpenUnmap ==
    ASSUME Base, OpenInv, NEW p \in Procs, NEW f \in FDs, sys_ioctl_unmap(p, f)
    PROVE  OpenInv'
<1> DEFINE h == fd[p][f].handle
<1>1. fd[p][f].used /\ is_fb0(fd[p][f].node) /\ p \in live /\ Refers(p, f)
  BY DEF sys_ioctl_unmap, OpenInv, up
<1>2. h # NULL /\ h \in Handles /\ handle[h].used /\ handle[h].owner = p /\ ~handle[h].orphan
  BY <1>1, HasHandle DEF Refers
<1>3. /\ handle[h].mapped /\ unmapped(p, TRUE)
      /\ handle' = [handle EXCEPT ![h].mapped = FALSE] /\ UNCHANGED <<tree, live, fd>>
  BY <1>2 DEF sys_ioctl_unmap
<1>4. h \in drawing(p)
  BY <1>2, <1>3 DEF drawing
<1>5. \A g \in Handles : g # h => handle'[g] = handle[g]
  BY <1>3, BaseTypes
<1>6. ~handle'[h].mapped /\ handle'[h].used = handle[h].used /\ handle'[h].owner = handle[h].owner
      /\ handle'[h].orphan = handle[h].orphan
  <2>1. handle'[h] = [handle[h] EXCEPT !.mapped = FALSE]
    BY <1>2, <1>3, BaseTypes
  <2>2. handle[h] \in HandleType
    BY <1>2, BaseTypes
  <2> QED
    BY <2>1, <2>2 DEF HandleType
<1> HIDE DEF h
<1>7. \A q \in Procs : h \notin drawing(q)'
  BY <1>6 DEF drawing
<1>8. \A q \in Procs : Mapping(q)'
  BY <1>3, <1>4, <1>5, <1>7, UnmapDrawing
<1>9. \A g \in Handles : /\ handle'[g].used = handle[g].used
                         /\ handle'[g].owner = handle[g].owner
                         /\ handle'[g].orphan = handle[g].orphan
  BY <1>5, <1>6
<1> QED
  BY <1>3, <1>8, <1>9, OpenMapping

\* What the memory calls do to the list of a process keeps OpenInv.
LEMMA OpenMemory ==
    ASSUME Base, OpenInv, MemoryNext
    PROVE  OpenInv'
<1>1. UNCHANGED <<tree, live, fd, handle>>
  BY MemoryBase
<1>2. PICK p \in Procs : Remaps(p)
  BY MemoryBase
<1>3. \A q \in Procs : drawing(q)' = drawing(q)
  BY <1>1 DEF drawing
<1>4. ASSUME NEW q \in Procs PROVE Mapping(q)'
  <2>1. Cardinality(drawing(q)) \in Nat /\ Mapping(q)
    BY DrawingIs DEF OpenInv
  <2> QED
    BY <1>2, <1>3, <2>1 DEF Mapping, Remaps
<1> QED
  BY <1>1, <1>4, OpenMapping

\* A fork keeps OpenInv: the child has regions and no handle.
LEMMA OpenFork ==
    ASSUME Base, OpenInv, NEW p \in Procs, NEW q \in Procs, process_fork(p, q)
    PROVE  OpenInv'
<1> DEFINE l == fbmaps[p]
<1>1. /\ Clears(q) /\ q # p
      /\ fbmaps'[p] = cow_first(l, Len(l)) /\ fbmaps'[q] = cloned(l)
      /\ \A o \in Procs : o # p /\ o # q => fbmaps'[o] = fbmaps[o]
      /\ fbpte'[q] = fbpte[p] /\ \A o \in Procs : o # q => fbpte'[o] = fbpte[o]
  BY ForkBase
<1>2. tree' = tree /\ handle' = handle /\ live' = live \cup {q} /\ q \notin live
  BY DEF process_fork
<1>3. \A o \in Procs, e \in FDs : fd'[o][e] = fd[o][e]
  BY <1>1, <1>2 DEF Clears, Base
<1>4. l \in Seq(Regions) /\ Len(l) \in Int
  BY BaseTypes, ListIs DEF FbMaps
<1>5. Mapping(p) /\ \A o \in Procs : drawing(o)' = drawing(o)
  BY <1>2 DEF OpenInv, drawing
<1>6. /\ OwnFirst(cow_first(l, Len(l)), Cardinality(drawing(p)))
      /\ fbpte[p] = "fb" => HasFb(cow_first(l, Len(l)))
  BY <1>4, <1>5, ListCow DEF Mapping
<1>7. /\ OwnFirst(cloned(l), Cardinality(drawing(q)))
      /\ fbpte[p] = "fb" => HasFb(cloned(l))
  BY <1>4, <1>5, ListClone DEF Mapping
<1> HIDE DEF l
<1>8. ASSUME NEW o \in Procs PROVE Mapping(o)'
  BY <1>1, <1>5, <1>6, <1>7 DEF Mapping, OpenInv
<1>9. ASSUME NEW o \in Procs, NEW e \in FDs, fd'[o][e].used PROVE Refers(o, e)'
  <2>1. Refers(o, e) /\ fd'[o][e] = fd[o][e]
    BY <1>3, <1>9 DEF OpenInv
  <2> QED
    BY <1>2, <2>1 DEF Refers, is_fb0, is
<1> QED
  BY <1>2, <1>3, <1>8, <1>9 DEF OpenInv

\* The handles of a process that ends become orphans.
LEMMA OpenDestroy ==
    ASSUME Base, OpenInv, NEW p \in Procs, process_destroy(p)
    PROVE  OpenInv'
<1>1. Clears(p) /\ live' = live \ {p} /\ tree' = tree
  BY DestroyBase DEF process_destroy
<1>2. \A q \in Procs, e \in FDs : fd'[q][e] = IF q = p THEN Closed ELSE fd[q][e]
  BY <1>1, ClosedIs DEF Clears
<1>3. \A h \in Handles : ~(handle[h].used /\ handle[h].owner = p) => handle'[h] = handle[h]
  BY DEF process_destroy
<1>4. \A h \in Handles : handle[h].used /\ handle[h].owner = p => handle'[h].orphan = TRUE
  <2> SUFFICES ASSUME NEW h \in Handles, handle[h].used /\ handle[h].owner = p
               PROVE  handle'[h].orphan = TRUE
    OBVIOUS
  <2>1. handle'[h] = [handle[h] EXCEPT !.orphan = TRUE]
    BY DEF process_destroy
  <2>2. handle[h] \in HandleType
    BY BaseTypes
  <2> QED
    BY <2>1, <2>2 DEF HandleType
<1>5. fbmaps'[p] = <<>> /\ fbpte'[p] = "none"
      /\ \A q \in Procs : q # p => fbmaps'[q] = fbmaps[q] /\ fbpte'[q] = fbpte[q]
  BY BaseTypes DEF process_destroy, FbMaps, FbEntries
<1>6. ASSUME NEW q \in Procs, NEW e \in FDs, fd'[q][e].used PROVE Refers(q, e)'
  <2>1. q # p /\ fd'[q][e] = fd[q][e] /\ Refers(q, e)
    BY <1>2, <1>6, ClosedIs DEF OpenInv
  <2>2. fd[q][e].handle # NULL => handle'[fd[q][e].handle] = handle[fd[q][e].handle]
    BY <1>3, <2>1, HasHandle DEF Refers
  <2> QED
    BY <1>1, <2>1, <2>2 DEF Refers, is_fb0, is
<1>7. ASSUME NEW a \in Procs, NEW b \in Procs, NEW d \in FDs, NEW e \in FDs,
             fd'[a][d].handle # NULL, fd'[b][e].handle = fd'[a][d].handle
      PROVE  a = b /\ d = e
  BY <1>2, <1>7, ClosedIs DEF OpenInv
<1>8. ASSUME NEW g \in Handles, handle'[g].used, ~handle'[g].orphan
      PROVE  \E q \in Procs, e \in FDs : fd'[q][e].handle = g
  <2>1. ~(handle[g].used /\ handle[g].owner = p)
    BY <1>4, <1>8
  <2>2. handle'[g] = handle[g] /\ handle[g].owner # p
    BY <1>3, <1>8, <2>1
  <2>3. PICK q \in Procs, e \in FDs : fd[q][e].handle = g
    BY <1>8, <2>2 DEF OpenInv
  <2>4. q # p
    <3>1. g # NULL
      BY FilesAssumption DEF NULL
    <3>2. Refers(q, e)
      BY <2>3, <3>1, HasHandle
    <3> QED
      BY <2>2, <2>3, <3>1, <3>2 DEF Refers
  <2> QED
    BY <1>2, <2>3, <2>4
<1>9. Mapping(p)'
  BY <1>5 DEF Mapping, OwnFirst
<1>10. ASSUME NEW q \in Procs, q # p PROVE drawing(q)' = drawing(q)
  <2>1. ASSUME NEW g \in Handles PROVE g \in drawing(q)' <=> g \in drawing(q)
    <3>1. CASE handle[g].used /\ handle[g].owner = p
      BY <1>4, <1>10, <3>1 DEF drawing
    <3>2. CASE ~(handle[g].used /\ handle[g].owner = p)
      BY <1>3, <3>2 DEF drawing
    <3> QED
      BY <3>1, <3>2
  <2> QED
    BY <2>1 DEF drawing
<1>11. ASSUME NEW q \in Procs, q # p PROVE Mapping(q)'
  BY <1>5, <1>10, <1>11 DEF Mapping, OpenInv
<1> QED
  BY <1>6, <1>7, <1>8, <1>9, <1>11 DEF OpenInv

\* Every step keeps OpenInv.
LEMMA OpenStep ==
    ASSUME Base, OpenInv, "unlink_open" \notin Situations, [Next]_vars
    PROVE  OpenInv'
<1> DEFINE Stay(t) == \A p \in Procs, f \in FDs : fd[p][f].used =>
               LET n == fd[p][f].node IN
               n \in InTree(t) /\ t[n].type = tree[n].type /\ t[n].device = tree[n].device
<1>0. Stay(tree) /\ \A p \in Procs, f \in FDs : fd[p][f].used => fd[p][f].node \in InTree(tree)
  BY DEF OpenInv, Refers
<1>1. CASE UNCHANGED vars
  <2>1. UNCHANGED fbs /\ live' = live /\ fd' = fd /\ tree' = tree
    BY <1>1 DEF vars
  <2> QED
    BY <1>0, <2>1, OpenTree
<1>2. CASE Next
  <2>1. CASE BootNext
    <3>1. fd' = fd /\ live = {} /\ live' = live /\ UNCHANGED fbs
      BY <2>1, BootGood DEF Base
    <3>2. \A p \in Procs, f \in FDs : ~fd[p][f].used
      BY <3>1, ClosedIs DEF Base
    <3> QED
      BY <3>1, <3>2, OpenTree
  <2>2. ASSUME NEW p \in Procs, proc_alloc(p) PROVE OpenInv'
    <3>1. Clears(p) /\ tree' = tree /\ UNCHANGED fbs /\ live' = live \cup {p} /\ p \notin live
      BY <2>2, AllocBase DEF proc_alloc
    <3>2. \A q \in Procs, f \in FDs : fd'[q][f] = fd[q][f]
      BY <3>1 DEF Clears, Base
    <3> QED
      BY <1>0, <3>1, <3>2, OpenTree
  <2>3. ASSUME NEW p \in Procs, process_destroy(p) PROVE OpenInv'
    BY <2>3, OpenDestroy
  <2>4. ASSUME NEW p \in Procs, NEW path \in UserPaths, sys_open(p, path) PROVE OpenInv'
    BY <2>4, OpenBase, OpenOpen
  <2>5. ASSUME NEW p \in Procs, NEW path \in UserPaths, sys_mkdir(p, path) PROVE OpenInv'
    <3>1. Grew(tree, tree')
      BY <2>5, MkdirBase
    <3>2. fd' = fd /\ live' = live /\ UNCHANGED fbs
      BY <2>5 DEF sys_mkdir
    <3>3. Stay(tree')
      BY <1>0, <3>1 DEF Grew, Kept
    <3> QED
      BY <3>2, <3>3, OpenTree
  <2>6. ASSUME NEW p \in Procs, NEW path \in UserPaths, sys_unlink(p, path) PROVE OpenInv'
    <3> DEFINE n == vfs_find(tree, path)
    <3>1. tree' = tree \/ Shrunk(tree, tree', n)
      BY <2>6, UnlinkBase
    <3>2. fd' = fd /\ live' = live /\ UNCHANGED fbs /\ ~held(n)
      BY <2>6 DEF sys_unlink
    <3> HIDE DEF n
    <3>3. \A q \in Procs, f \in FDs : fd[q][f].used => fd[q][f].node # n
      BY <3>2 DEF held, OpenInv, Refers
    <3>4. Stay(tree')
      BY <1>0, <3>1, <3>3 DEF Shrunk, Stays
    <3> QED
      BY <3>2, <3>4, OpenTree
  <2>7. ASSUME NEW p \in Procs, NEW f \in FDs, sys_close(p, f) PROVE OpenInv'
    BY <2>7, OpenClose
  <2>8. ASSUME NEW p \in Procs, NEW f \in FDs, sys_ioctl_map(p, f) PROVE OpenInv'
    BY <2>8, OpenMap
  <2>9. ASSUME NEW p \in Procs, NEW f \in FDs, sys_ioctl_unmap(p, f) PROVE OpenInv'
    BY <2>9, OpenUnmap
  <2>10. ASSUME NEW p \in Procs, NEW f \in FDs, NEW whence \in 0 .. 2, NEW by \in -1 .. 1,
                sys_lseek(p, f, whence, by)
         PROVE  OpenInv'
    <3>1. UNCHANGED <<tree, live, fbs>>
      BY <2>10 DEF sys_lseek
    <3> QED
      BY <2>10, <3>1, LseekBase, OpenMove
  <2>11. ASSUME NEW p \in Procs, NEW f \in FDs, NEW len \in Lengths, sys_read(p, f, len)
         PROVE  OpenInv'
    <3>1. UNCHANGED <<tree, live, fbs>>
      BY <2>11 DEF sys_read
    <3> QED
      BY <2>11, <3>1, ReadBase, OpenMove
  <2>12. ASSUME NEW p \in Procs, NEW f \in FDs, NEW len \in Lengths, sys_getdents(p, f, len)
         PROVE  OpenInv'
    <3>1. UNCHANGED <<tree, live, fbs>>
      BY <2>12 DEF sys_getdents
    <3>2. \E to : \E y : Puts(p, f, y) /\ Moved(fd[p][f], y, to)
      BY <2>12, GetdentsBase
    <3> QED
      BY <3>1, <3>2, OpenMove
  <2>13. ASSUME NEW p \in Procs, NEW f \in FDs, NEW len \in Lengths, NEW memory \in BOOLEAN,
                sys_write(p, f, len, memory)
         PROVE  OpenInv'
    <3>1. Rewritten(tree, tree')
      BY <2>13, WriteBase
    <3>2. fd' = fd /\ live' = live /\ UNCHANGED fbs
      BY <2>13 DEF sys_write
    <3>3. Stay(tree')
      BY <1>0, <3>1 DEF Rewritten, SameShape
    <3> QED
      BY <3>2, <3>3, OpenTree
  <2>14. CASE MemoryNext
    BY <2>14, OpenMemory
  <2>15. ASSUME NEW p \in Procs, NEW q \in Procs, process_fork(p, q) PROVE OpenInv'
    BY <2>15, OpenFork
  <2> QED
    BY <1>2, <2>1, <2>2, <2>3, <2>4, <2>5, <2>6, <2>7, <2>8, <2>9, <2>10, <2>11, <2>12, <2>13, <2>14,
       <2>15, NextIs
<1> QED
  BY <1>1, <1>2

\* Whatever processes open, close, map, unmap, draw, munmap, mmap over and
\* fork, and however many of them hold fb0: a handle belongs to one descriptor
\* of one process, and no process keeps more regions of the backbuffer of its
\* own making than it has handles to unmap them, nor pages without a region.
\* Only removing a file that is open is left out.
THEOREM OpenFilesAreSound ==
    ASSUME "unlink_open" \notin Situations
    PROVE  Spec => []OpenFilesSound
<1>1. Init => OpenInv
  <2> SUFFICES ASSUME Init PROVE OpenInv
    OBVIOUS
  <2>1. /\ \A p \in Procs, f \in FDs : fd[p][f] = Closed
        /\ \A h \in Handles : ~handle[h].used
        /\ \A p \in Procs : fbmaps[p] = <<>> /\ fbpte[p] = "none"
    BY ClosedIs DEF Init, NoHandle
  <2>2. \A p \in Procs : Mapping(p)
    BY <2>1 DEF Mapping, OwnFirst
  <2> QED
    BY <2>1, <2>2, ClosedIs DEF OpenInv
<1>2. Base /\ OpenInv /\ [Next]_vars => OpenInv'
  BY OpenStep
<1>3. Base /\ OpenInv => OpenFilesSound
  BY OpenImplies
<1> QED
  BY <1>1, <1>2, <1>3, BaseHolds, PTL DEF Spec
=============================================================================
