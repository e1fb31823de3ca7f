-------------------------- MODULE PageTablesProofs ---------------------------
(***************************************************************************)
(* Proofs about PageTables: the frames in use form a forest.  Each frame   *)
(* gets a level (4 a top table, 0 a page) and a root, the top table it     *)
(* belongs to; entries lead one level down and stay with the root, except  *)
(* that the kernel's entry of every top table leads to the kernel's half.  *)
(* map_page and free_page pass through states in which one table may be    *)
(* empty and one page frame is in nobody's tables: Forest allows for both, *)
(* and for the frames lost when vmm_space_alloc is undone.                 *)
(***************************************************************************)
EXTENDS PageTables, WellFoundedInduction, TLAPS

-----------------------------------------------------------------------------
(* Frames and pages.                                                       *)

Frm == 1 .. FRAMES
Page == Idx \X Idx \X Idx \X Idx

\* A set of numbers that is not empty has a least one.
LEMMA LeastIs ==
  ASSUME NEW S \in SUBSET Nat, S # {}
  PROVE  \E x \in S : \A y \in S : x <= y
<1> DEFINE R == OpToRel(<, Nat)
<1>1. IsWellFoundedOn(R, Nat) BY NatLessThanWellFounded
<1>2. R = {ss \in Nat \X Nat : ss[1] < ss[2]} BY DEF OpToRel
<1> HIDE DEF R
<1>3. PICK x \in S : \A y \in S : ~ (<<y, x>> \in R) BY <1>1, WFMin
<1>4. \A y \in S : ~ (y < x) BY <1>2, <1>3
<1> QED BY <1>4

\* physmem_alloc returns a free frame, or 0 when there is none.
LEMMA AllocFrees ==
  ASSUME NEW m, physmem_alloc(m) # 0
  PROVE  physmem_alloc(m) \in Frm \ m.used
<1> DEFINE unused == (1 .. FRAMES) \ m.used
<1>1. unused # {} BY DEF physmem_alloc
<1>2. unused \in SUBSET Nat OBVIOUS
<1> HIDE DEF unused
<1>3. \E f \in unused : \A g \in unused : f <= g BY <1>1, <1>2, LeastIs
<1>4. (CHOOSE f \in unused : \A g \in unused : f <= g) \in unused BY <1>3
<1>5. physmem_alloc(m) = CHOOSE f \in unused : \A g \in unused : f <= g
  BY <1>1 DEF physmem_alloc, unused
<1> QED BY <1>4, <1>5 DEF Frm, unused

\* The indices of a page, and that they are all of it.
LEMMA PageIs ==
  ASSUME NEW v \in Page
  PROVE  v[1] \in Idx /\ v[2] \in Idx /\ v[3] \in Idx /\ v[4] \in Idx
BY DEF Page

\* Two pages with the same indices are the same.
LEMMA PagesEqual ==
  ASSUME NEW v \in Page, NEW w \in Page, v[1] = w[1], v[2] = w[2], v[3] = w[3], v[4] = w[4]
  PROVE  v = w
BY DEF Page

\* User pages and kernel pages are pages; frame 1 is a frame.
LEMMA PagesAre ==
  /\ \A v \in UserPages : v \in Page /\ v[1] # Kernel
  /\ \A v \in KernelPages : v \in Page /\ v[1] = Kernel
  /\ Kernel \in Idx /\ KernelPml4 \in Frm /\ 0 \notin Frm /\ FRAMES \in Nat
BY PageTablesAssumption DEF Page, Frm, KernelPml4

-----------------------------------------------------------------------------
(* Walks through the tables B: below and pte_lookup, by the tables alone.  *)

Low(B, t, i) == IF t = 0 THEN 0 ELSE B[t][i]
Look(B, t, w) == Low(B, Low(B, Low(B, Low(B, t, w[1]), w[2]), w[3]), w[4])

\* They are those of the model.
LEMMA LookIs ==
  ASSUME NEW m, NEW t, NEW v
  PROVE  /\ pdpt(m, t, v) = Low(m.table, t, v[1])
         /\ pd(m, t, v) = Low(m.table, Low(m.table, t, v[1]), v[2])
         /\ pt(m, t, v) = Low(m.table, Low(m.table, Low(m.table, t, v[1]), v[2]), v[3])
         /\ pte_lookup(m, t, v) = Look(m.table, t, v)
BY DEF pdpt, pd, pt, pte_lookup, below, Low, Look

-----------------------------------------------------------------------------
(* The shape of the tables: lev is 4 for top tables and 0 for pages, root  *)
(* the top table a frame belongs to.  U: the frames in use, B: what they   *)
(* hold, T: the top tables, L: the lost frames, graded as pages.  While a  *)
(* page is being mapped or unmapped, the table x may be empty and the      *)
(* frame f in nobody's tables; once a frame is lost any table may be empty.*)

Typed(U, B, T, lev, root) ==
    /\ U \subseteq Frm /\ B \in [Frm -> [Idx -> 0 .. FRAMES]]
    /\ lev \in [Frm -> 0 .. 4] /\ root \in [Frm -> Frm]
    /\ T \subseteq U /\ KernelPml4 \in T

Roots(U, T, lev, root) ==
    /\ \A t \in U : lev[t] = 4 <=> t \in T
    /\ \A t \in T : root[t] = t
    /\ \A t \in U : root[t] \in T

\* An entry leads to a frame in use one level below, of the same root; only
\* the kernel's half belongs to the kernel whatever table it is entered from.
Graded(U, B, lev, root) ==
    \A t \in U, i \in Idx : lev[t] >= 1 /\ B[t][i] # 0 =>
        /\ B[t][i] \in U /\ lev[B[t][i]] = lev[t] - 1
        /\ root[B[t][i]] = IF lev[t] = 4 /\ i = Kernel THEN KernelPml4 ELSE root[t]

OneParent(U, B, lev) ==
    \A t, u \in U, i, j \in Idx : lev[t] >= 1 /\ lev[u] >= 1 /\ B[t][i] # 0 /\ B[t][i] = B[u][j] =>
        (t = u /\ i = j) \/ (lev[t] = 4 /\ lev[u] = 4 /\ i = Kernel /\ j = Kernel)

HasParent(U, B, lev, f, L) ==
    \A e \in U : lev[e] < 4 /\ e # f /\ e \notin L => \E t \in U, i \in Idx : lev[t] >= 1 /\ B[t][i] = e

\* Nobody refers to a lost frame, or to the one about to be mapped.
Unused(U, B, lev, e) ==
    e \in U /\ lev[e] = 0 /\ \A t \in U, i \in Idx : lev[t] >= 1 => B[t][i] # e

Loose(U, B, lev, f, L) ==
    /\ f # 0 => Unused(U, B, lev, f) /\ f \notin L
    /\ \A e \in L : Unused(U, B, lev, e)

KernelHalf(B, T) ==
    /\ \A t \in T : B[t][Kernel] = B[KernelPml4][Kernel]
    /\ \A i \in Idx : i # Kernel => B[KernelPml4][i] = 0

NoneEmpty(U, B, lev, x, L) ==
    L = {} => \A t \in U : lev[t] \in 1 .. 3 /\ t # x => \E i \in Idx : B[t][i] # 0

Forest(U, B, T, lev, root, x, f, L) ==
    /\ Typed(U, B, T, lev, root) /\ Roots(U, T, lev, root)
    /\ Graded(U, B, lev, root) /\ OneParent(U, B, lev) /\ HasParent(U, B, lev, f, L)
    /\ Loose(U, B, lev, f, L) /\ KernelHalf(B, T) /\ NoneEmpty(U, B, lev, x, L)

\* The tables on the way from a top table to a page.
LEMMA Nodes ==
  ASSUME NEW U, NEW B, NEW T, NEW lev, NEW root, Typed(U, B, T, lev, root),
         Roots(U, T, lev, root), Graded(U, B, lev, root), NEW u \in T, NEW w \in Page
  PROVE  LET n3 == Low(B, u, w[1])
             n2 == Low(B, n3, w[2])
             n1 == Low(B, n2, w[3])
         IN  /\ u \in U /\ u # 0 /\ lev[u] = 4
             /\ n3 = 0 \/ (n3 \in U /\ lev[n3] = 3 /\ n3 = B[u][w[1]])
             /\ n2 = 0 \/ (n2 \in U /\ lev[n2] = 2 /\ n3 # 0 /\ n2 = B[n3][w[2]])
             /\ n1 = 0 \/ (n1 \in U /\ lev[n1] = 1 /\ n2 # 0 /\ n1 = B[n2][w[3]])
<1> DEFINE n3 == Low(B, u, w[1])
           n2 == Low(B, n3, w[2])
           n1 == Low(B, n2, w[3])
<1>1. w[1] \in Idx /\ w[2] \in Idx /\ w[3] \in Idx BY PageIs
<1>2. u \in U /\ u # 0 /\ lev[u] = 4 BY PagesAre DEF Typed, Roots
<1>3. n3 = 0 \/ (n3 \in U /\ lev[n3] = 3 /\ n3 = B[u][w[1]]) BY <1>1, <1>2 DEF Low, Graded
<1> HIDE DEF n3
<1>4. n2 = 0 \/ (n2 \in U /\ lev[n2] = 2 /\ n3 # 0 /\ n2 = B[n3][w[2]])
  BY <1>1, <1>3 DEF Low, Graded
<1> HIDE DEF n2
<1>5. n1 = 0 \/ (n1 \in U /\ lev[n1] = 1 /\ n2 # 0 /\ n1 = B[n2][w[3]])
  BY <1>1, <1>4 DEF Low, Graded
<1> QED BY <1>2, <1>3, <1>4, <1>5 DEF n3, n2

-----------------------------------------------------------------------------
(* What becomes of the walks.                                              *)

\* Where a walk in B stands, and where it stands once the empty table g has
\* been hung in.
Near(a, b, U, g) == (a = b /\ (a = 0 \/ a \in U)) \/ (a = 0 /\ b = g)

\* C is B with the empty table g at entry i of the table at.
Hung(U, B, C, g, at, i) ==
    /\ g \in Frm /\ g \notin U /\ at \in U /\ i \in Idx /\ B[at][i] = 0
    /\ \A t \in U, j \in Idx : C[t][j] = IF t = at /\ j = i THEN g ELSE B[t][j]
    /\ \A j \in Idx : C[g][j] = 0

\* One step of a walk.
LEMMA NearStep ==
  ASSUME NEW U, NEW B, NEW C, NEW g, NEW at, NEW i, Hung(U, B, C, g, at, i), 0 \notin U,
         NEW a, NEW b, Near(a, b, U, g), NEW j \in Idx,
         a # 0 => B[a][j] = 0 \/ B[a][j] \in U
  PROVE  Near(Low(B, a, j), Low(C, b, j), U, g)
<1>0. g # 0 BY PagesAre DEF Hung
<1>1. CASE a = b /\ a = 0 BY <1>1 DEF Near, Low
<1>2. CASE a = b /\ a \in U /\ ~ (a = at /\ j = i)
  <2>1. C[a][j] = B[a][j] /\ a # 0 BY <1>2 DEF Hung
  <2> QED BY <1>2, <2>1 DEF Near, Low
<1>3. CASE a = b /\ a \in U /\ a = at /\ j = i
  <2>1. C[a][j] = g /\ B[a][j] = 0 /\ a # 0 BY <1>3 DEF Hung
  <2> QED BY <1>3, <2>1 DEF Near, Low
<1>4. CASE a = 0 /\ b = g
  <2>1. C[b][j] = 0 BY <1>4 DEF Hung
  <2> QED BY <1>0, <1>4, <2>1 DEF Near, Low
<1> QED BY <1>1, <1>2, <1>3, <1>4 DEF Near

\* An empty table changes the translation of no page.
LEMMA HungLook ==
  ASSUME NEW U, NEW B, NEW C, NEW T, NEW lev, NEW root, Typed(U, B, T, lev, root),
         Roots(U, T, lev, root), Graded(U, B, lev, root),
         NEW g, NEW at, NEW i, Hung(U, B, C, g, at, i), lev[at] >= 2,
         NEW u \in T, NEW w \in Page
  PROVE  Look(C, u, w) = Look(B, u, w)
<1> DEFINE n3 == Low(B, u, w[1])
           n2 == Low(B, n3, w[2])
           n1 == Low(B, n2, w[3])
           k3 == Low(C, u, w[1])
           k2 == Low(C, k3, w[2])
           k1 == Low(C, k2, w[3])
<1>1. w[1] \in Idx /\ w[2] \in Idx /\ w[3] \in Idx /\ w[4] \in Idx BY PageIs
<1>2. /\ u \in U /\ u # 0 /\ lev[u] = 4
      /\ n3 = 0 \/ (n3 \in U /\ lev[n3] = 3 /\ n3 = B[u][w[1]])
      /\ n2 = 0 \/ (n2 \in U /\ lev[n2] = 2 /\ n3 # 0 /\ n2 = B[n3][w[2]])
      /\ n1 = 0 \/ (n1 \in U /\ lev[n1] = 1 /\ n2 # 0 /\ n1 = B[n2][w[3]])
  BY Nodes
<1>3. 0 \notin U /\ at \in U BY PagesAre DEF Typed, Hung
<1>4. \A a \in U, j \in Idx : lev[a] >= 1 => B[a][j] = 0 \/ B[a][j] \in U BY DEF Graded
<1>5. Near(u, u, U, g) BY <1>2 DEF Near
<1>6. Near(n3, k3, U, g) BY <1>1, <1>2, <1>3, <1>4, <1>5, NearStep
<1> HIDE DEF n3, k3
<1>7. Near(n2, k2, U, g) BY <1>1, <1>2, <1>3, <1>4, <1>6, NearStep
<1> HIDE DEF n2, k2
<1>8. Near(n1, k1, U, g) BY <1>1, <1>2, <1>3, <1>4, <1>7, NearStep
<1> HIDE DEF n1, k1
<1>9. Low(C, k1, w[4]) = Low(B, n1, w[4])
  <2>0. g # 0 BY PagesAre DEF Hung
  <2>1. CASE n1 = k1 /\ n1 = 0 BY <2>1 DEF Low
  <2>2. CASE n1 = k1 /\ n1 \in U /\ n1 # 0
    <3>1. n1 # at BY <1>2, <2>2
    <3>2. C[n1][w[4]] = B[n1][w[4]] BY <1>1, <2>2, <3>1 DEF Hung
    <3> QED BY <2>2, <3>2 DEF Low
  <2>3. CASE n1 = 0 /\ k1 = g
    <3>1. C[k1][w[4]] = 0 BY <1>1, <2>3 DEF Hung
    <3> QED BY <2>0, <2>3, <3>1 DEF Low
  <2> QED BY <1>8, <2>1, <2>2, <2>3 DEF Near
<1> QED BY <1>9 DEF Look, n1, n2, n3, k1, k2, k3

\* v is reached from top through the table p of level 1.
Leads(B, top, v, p) == p # 0 /\ Low(B, Low(B, Low(B, top, v[1]), v[2]), v[3]) = p

\* Only one page is reached through an entry of a table of level 1.
LEMMA OneWay ==
  ASSUME NEW U, NEW B, NEW T, NEW lev, NEW root, Typed(U, B, T, lev, root),
         Roots(U, T, lev, root), Graded(U, B, lev, root), OneParent(U, B, lev),
         NEW top \in T, NEW v \in Page, NEW p, Leads(B, top, v, p),
         NEW u \in T, NEW w \in Page, Leads(B, u, w, p), v[4] = w[4],
         v[1] # Kernel \/ T = {top}
  PROVE  u = top /\ w = v
<1> DEFINE n3 == Low(B, u, w[1])
           n2 == Low(B, n3, w[2])
           k3 == Low(B, top, v[1])
           k2 == Low(B, k3, v[2])
<1>1. /\ w[1] \in Idx /\ w[2] \in Idx /\ w[3] \in Idx
      /\ v[1] \in Idx /\ v[2] \in Idx /\ v[3] \in Idx
  BY PageIs
<1>2. /\ u \in U /\ lev[u] = 4
      /\ n3 = 0 \/ (n3 \in U /\ lev[n3] = 3 /\ n3 = B[u][w[1]])
      /\ n2 = 0 \/ (n2 \in U /\ lev[n2] = 2 /\ n3 # 0 /\ n2 = B[n3][w[2]])
      /\ p \in U /\ lev[p] = 1 /\ n2 # 0 /\ p = B[n2][w[3]]
  BY Nodes DEF Leads
<1>3. /\ top \in U /\ lev[top] = 4
      /\ k3 = 0 \/ (k3 \in U /\ lev[k3] = 3 /\ k3 = B[top][v[1]])
      /\ k2 = 0 \/ (k2 \in U /\ lev[k2] = 2 /\ k3 # 0 /\ k2 = B[k3][v[2]])
      /\ k2 # 0 /\ p = B[k2][v[3]]
  BY Nodes DEF Leads
<1>4. p # 0 BY DEF Leads
<1> HIDE DEF n3, n2, k3, k2
<1>5. n2 = k2 /\ w[3] = v[3]
  <2>1. n2 \in U /\ lev[n2] = 2 /\ k2 \in U /\ lev[k2] = 2 BY <1>2, <1>3
  <2>2. B[n2][w[3]] = B[k2][v[3]] /\ B[n2][w[3]] # 0 BY <1>2, <1>3, <1>4
  <2> QED BY <1>1, <2>1, <2>2 DEF OneParent
<1>6. n3 = k3 /\ w[2] = v[2] BY <1>1, <1>2, <1>3, <1>5 DEF OneParent
<1>7. B[u][w[1]] = B[top][v[1]] /\ B[u][w[1]] # 0 BY <1>2, <1>3, <1>6
<1>8. (u = top /\ w[1] = v[1]) \/ (w[1] = Kernel /\ v[1] = Kernel)
  BY <1>1, <1>2, <1>3, <1>7 DEF OneParent
<1>9. u = top /\ w[1] = v[1] BY <1>8
<1> QED BY <1>5, <1>6, <1>9, PagesEqual

\* An entry of a table of level 1 is the translation of one page and of no other.
LEMMA EntryLook ==
  ASSUME NEW U, NEW B, NEW C, NEW T, NEW lev, NEW root, Typed(U, B, T, lev, root),
         Roots(U, T, lev, root), Graded(U, B, lev, root), OneParent(U, B, lev),
         NEW top \in T, NEW v \in Page, NEW p, Leads(B, top, v, p),
         v[1] # Kernel \/ T = {top},
         \A t \in U, j \in Idx : ~ (t = p /\ j = v[4]) => C[t][j] = B[t][j],
         NEW u \in T, NEW w \in Page
  PROVE  Look(C, u, w) = IF u = top /\ w = v THEN C[p][v[4]] ELSE Look(B, u, w)
<1> DEFINE n3 == Low(B, u, w[1])
           n2 == Low(B, n3, w[2])
           n1 == Low(B, n2, w[3])
<1>1. w[1] \in Idx /\ w[2] \in Idx /\ w[3] \in Idx /\ w[4] \in Idx BY PageIs
<1>2. /\ u \in U /\ u # 0 /\ lev[u] = 4
      /\ n3 = 0 \/ (n3 \in U /\ lev[n3] = 3 /\ n3 = B[u][w[1]])
      /\ n2 = 0 \/ (n2 \in U /\ lev[n2] = 2 /\ n3 # 0 /\ n2 = B[n3][w[2]])
      /\ n1 = 0 \/ (n1 \in U /\ lev[n1] = 1 /\ n2 # 0 /\ n1 = B[n2][w[3]])
  BY Nodes
<1>3. p \in U /\ lev[p] = 1 /\ p # 0 BY Nodes DEF Leads
<1>4. u # p /\ n3 # p /\ n2 # p BY <1>2, <1>3
<1>5. \A a \in U, j \in Idx : a # p => Low(C, a, j) = Low(B, a, j) BY DEF Low
<1>6. \A j : Low(C, 0, j) = 0 /\ Low(B, 0, j) = 0 BY DEF Low
<1>7. Low(C, u, w[1]) = n3 BY <1>1, <1>2, <1>4, <1>5
<1>8. Low(C, n3, w[2]) = n2 BY <1>1, <1>2, <1>4, <1>5, <1>6
<1>9. Low(C, n2, w[3]) = n1 BY <1>1, <1>2, <1>4, <1>5, <1>6
<1>10. Look(C, u, w) = Low(C, n1, w[4]) /\ Look(B, u, w) = Low(B, n1, w[4])
  BY <1>7, <1>8, <1>9 DEF Look
<1>11. CASE n1 # p \/ w[4] # v[4]
  <2>1. ~ (u = top /\ w = v) BY <1>11 DEF Leads
  <2>2. Low(C, n1, w[4]) = Low(B, n1, w[4]) BY <1>1, <1>2, <1>6, <1>11 DEF Low
  <2> QED BY <1>10, <2>1, <2>2
<1>12. CASE n1 = p /\ w[4] = v[4]
  <2>1. Leads(B, u, w, p) BY <1>3, <1>12 DEF Leads
  <2>2. u = top /\ w = v BY <1>12, <2>1, OneWay
  <2>3. Low(C, n1, w[4]) = C[p][v[4]] BY <1>3, <1>12 DEF Low
  <2> QED BY <1>10, <2>2, <2>3
<1> QED BY <1>11, <1>12

-----------------------------------------------------------------------------
(* What becomes of the shape.                                              *)

\* Entry i of the table at may be made: of the kernel's top table only the
\* kernel's half, before there are spaces, of the others only the rest.
MayHang(T, lev, at, i) ==
    lev[at] = 4 => (at # KernelPml4 /\ i # Kernel) \/ (i = Kernel /\ T = {KernelPml4})

\* Some grading makes the frames a forest, with the table g at level k.
Grown(U, C, T, g, f, k, L) == \E lev, root : Forest(U, C, T, lev, root, g, f, L) /\ lev[g] = k

\* get_or_create makes a table: the shape is kept, the new table may be empty.
LEMMA HungForest ==
  ASSUME NEW L, NEW U, NEW B, NEW C, NEW T, NEW lev, NEW root, NEW f, NEW g, NEW at, NEW i,
         Forest(U, B, T, lev, root, at, f, L), Hung(U, B, C, g, at, i), lev[at] \in 2 .. 4,
         MayHang(T, lev, at, i), C \in [Frm -> [Idx -> 0 .. FRAMES]]
  PROVE  Grown(U \cup {g}, C, T, g, f, lev[at] - 1, L)
<1> DEFINE V == U \cup {g}
           lev2 == [lev EXCEPT ![g] = lev[at] - 1]
           own == IF lev[at] = 4 /\ i = Kernel THEN KernelPml4 ELSE root[at]
           root2 == [root EXCEPT ![g] = own]
<1>1. /\ U \subseteq Frm /\ lev \in [Frm -> 0 .. 4] /\ root \in [Frm -> Frm]
      /\ T \subseteq U /\ KernelPml4 \in T
  BY DEF Forest, Typed
<1>2. g \in Frm /\ g \notin U /\ at \in U /\ i \in Idx /\ B[at][i] = 0 /\ at # g /\ g # 0
  BY PagesAre DEF Hung
<1>3. \A t \in U, j \in Idx : C[t][j] = IF t = at /\ j = i THEN g ELSE B[t][j] BY DEF Hung
<1>4. \A j \in Idx : C[g][j] = 0 BY DEF Hung
<1>5. own \in T BY <1>1, <1>2 DEF Forest, Roots
<1>6. /\ lev2 \in [Frm -> 0 .. 4] /\ lev2[g] = lev[at] - 1 /\ lev2[g] \in 1 .. 3
      /\ \A t \in U : lev2[t] = lev[t]
      /\ root2 \in [Frm -> Frm] /\ root2[g] = own /\ \A t \in U : root2[t] = root[t]
  BY <1>1, <1>2, <1>5
<1>7. Typed(V, C, T, lev2, root2) BY <1>1, <1>2, <1>6 DEF Typed
<1>8. Roots(V, T, lev2, root2)
  <2>1. g \notin T BY <1>1, <1>2
  <2> QED BY <1>1, <1>5, <1>6, <2>1 DEF Forest, Roots
<1> HIDE DEF lev2, root2, own
<1>9. \A t \in U, j \in Idx : B[t][j] # g \/ lev[t] = 0
  BY <1>1, <1>2 DEF Forest, Graded
<1>10. Graded(V, C, lev2, root2)
  <2> SUFFICES ASSUME NEW t \in V, NEW j \in Idx, lev2[t] >= 1, C[t][j] # 0
               PROVE  /\ C[t][j] \in V /\ lev2[C[t][j]] = lev2[t] - 1
                      /\ root2[C[t][j]] = IF lev2[t] = 4 /\ j = Kernel THEN KernelPml4 ELSE root2[t]
    BY DEF Graded
  <2>1. t \in U BY <1>4
  <2>2. CASE t = at /\ j = i
    BY <1>2, <1>3, <1>6, <2>1, <2>2 DEF own
  <2>3. CASE ~ (t = at /\ j = i)
    <3>1. C[t][j] = B[t][j] /\ lev[t] >= 1 BY <1>3, <1>6, <2>1, <2>3
    <3>2. /\ B[t][j] \in U /\ lev[B[t][j]] = lev[t] - 1
          /\ root[B[t][j]] = IF lev[t] = 4 /\ j = Kernel THEN KernelPml4 ELSE root[t]
      BY <2>1, <3>1 DEF Forest, Graded
    <3> QED BY <1>6, <2>1, <3>1, <3>2
  <2> QED BY <2>2, <2>3
<1>11. OneParent(V, C, lev2)
  <2> SUFFICES ASSUME NEW t \in V, NEW u \in V, NEW j \in Idx, NEW k \in Idx, lev2[t] >= 1,
                      lev2[u] >= 1, C[t][j] # 0, C[t][j] = C[u][k]
               PROVE  (t = u /\ j = k) \/ (lev2[t] = 4 /\ lev2[u] = 4 /\ j = Kernel /\ k = Kernel)
    BY DEF OneParent
  <2>1. t \in U /\ u \in U /\ lev[t] >= 1 /\ lev[u] >= 1 BY <1>4, <1>6
  <2>2. CASE C[t][j] = g
    <3>1. ASSUME NEW y \in U, NEW z \in Idx, lev[y] >= 1, C[y][z] = g PROVE y = at /\ z = i
      <4>1. B[y][z] # g BY <1>9, <3>1
      <4> QED BY <1>3, <3>1, <4>1
    <3>2. t = at /\ j = i BY <2>1, <2>2, <3>1
    <3>3. u = at /\ k = i BY <2>1, <2>2, <3>1
    <3> QED BY <3>2, <3>3
  <2>3. CASE C[t][j] # g
    <3>1. B[t][j] = C[t][j] /\ B[u][k] = C[u][k] BY <1>3, <2>1, <2>3
    <3> QED BY <1>6, <2>1, <3>1 DEF Forest, OneParent
  <2> QED BY <2>2, <2>3
<1>12. HasParent(V, C, lev2, f, L)
  <2> SUFFICES ASSUME NEW e \in V, lev2[e] < 4, e # f, e \notin L
               PROVE  \E t \in V, j \in Idx : lev2[t] >= 1 /\ C[t][j] = e
    BY DEF HasParent
  <2>1. CASE e = g BY <1>2, <1>3, <1>6, <2>1
  <2>2. CASE e \in U
    <3>1. PICK t \in U, j \in Idx : lev[t] >= 1 /\ B[t][j] = e
      BY <1>6, <2>2 DEF Forest, HasParent
    <3>2. e # 0 BY <1>1, <2>2, PagesAre
    <3>3. C[t][j] = e BY <1>2, <1>3, <3>1, <3>2
    <3> QED BY <1>6, <3>1, <3>3
  <2> QED BY <2>1, <2>2
<1>13. Loose(V, C, lev2, f, L)
  <2>1. ASSUME NEW e, Unused(U, B, lev, e) PROVE Unused(V, C, lev2, e)
    <3>1. e \in U /\ lev[e] = 0 /\ \A t \in U, j \in Idx : lev[t] >= 1 => B[t][j] # e
      BY <2>1 DEF Unused
    <3>2. e \in V /\ lev2[e] = 0 /\ e # 0 BY <1>1, <1>6, <3>1, PagesAre
    <3>3. ASSUME NEW t \in V, NEW j \in Idx, lev2[t] >= 1 PROVE C[t][j] # e
      <4>1. CASE t = g BY <1>4, <3>2, <4>1
      <4>2. CASE t \in U
        <5>1. B[t][j] # e /\ g # e BY <1>2, <1>6, <3>1, <3>3, <4>2
        <5> QED BY <1>3, <4>2, <5>1
      <4> QED BY <4>1, <4>2
    <3> QED BY <3>2, <3>3 DEF Unused
  <2> QED BY <2>1 DEF Forest, Loose
<1>14. KernelHalf(C, T)
  <2>1. KernelHalf(B, T) /\ Kernel \in Idx /\ \A t \in T : lev[t] = 4
    BY <1>1, PagesAre DEF Forest, Roots
  <2>2. CASE lev[at] = 4 /\ i = Kernel
    <3>1. T = {KernelPml4} /\ at = KernelPml4 BY <1>2, <2>2 DEF MayHang, Forest, Roots
    <3> QED BY <1>1, <1>3, <2>1, <2>2, <3>1 DEF KernelHalf
  <2>3. CASE ~ (lev[at] = 4 /\ i = Kernel)
    <3>1. \A t \in T : C[t][Kernel] = B[t][Kernel] BY <1>1, <1>3, <2>1, <2>3
    <3>2. \A j \in Idx : C[KernelPml4][j] = B[KernelPml4][j]
      BY <1>1, <1>3, <2>1, <2>3 DEF MayHang
    <3> QED BY <1>1, <2>1, <3>1, <3>2 DEF KernelHalf
  <2> QED BY <2>2, <2>3
<1>15. NoneEmpty(V, C, lev2, g, L)
  <2> SUFFICES ASSUME L = {}, NEW t \in V, lev2[t] \in 1 .. 3, t # g PROVE \E j \in Idx : C[t][j] # 0
    BY DEF NoneEmpty
  <2>1. CASE t = at BY <1>2, <1>3, <2>1
  <2>2. CASE t # at
    <3>1. t \in U /\ lev[t] \in 1 .. 3 BY <1>6
    <3>2. \E j \in Idx : B[t][j] # 0 BY <2>2, <3>1 DEF Forest, NoneEmpty
    <3> QED BY <1>3, <2>2, <3>1, <3>2
  <2> QED BY <2>1, <2>2
<1>16. Forest(V, C, T, lev2, root2, g, f, L)
  BY <1>7, <1>8, <1>10, <1>11, <1>12, <1>13, <1>14, <1>15 DEF Forest
<1> QED BY <1>6, <1>16 DEF Grown

\* C is B but for entry j of table p.
Differs(B, C, U, p, j) == \A t \in U, k \in Idx : ~ (t = p /\ k = j) => C[t][k] = B[t][k]

\* Some grading makes the frames a forest.
IsForest(U, C, T, L) == \E lev, root : Forest(U, C, T, lev, root, 0, 0, L)

\* The page frame f is entered into a table of level 1.
LEMMA FilledForest ==
  ASSUME NEW L, NEW U, NEW B, NEW C, NEW T, NEW lev, NEW root, NEW f, NEW p, NEW j \in Idx,
         Forest(U, B, T, lev, root, p, f, L), f # 0, p \in U, lev[p] = 1, B[p][j] = 0,
         Differs(B, C, U, p, j), C[p][j] = f, C \in [Frm -> [Idx -> 0 .. FRAMES]]
  PROVE  IsForest(U, C, T, L)
<1> DEFINE root2 == [root EXCEPT ![f] = root[p]]
<1>1. /\ U \subseteq Frm /\ lev \in [Frm -> 0 .. 4] /\ root \in [Frm -> Frm]
      /\ T \subseteq U /\ KernelPml4 \in T
  BY DEF Forest, Typed
<1>2. f \in U /\ lev[f] = 0 /\ \A t \in U, i \in Idx : lev[t] >= 1 => B[t][i] # f
  BY DEF Forest, Loose, Unused
<1>3. \A t \in U, k \in Idx : C[t][k] = IF t = p /\ k = j THEN f ELSE B[t][k] BY DEF Differs
<1>4. root2 \in [Frm -> Frm] /\ root2[f] = root[p] /\ \A t \in U : t # f => root2[t] = root[t]
  BY <1>1, <1>2
<1>5. Typed(U, C, T, lev, root2) BY <1>1, <1>4 DEF Typed
<1>6. \A t \in T : lev[t] = 4 /\ t # f BY <1>1, <1>2 DEF Forest, Roots
<1>7. Roots(U, T, lev, root2) BY <1>1, <1>4, <1>6 DEF Forest, Roots
<1> HIDE DEF root2
<1>8. Graded(U, C, lev, root2)
  <2> SUFFICES ASSUME NEW t \in U, NEW k \in Idx, lev[t] >= 1, C[t][k] # 0
               PROVE  /\ C[t][k] \in U /\ lev[C[t][k]] = lev[t] - 1
                      /\ root2[C[t][k]] = IF lev[t] = 4 /\ k = Kernel THEN KernelPml4 ELSE root2[t]
    BY DEF Graded
  <2>1. root2[t] = root[t] BY <1>2, <1>4
  <2>2. CASE t = p /\ k = j BY <1>2, <1>3, <1>4, <2>1, <2>2
  <2>3. CASE ~ (t = p /\ k = j)
    <3>1. C[t][k] = B[t][k] /\ B[t][k] # f BY <1>2, <1>3, <2>3
    <3>2. /\ B[t][k] \in U /\ lev[B[t][k]] = lev[t] - 1
          /\ root[B[t][k]] = IF lev[t] = 4 /\ k = Kernel THEN KernelPml4 ELSE root[t]
      BY <3>1 DEF Forest, Graded
    <3> QED BY <1>4, <2>1, <3>1, <3>2
  <2> QED BY <2>2, <2>3
<1>9. OneParent(U, C, lev)
  <2> SUFFICES ASSUME NEW t \in U, NEW u \in U, NEW i \in Idx, NEW k \in Idx, lev[t] >= 1,
                      lev[u] >= 1, C[t][i] # 0, C[t][i] = C[u][k]
               PROVE  (t = u /\ i = k) \/ (lev[t] = 4 /\ lev[u] = 4 /\ i = Kernel /\ k = Kernel)
    BY DEF OneParent
  <2>1. CASE C[t][i] = f
    <3>1. ASSUME NEW y \in U, NEW z \in Idx, lev[y] >= 1, C[y][z] = f PROVE y = p /\ z = j
      <4>1. B[y][z] # f BY <1>2, <3>1
      <4> QED BY <1>3, <3>1, <4>1
    <3> QED BY <2>1, <3>1
  <2>2. CASE C[t][i] # f
    <3>1. B[t][i] = C[t][i] /\ B[u][k] = C[u][k] BY <1>3, <2>2
    <3> QED BY <3>1 DEF Forest, OneParent
  <2> QED BY <2>1, <2>2
<1>10. HasParent(U, C, lev, 0, L)
  <2> SUFFICES ASSUME NEW e \in U, lev[e] < 4, e # 0, e \notin L
               PROVE  \E t \in U, k \in Idx : lev[t] >= 1 /\ C[t][k] = e
    BY DEF HasParent
  <2>1. CASE e = f BY <2>1
  <2>2. CASE e # f
    <3>1. PICK t \in U, k \in Idx : lev[t] >= 1 /\ B[t][k] = e
      BY <2>2 DEF Forest, HasParent
    <3>2. C[t][k] = e BY <1>3, <3>1
    <3> QED BY <3>1, <3>2
  <2> QED BY <2>1, <2>2
<1>11. Loose(U, C, lev, 0, L)
  <2> SUFFICES ASSUME NEW e \in L PROVE Unused(U, C, lev, e) BY DEF Loose
  <2>1. Unused(U, B, lev, e) /\ e # f BY DEF Forest, Loose
  <2> QED BY <1>3, <2>1 DEF Unused
<1>12. KernelHalf(C, T)
  <2>1. \A t \in T, k \in Idx : C[t][k] = B[t][k] BY <1>1, <1>3, <1>6
  <2> QED BY <1>1, <2>1, PagesAre DEF Forest, KernelHalf
<1>13. NoneEmpty(U, C, lev, 0, L)
  <2> SUFFICES ASSUME L = {}, NEW t \in U, lev[t] \in 1 .. 3 PROVE \E k \in Idx : C[t][k] # 0
    BY DEF NoneEmpty
  <2>1. CASE t = p BY <2>1
  <2>2. CASE t # p
    <3>1. \E k \in Idx : B[t][k] # 0 BY <2>2 DEF Forest, NoneEmpty
    <3> QED BY <1>3, <2>2, <3>1
  <2> QED BY <2>1, <2>2
<1>14. Forest(U, C, T, lev, root2, 0, 0, L)
  BY <1>5, <1>7, <1>8, <1>9, <1>10, <1>11, <1>12, <1>13 DEF Forest
<1> QED BY <1>14 DEF IsForest

\* A frame without entries, page or table, is taken out of the table above it.
LEMMA DroppedForest ==
  ASSUME NEW L, NEW U, NEW B, NEW C, NEW T, NEW lev, NEW root, NEW x, NEW t0, NEW j \in Idx, NEW e,
         Forest(U, B, T, lev, root, x, 0, L), t0 \in U, lev[t0] >= 1, B[t0][j] = e, e # 0,
         lev[t0] = 4 => j # Kernel /\ t0 # KernelPml4,
         lev[e] = 0 \/ \A k \in Idx : B[e][k] = 0,
         x = 0 \/ x = e,
         Differs(B, C, U, t0, j), C[t0][j] = 0, C \in [Frm -> [Idx -> 0 .. FRAMES]]
  PROVE  Forest(U \ {e}, C, T, lev, root, t0, 0, L)
<1> DEFINE V == U \ {e}
<1>1. /\ U \subseteq Frm /\ lev \in [Frm -> 0 .. 4] /\ root \in [Frm -> Frm]
      /\ T \subseteq U /\ KernelPml4 \in T
  BY DEF Forest, Typed
<1>2. e \in U /\ lev[e] = lev[t0] - 1 /\ e \notin T /\ e # t0
  BY <1>1 DEF Forest, Graded, Roots
<1>3. \A t \in U, k \in Idx : C[t][k] = IF t = t0 /\ k = j THEN 0 ELSE B[t][k] BY DEF Differs
<1>4. \A t \in V, k \in Idx : lev[t] >= 1 => C[t][k] # e
  <2> SUFFICES ASSUME NEW t \in V, NEW k \in Idx, lev[t] >= 1, C[t][k] = e PROVE FALSE OBVIOUS
  <2>1. B[t][k] = e /\ ~ (t = t0 /\ k = j) BY <1>3
  <2>2. (t = t0 /\ k = j) \/ (lev[t] = 4 /\ lev[t0] = 4 /\ k = Kernel /\ j = Kernel)
    BY <2>1 DEF Forest, OneParent
  <2> QED BY <2>1, <2>2
<1>5. Typed(V, C, T, lev, root) BY <1>1, <1>2 DEF Typed
<1>6. Roots(V, T, lev, root) BY DEF Forest, Roots
<1>7. Graded(V, C, lev, root)
  <2> SUFFICES ASSUME NEW t \in V, NEW k \in Idx, lev[t] >= 1, C[t][k] # 0
               PROVE  /\ C[t][k] \in V /\ lev[C[t][k]] = lev[t] - 1
                      /\ root[C[t][k]] = IF lev[t] = 4 /\ k = Kernel THEN KernelPml4 ELSE root[t]
    BY DEF Graded
  <2>1. C[t][k] = B[t][k] /\ C[t][k] # e BY <1>3, <1>4
  <2> QED BY <2>1 DEF Forest, Graded
<1>8. OneParent(V, C, lev)
  <2> SUFFICES ASSUME NEW t \in V, NEW u \in V, NEW i \in Idx, NEW k \in Idx, lev[t] >= 1,
                      lev[u] >= 1, C[t][i] # 0, C[t][i] = C[u][k]
               PROVE  (t = u /\ i = k) \/ (lev[t] = 4 /\ lev[u] = 4 /\ i = Kernel /\ k = Kernel)
    BY DEF OneParent
  <2>1. B[t][i] = C[t][i] /\ B[u][k] = C[u][k] BY <1>3
  <2> QED BY <2>1 DEF Forest, OneParent
<1>9. HasParent(V, C, lev, 0, L)
  <2> SUFFICES ASSUME NEW y \in V, lev[y] < 4, y # 0, y \notin L
               PROVE  \E t \in V, k \in Idx : lev[t] >= 1 /\ C[t][k] = y
    BY DEF HasParent
  <2>1. PICK t \in U, k \in Idx : lev[t] >= 1 /\ B[t][k] = y
    BY DEF Forest, HasParent
  <2>2. t # e BY <2>1
  <2>3. C[t][k] = y BY <1>3, <2>1
  <2> QED BY <2>1, <2>2, <2>3
<1>10. Loose(V, C, lev, 0, L)
  <2> SUFFICES ASSUME NEW l \in L PROVE Unused(V, C, lev, l) BY DEF Loose
  <2>1. Unused(U, B, lev, l) BY DEF Forest, Loose
  <2>2. l # e /\ l # 0 BY <1>1, <2>1, PagesAre DEF Unused
  <2> QED BY <1>3, <2>1, <2>2 DEF Unused
<1>11. KernelHalf(C, T)
  <2>1. KernelHalf(B, T) /\ Kernel \in Idx /\ \A t \in T : lev[t] = 4
    BY <1>1, PagesAre DEF Forest, Roots
  <2>2. \A t \in T : C[t][Kernel] = B[t][Kernel] BY <1>1, <1>3, <2>1
  <2>3. \A k \in Idx : C[KernelPml4][k] = B[KernelPml4][k] BY <1>1, <1>3, <2>1
  <2> QED BY <1>1, <2>1, <2>2, <2>3 DEF KernelHalf
<1>12. NoneEmpty(V, C, lev, t0, L)
  <2> SUFFICES ASSUME L = {}, NEW t \in V, lev[t] \in 1 .. 3, t # t0 PROVE \E k \in Idx : C[t][k] # 0
    BY DEF NoneEmpty
  <2>1. t # x BY <1>1, PagesAre
  <2>2. \E k \in Idx : B[t][k] # 0 BY <2>1 DEF Forest, NoneEmpty
  <2> QED BY <1>3, <2>2
<1> QED BY <1>5, <1>6, <1>7, <1>8, <1>9, <1>10, <1>11, <1>12 DEF Forest

\* A page is taken out of its table and its frame is lost.
LEMMA LostForest ==
  ASSUME NEW L, NEW U, NEW B, NEW C, NEW T, NEW lev, NEW root, NEW t0, NEW j \in Idx, NEW e,
         Forest(U, B, T, lev, root, 0, 0, L), t0 \in U, lev[t0] = 1, B[t0][j] = e, e # 0,
         Differs(B, C, U, t0, j), C[t0][j] = 0, C \in [Frm -> [Idx -> 0 .. FRAMES]]
  PROVE  IsForest(U, C, T, L \cup {e})
<1> DEFINE K == L \cup {e}
<1>1. /\ U \subseteq Frm /\ lev \in [Frm -> 0 .. 4] /\ root \in [Frm -> Frm]
      /\ T \subseteq U /\ KernelPml4 \in T /\ 0 \notin U
  BY PagesAre DEF Forest, Typed
<1>2. e \in U /\ lev[e] = 0 BY <1>1 DEF Forest, Graded
<1>3. \A t \in U, k \in Idx : C[t][k] = IF t = t0 /\ k = j THEN 0 ELSE B[t][k] BY DEF Differs
<1>4. Typed(U, C, T, lev, root) BY <1>1 DEF Typed
<1>5. Roots(U, T, lev, root) BY DEF Forest
<1>6. Graded(U, C, lev, root)
  <2> SUFFICES ASSUME NEW t \in U, NEW k \in Idx, lev[t] >= 1, C[t][k] # 0
               PROVE  /\ C[t][k] \in U /\ lev[C[t][k]] = lev[t] - 1
                      /\ root[C[t][k]] = IF lev[t] = 4 /\ k = Kernel THEN KernelPml4 ELSE root[t]
    BY DEF Graded
  <2>1. C[t][k] = B[t][k] BY <1>3
  <2> QED BY <2>1 DEF Forest, Graded
<1>7. OneParent(U, C, lev)
  <2> SUFFICES ASSUME NEW t \in U, NEW u \in U, NEW i \in Idx, NEW k \in Idx, lev[t] >= 1,
                      lev[u] >= 1, C[t][i] # 0, C[t][i] = C[u][k]
               PROVE  (t = u /\ i = k) \/ (lev[t] = 4 /\ lev[u] = 4 /\ i = Kernel /\ k = Kernel)
    BY DEF OneParent
  <2>1. B[t][i] = C[t][i] /\ B[u][k] = C[u][k] BY <1>3
  <2> QED BY <2>1 DEF Forest, OneParent
<1>8. HasParent(U, C, lev, 0, K)
  <2> SUFFICES ASSUME NEW y \in U, lev[y] < 4, y # 0, y \notin K
               PROVE  \E t \in U, k \in Idx : lev[t] >= 1 /\ C[t][k] = y
    BY DEF HasParent
  <2>1. PICK t \in U, k \in Idx : lev[t] >= 1 /\ B[t][k] = y BY DEF Forest, HasParent
  <2>2. C[t][k] = y BY <1>3, <2>1
  <2> QED BY <2>1, <2>2
<1>9. Loose(U, C, lev, 0, K)
  <2>1. Unused(U, C, lev, e)
    <3>1. ASSUME NEW t \in U, NEW k \in Idx, lev[t] >= 1, C[t][k] = e PROVE FALSE
      <4>1. B[t][k] = e /\ ~ (t = t0 /\ k = j) BY <1>3, <3>1
      <4>2. (t = t0 /\ k = j) \/ lev[t0] = 4 BY <3>1, <4>1 DEF Forest, OneParent
      <4> QED BY <4>1, <4>2
    <3> QED BY <1>2, <3>1 DEF Unused
  <2>2. ASSUME NEW l \in L PROVE Unused(U, C, lev, l)
    <3>1. Unused(U, B, lev, l) BY DEF Forest, Loose
    <3>2. l # 0 BY <1>1, <3>1 DEF Unused
    <3> QED BY <1>3, <3>1, <3>2 DEF Unused
  <2> QED BY <2>1, <2>2 DEF Loose
<1>10. KernelHalf(C, T)
  <2>1. \A t \in T : t # t0 BY <1>1 DEF Forest, Roots
  <2>2. \A t \in T, k \in Idx : C[t][k] = B[t][k] BY <1>1, <1>3, <2>1
  <2> QED BY <1>1, <2>2, PagesAre DEF Forest, KernelHalf
<1>11. NoneEmpty(U, C, lev, 0, K) BY DEF NoneEmpty
<1>12. Forest(U, C, T, lev, root, 0, 0, K)
  BY <1>4, <1>5, <1>6, <1>7, <1>8, <1>9, <1>10, <1>11 DEF Forest
<1> QED BY <1>12 DEF IsForest

\* The table that may be empty is not, or is a top table.
LEMMA NotEmpty ==
  ASSUME NEW L, NEW U, NEW B, NEW T, NEW lev, NEW root, NEW x, NEW f, Forest(U, B, T, lev, root, x, f, L),
         lev[x] \notin 1 .. 3 \/ \E i \in Idx : B[x][i] # 0
  PROVE  Forest(U, B, T, lev, root, 0, f, L)
BY DEF Forest, NoneEmpty

-----------------------------------------------------------------------------
(* get_or_create, map_page, free_page.                                     *)

Mem == [used : SUBSET Frm, table : [Frm -> [Idx -> 0 .. FRAMES]]]

\* Where map_page stands after some of its steps: at the table r.at of level k,
\* with the translations of m0.
OnTheWay(r, m0, T, k, f, L) ==
    /\ r.m \in Mem /\ r.at \in r.m.used
    /\ Grown(r.m.used, r.m.table, T, r.at, f, k, L)
    /\ \A u \in T, w \in Page : Look(r.m.table, u, w) = Look(m0.table, u, w)

\* The entries of m are still there in n.
Kept(m, n) ==
    /\ m.used \subseteq n.used
    /\ \A t \in m.used, i \in Idx : m.table[t][i] # 0 => n.table[t][i] = m.table[t][i]

\* r is one level below entry i of the table at, or there was no memory.
Down(r, m, at, i, m0, T, k, f, L) ==
    IF r.at = 0 THEN r.m = m
    ELSE /\ OnTheWay(r, m0, T, k, f, L) /\ Kept(m, r.m) /\ r.m.table[at][i] = r.at
         /\ r = [m |-> r.m, at |-> r.at] /\ r.m \in Mem

\* get_or_create goes one level down, or stops where it is for lack of memory.
LEMMA GetOrCreate ==
  ASSUME NEW L, NEW m \in Mem, NEW at, NEW m0, NEW T, NEW k \in 2 .. 4, NEW f, NEW i \in Idx,
         OnTheWay([m |-> m, at |-> at], m0, T, k, f, L),
         k = 4 => (at # KernelPml4 /\ i # Kernel) \/ (i = Kernel /\ T = {KernelPml4})
  PROVE  Down(get_or_create([m |-> m, at |-> at], i), m, at, i, m0, T, k - 1, f, L)
<1> DEFINE r == get_or_create([m |-> m, at |-> at], i)
           g == physmem_alloc(m)
           C == [[m.table EXCEPT ![g] = Empty] EXCEPT ![at][i] = g]
           n == [used |-> m.used \cup {g}, table |-> C]
<1>1. /\ m.used \subseteq Frm /\ m.table \in [Frm -> [Idx -> 0 .. FRAMES]]
      /\ at \in m.used /\ at \in Frm /\ at # 0
      /\ \A u \in T, w \in Page : Look(m.table, u, w) = Look(m0.table, u, w)
  BY PagesAre DEF OnTheWay, Mem
<1>2. PICK lev, root : Forest(m.used, m.table, T, lev, root, at, f, L) /\ lev[at] = k
  BY DEF OnTheWay, Grown
<1>3. CASE m.table[at][i] # 0
  <2>1. r = [m |-> m, at |-> m.table[at][i]] BY <1>1, <1>3 DEF get_or_create
  <2> DEFINE e == m.table[at][i]
  <2>2. e \in m.used /\ lev[e] = k - 1 BY <1>1, <1>2, <1>3 DEF Forest, Graded
  <2>3. Forest(m.used, m.table, T, lev, root, 0, f, L) BY <1>2, <1>3, NotEmpty
  <2>4. Forest(m.used, m.table, T, lev, root, e, f, L)
    BY <2>3, <1>1, PagesAre DEF Forest, NoneEmpty
  <2>5. OnTheWay(r, m0, T, k - 1, f, L) BY <1>1, <2>1, <2>2, <2>4 DEF OnTheWay, Grown
  <2> QED BY <1>1, <1>3, <2>1, <2>5 DEF Kept, Down
<1>4. CASE m.table[at][i] = 0 /\ g = 0
  BY <1>1, <1>4 DEF get_or_create, Down
<1>5. CASE m.table[at][i] = 0 /\ g # 0
  <2>1. r = [at |-> g, m |-> n] BY <1>1, <1>5 DEF get_or_create
  <2>2. g \in Frm \ m.used /\ g \in 0 .. FRAMES BY <1>5, AllocFrees DEF Frm
  <2> HIDE DEF g
  <2>3. at # g BY <1>1, <2>2
  <2>4. Empty \in [Idx -> 0 .. FRAMES] /\ \A j \in Idx : Empty[j] = 0
    BY PagesAre DEF Empty
  <2>5. C \in [Frm -> [Idx -> 0 .. FRAMES]] BY <1>1, <2>2, <2>4
  <2>6. \A t \in Frm, j \in Idx : C[t][j] = IF t = g THEN 0 ELSE IF t = at /\ j = i THEN g ELSE m.table[t][j]
    BY <1>1, <2>2, <2>3, <2>4
  <2> HIDE DEF C
  <2>7. Hung(m.used, m.table, C, g, at, i)
    <3>1. \A t \in m.used, j \in Idx : C[t][j] = IF t = at /\ j = i THEN g ELSE m.table[t][j]
      BY <1>1, <2>2, <2>6
    <3>2. \A j \in Idx : C[g][j] = 0 BY <2>2, <2>6
    <3> QED BY <1>1, <1>5, <2>2, <3>1, <3>2 DEF Hung
  <2>8. MayHang(T, lev, at, i) BY <1>2 DEF MayHang
  <2>9. Grown(m.used \cup {g}, C, T, g, f, k - 1, L)
    <3>1. lev[at] \in 2 .. 4 /\ lev[at] = k BY <1>2
    <3>2. Forest(m.used, m.table, T, lev, root, at, f, L) BY <1>2
    <3>3. Grown(m.used \cup {g}, C, T, g, f, lev[at] - 1, L)
      BY <2>5, <2>7, <2>8, <3>1, <3>2, HungForest
    <3> QED BY <3>1, <3>3
  <2>10. \A u \in T, w \in Page : Look(C, u, w) = Look(m.table, u, w)
    BY <1>2, <2>7, HungLook DEF Forest
  <2>11. r.m = n /\ r.at = g /\ n.used = m.used \cup {g} /\ n.table = C BY <2>1
  <2>12. n \in Mem BY <1>1, <2>2, <2>5, <2>11 DEF Mem
  <2>13. OnTheWay(r, m0, T, k - 1, f, L) BY <1>1, <2>9, <2>10, <2>11, <2>12 DEF OnTheWay
  <2>14. Kept(m, n) BY <1>1, <1>5, <2>2, <2>6, <2>11 DEF Kept
  <2>15. n.table[at][i] = g
    BY <1>1, <2>2, <2>3, <2>6, <2>11
  <2> QED BY <2>1, <2>2, <2>11, <2>12, <2>13, <2>14, <2>15, PagesAre DEF Down
<1> QED BY <1>3, <1>4, <1>5

\* What walks find in B they find in C.
SameLooks(B, C, T) == \A u \in T, w \in Page : Look(C, u, w) = Look(B, u, w)

\* What map_page and free_page may do: make the page v of the space top lead to e.
OneLook(B, C, T, top, v, e) ==
    \A u \in T, w \in Page : Look(C, u, w) = IF u = top /\ w = v THEN e ELSE Look(B, u, w)

\* The frames in use are a forest.
Shaped(m, T, L) == m \in Mem /\ IsForest(m.used, m.table, T, L)

\* The page may be mapped in the space: by a program in its own space, by the
\* kernel before there are spaces.
MayMap(T, top, v) ==
    (top # KernelPml4 /\ v[1] # Kernel) \/ (v[1] = Kernel /\ T = {KernelPml4})

\* The last step of map_page: the frame is entered.
LEMMA EnterPage ==
  ASSUME NEW L, NEW m \in Mem, NEW p, NEW m0, NEW T, NEW f \in Frm, NEW top \in T, NEW v \in Page,
         OnTheWay([m |-> m, at |-> p], m0, T, 1, f, L), Leads(m.table, top, v, p),
         Look(m0.table, top, v) = 0, MayMap(T, top, v)
  PROVE  LET n == [used |-> m.used, table |-> [m.table EXCEPT ![p][v[4]] = f]]
         IN  Shaped(n, T, L) /\ OneLook(m0.table, n.table, T, top, v, f)
<1> DEFINE B == m.table
           C == [B EXCEPT ![p][v[4]] = f]
           n == [used |-> m.used, table |-> C]
<1>1. /\ p \in m.used /\ m.used \subseteq Frm /\ B \in [Frm -> [Idx -> 0 .. FRAMES]] /\ p \in Frm
      /\ \A u \in T, w \in Page : Look(B, u, w) = Look(m0.table, u, w)
  BY DEF OnTheWay, Mem
<1>2. PICK lev, root : Forest(m.used, B, T, lev, root, p, f, L) /\ lev[p] = 1
  BY DEF OnTheWay, Grown
<1>3. v[4] \in Idx /\ f # 0 /\ f \in 0 .. FRAMES BY PageIs, PagesAre DEF Frm
<1>4. B[p][v[4]] = 0
  <2>1. Look(B, top, v) = Low(B, p, v[4]) BY DEF Leads, Look
  <2>2. p # 0 BY DEF Leads
  <2> QED BY <1>1, <2>1, <2>2 DEF Low
<1>5. C \in [Frm -> [Idx -> 0 .. FRAMES]] /\ C[p][v[4]] = f BY <1>1, <1>3
<1>6. Differs(B, C, m.used, p, v[4]) BY <1>1, <1>3 DEF Differs
<1> HIDE DEF C
<1>7. IsForest(m.used, C, T, L)
  BY <1>1, <1>2, <1>3, <1>4, <1>5, <1>6, FilledForest
<1>8. n \in Mem /\ n.used = m.used /\ n.table = C BY <1>1, <1>5 DEF Mem
<1>9. Shaped(n, T, L) BY <1>7, <1>8 DEF Shaped
<1>10. v[1] # Kernel \/ T = {top} BY DEF MayMap
<1>11. \A t \in m.used, j \in Idx : ~ (t = p /\ j = v[4]) => C[t][j] = B[t][j]
  BY <1>6 DEF Differs
<1>12. ASSUME NEW u \in T, NEW w \in Page
       PROVE  Look(C, u, w) = IF u = top /\ w = v THEN f ELSE Look(m0.table, u, w)
  <2>1. /\ Typed(m.used, B, T, lev, root) /\ Roots(m.used, T, lev, root)
        /\ Graded(m.used, B, lev, root) /\ OneParent(m.used, B, lev)
    BY <1>2 DEF Forest
  <2>2. Look(C, u, w) = IF u = top /\ w = v THEN C[p][v[4]] ELSE Look(B, u, w)
    BY <1>10, <1>11, <2>1, EntryLook
  <2> QED BY <1>1, <1>5, <2>2
<1>13. OneLook(m0.table, n.table, T, top, v, f) BY <1>8, <1>12 DEF OneLook
<1> QED BY <1>9, <1>13 DEF C

\* map_page makes v of top lead to f, or runs out of memory with every page
\* leading where it did.
LEMMA MapPage ==
  ASSUME NEW L, NEW m \in Mem, NEW T, NEW lev, NEW root, NEW f \in Frm, NEW top \in T, NEW v \in Page,
         Forest(m.used, m.table, T, lev, root, 0, f, L), Look(m.table, top, v) = 0, MayMap(T, top, v)
  PROVE  LET r == map_page(m, top, v, f)
         IN  IF r.at = 0 THEN SameLooks(m.table, r.m.table, T)
             ELSE Shaped(r.m, T, L) /\ OneLook(m.table, r.m.table, T, top, v, f)
<1> DEFINE r1 == get_or_create([m |-> m, at |-> top], v[1])
           r2 == get_or_create(r1, v[2])
           r3 == get_or_create(r2, v[3])
           r == map_page(m, top, v, f)
<1>0. v[1] \in Idx /\ v[2] \in Idx /\ v[3] \in Idx /\ v[4] \in Idx BY PageIs
<1>1. top \in m.used /\ lev[top] = 4 /\ top # 0 BY PagesAre DEF Forest, Typed, Roots
<1>2. OnTheWay([m |-> m, at |-> top], m, T, 4, f, L)
  <2>1. Forest(m.used, m.table, T, lev, root, top, f, L)
    BY <1>1, PagesAre DEF Forest, Typed, NoneEmpty
  <2> QED BY <1>1, <2>1 DEF OnTheWay, Grown
<1>3. r = IF r3.at = 0 THEN r3 ELSE [r3 EXCEPT !.m.table[r3.at][v[4]] = f]
  BY DEF map_page
<1>4. \A i, q : q.at = 0 => get_or_create(q, i) = q BY DEF get_or_create
<1>5. (top # KernelPml4 /\ v[1] # Kernel) \/ (v[1] = Kernel /\ T = {KernelPml4}) BY DEF MayMap
<1>6. Down(r1, m, top, v[1], m, T, 3, f, L)
  <2>1. 4 \in 2 .. 4 /\ 4 - 1 = 3 OBVIOUS
  <2> QED BY <1>0, <1>2, <1>5, <2>1, GetOrCreate
<1> HIDE DEF r1, r
<1>7. CASE r1.at = 0
  <2>1. r2 = r1 /\ r3 = r1 BY <1>4, <1>7
  <2>2. r = r1 BY <1>3, <1>7, <2>1
  <2> QED BY <1>6, <1>7, <2>2 DEF SameLooks, r, Down
<1>8. CASE r1.at # 0
  <2>0. /\ OnTheWay(r1, m, T, 3, f, L) /\ Kept(m, r1.m) /\ r1.m.table[top][v[1]] = r1.at
        /\ r1 = [m |-> r1.m, at |-> r1.at] /\ r1.m \in Mem
    BY <1>6, <1>8 DEF Down
  <2>1. Down(r2, r1.m, r1.at, v[2], m, T, 2, f, L)
    <3>1. 3 \in 2 .. 4 /\ 3 - 1 = 2 /\ 3 # 4 OBVIOUS
    <3>2. r2 = get_or_create([m |-> r1.m, at |-> r1.at], v[2]) BY <2>0
    <3> HIDE DEF r2
    <3>3. OnTheWay([m |-> r1.m, at |-> r1.at], m, T, 3, f, L) BY <2>0
    <3>4. Down(get_or_create([m |-> r1.m, at |-> r1.at], v[2]), r1.m, r1.at, v[2], m, T, 3 - 1, f, L)
      BY <1>0, <2>0, <3>1, <3>3, GetOrCreate
    <3> QED BY <3>1, <3>2, <3>4
  <2> HIDE DEF r2
  <2>2. CASE r2.at = 0
    <3>1. r3 = r2 BY <1>4, <2>2
    <3>2. r = r2 BY <1>3, <2>2, <3>1
    <3> QED BY <2>0, <2>1, <2>2, <3>2 DEF SameLooks, r, OnTheWay, Down
  <2>3. CASE r2.at # 0
    <3>0. /\ OnTheWay(r2, m, T, 2, f, L) /\ Kept(r1.m, r2.m) /\ r2.m.table[r1.at][v[2]] = r2.at
          /\ r2 = [m |-> r2.m, at |-> r2.at] /\ r2.m \in Mem
      BY <2>1, <2>3 DEF Down
    <3>1. Down(r3, r2.m, r2.at, v[3], m, T, 1, f, L)
      <4>1. 2 \in 2 .. 4 /\ 2 - 1 = 1 /\ 2 # 4 OBVIOUS
      <4>2. r3 = get_or_create([m |-> r2.m, at |-> r2.at], v[3]) BY <3>0
      <4> HIDE DEF r3
      <4>3. OnTheWay([m |-> r2.m, at |-> r2.at], m, T, 2, f, L) BY <3>0
      <4>4. Down(get_or_create([m |-> r2.m, at |-> r2.at], v[3]), r2.m, r2.at, v[3], m, T, 2 - 1, f, L)
        BY <1>0, <3>0, <4>1, <4>3, GetOrCreate
      <4> QED BY <4>1, <4>2, <4>4
    <3> HIDE DEF r3
    <3>2. CASE r3.at = 0
      <4>1. r = r3 BY <1>3, <3>2
      <4> QED BY <3>0, <3>1, <3>2, <4>1 DEF SameLooks, r, OnTheWay, Down
    <3>3. CASE r3.at # 0
      <4> DEFINE p == r3.at
                 n == [used |-> r3.m.used, table |-> [r3.m.table EXCEPT ![p][v[4]] = f]]
      <4>0. /\ OnTheWay(r3, m, T, 1, f, L) /\ Kept(r2.m, r3.m) /\ r3.m.table[r2.at][v[3]] = r3.at
            /\ r3 = [m |-> r3.m, at |-> r3.at] /\ r3.m \in Mem
        BY <3>1, <3>3 DEF Down
      <4>1. Leads(r3.m.table, top, v, p)
        <5>1. r1.at \in r1.m.used /\ r2.at \in r2.m.used BY <2>0, <3>0 DEF OnTheWay
        <5>2. Kept(m, r1.m) /\ Kept(r1.m, r2.m) /\ Kept(r2.m, r3.m) BY <2>0, <3>0, <4>0
        <5>3. r2.m.table[r1.at][v[2]] = r2.at /\ r3.m.table[r1.at][v[2]] = r2.at
          BY <1>0, <2>3, <3>0, <5>1, <5>2 DEF Kept
        <5>4. r2.m.table[top][v[1]] = r1.at
          BY <1>0, <1>1, <1>8, <2>0, <5>2 DEF Kept
        <5>5. r3.m.table[top][v[1]] = r1.at
          BY <1>0, <1>1, <1>8, <5>2, <5>4 DEF Kept
        <5>6. r3.m.table[r2.at][v[3]] = p BY <4>0
        <5> QED BY <1>1, <1>8, <2>3, <3>3, <5>3, <5>5, <5>6 DEF Leads, Low
      <4>2. r = [r3 EXCEPT !.m.table[r3.at][v[4]] = f] BY <1>3, <3>3
      <4>3. r3.m \in Mem /\ r3 = [m |-> r3.m, at |-> r3.at] BY <4>0
      <4>4. r.m = n /\ r.at = p
        BY <4>2, <4>3 DEF Mem
      <4>5. OnTheWay([m |-> r3.m, at |-> p], m, T, 1, f, L) BY <4>0
      <4>6. Shaped(n, T, L) /\ OneLook(m.table, n.table, T, top, v, f)
        BY <4>1, <4>3, <4>5, EnterPage
      <4> HIDE DEF n, p
      <4>7. p # 0 BY <3>3 DEF p
      <4> QED BY <4>4, <4>6, <4>7 DEF r
    <3> QED BY <3>2, <3>3
  <2> QED BY <2>2, <2>3
<1> QED BY <1>7, <1>8

\* drop, by its entries.
LEMMA DropIs ==
  ASSUME NEW m \in Mem, NEW t \in Frm, NEW j \in Idx
  PROVE  /\ drop(m, t, j) \in Mem /\ drop(m, t, j).used = m.used \ {m.table[t][j]}
         /\ drop(m, t, j).table[t][j] = 0
         /\ Differs(m.table, drop(m, t, j).table, Frm, t, j)
<1> DEFINE C == [m.table EXCEPT ![t][j] = 0]
<1>1. m.used \in SUBSET Frm /\ m.table \in [Frm -> [Idx -> 0 .. FRAMES]] BY DEF Mem
<1>2. 0 \in 0 .. FRAMES BY PagesAre
<1>3. C \in [Frm -> [Idx -> 0 .. FRAMES]] /\ C[t][j] = 0 BY <1>1, <1>2
<1>4. Differs(m.table, C, Frm, t, j) BY <1>1 DEF Differs
<1>5. drop(m, t, j) = [used |-> m.used \ {m.table[t][j]}, table |-> C] BY DEF drop
<1> HIDE DEF C
<1> QED BY <1>1, <1>3, <1>4, <1>5 DEF Mem

\* empty, by its entries.
LEMMA EmptyIs ==
  ASSUME NEW m \in Mem, NEW t \in Frm
  PROVE  empty(m, t) <=> \A k \in Idx : m.table[t][k] = 0
<1>1. m.table[t] \in [Idx -> 0 .. FRAMES] BY DEF Mem
<1> QED BY <1>1 DEF empty, Empty

\* What the frames of m look like while a page is being unmapped.
Pruned(m, T, lev, root, x, L) == m \in Mem /\ Forest(m.used, m.table, T, lev, root, x, 0, L)

\* The page goes.
LEMMA DropPage ==
  ASSUME NEW L, NEW m, NEW T, NEW lev, NEW root, Pruned(m, T, lev, root, 0, L), NEW top \in T,
         NEW v \in Page,
         v[1] # Kernel, NEW p, Leads(m.table, top, v, p), m.table[p][v[4]] # 0
  PROVE  /\ Pruned(drop(m, p, v[4]), T, lev, root, p, L)
         /\ OneLook(m.table, drop(m, p, v[4]).table, T, top, v, 0)
<1> DEFINE n == drop(m, p, v[4])
           C == n.table
           e == m.table[p][v[4]]
           U == m.used
           B == m.table
<1>1. /\ m \in Mem /\ Forest(U, B, T, lev, root, 0, 0, L) BY DEF Pruned
<1>2. v[4] \in Idx BY PageIs
<1>3. Typed(U, B, T, lev, root) /\ Roots(U, T, lev, root) /\ Graded(U, B, lev, root) /\ OneParent(U, B, lev)
  BY <1>1 DEF Forest
<1>4. p \in U /\ lev[p] = 1 /\ p \in Frm BY <1>3, Nodes DEF Leads, Typed
<1>5. n \in Mem /\ n.used = U \ {e} /\ C[p][v[4]] = 0 /\ Differs(B, C, Frm, p, v[4])
  BY <1>1, <1>2, <1>4, DropIs
<1> HIDE DEF n
<1>6. Differs(B, C, U, p, v[4]) BY <1>3, <1>5 DEF Differs, Typed
<1>7. e \in U /\ lev[e] = 0 BY <1>2, <1>3, <1>4 DEF Graded
<1>8. C \in [Frm -> [Idx -> 0 .. FRAMES]] BY <1>5 DEF Mem
<1>9. Forest(U \ {e}, C, T, lev, root, p, 0, L)
  BY <1>1, <1>2, <1>4, <1>5, <1>6, <1>7, <1>8, DroppedForest
<1>10. Pruned(n, T, lev, root, p, L) BY <1>5, <1>9 DEF Pruned
<1>11. \A t \in U, j \in Idx : ~ (t = p /\ j = v[4]) => C[t][j] = B[t][j] BY <1>6 DEF Differs
<1>12. ASSUME NEW u \in T, NEW w \in Page
       PROVE  Look(C, u, w) = IF u = top /\ w = v THEN 0 ELSE Look(B, u, w)
  <2>1. Look(C, u, w) = IF u = top /\ w = v THEN C[p][v[4]] ELSE Look(B, u, w)
    <3>1. (v[1] # Kernel \/ T = {top}) /\ Leads(B, top, v, p) OBVIOUS
    <3> HIDE DEF B, U, C
    <3> QED BY <1>3, <1>11, <3>1, EntryLook
  <2> QED BY <1>5, <2>1
<1>13. OneLook(B, C, T, top, v, 0) BY <1>12 DEF OneLook
<1> QED BY <1>10, <1>13 DEF n

\* A table that has become empty goes: no page leads elsewhere for that.
LEMMA DropTable ==
  ASSUME NEW L, NEW m, NEW T, NEW lev, NEW root, NEW x, Pruned(m, T, lev, root, x, L), NEW t0 \in m.used,
         NEW j \in Idx, lev[t0] \in 2 .. 4, m.table[t0][j] = x, x # 0, empty(m, x),
         lev[t0] = 4 => j # Kernel /\ t0 # KernelPml4
  PROVE  /\ Pruned(drop(m, t0, j), T, lev, root, t0, L)
         /\ SameLooks(m.table, drop(m, t0, j).table, T)
<1> DEFINE n == drop(m, t0, j)
           C == n.table
           U == m.used
           B == m.table
<1>1. /\ m \in Mem /\ Forest(U, B, T, lev, root, x, 0, L) BY DEF Pruned
<1>2. Typed(U, B, T, lev, root) /\ Roots(U, T, lev, root) /\ Graded(U, B, lev, root)
  BY <1>1 DEF Forest
<1>3. t0 \in Frm /\ lev[t0] >= 1 /\ U \subseteq Frm BY <1>2 DEF Typed
<1>4. n \in Mem /\ n.used = U \ {x} /\ C[t0][j] = 0 /\ Differs(B, C, Frm, t0, j)
  BY <1>1, <1>3, DropIs
<1> HIDE DEF n
<1>5. Differs(B, C, U, t0, j) BY <1>3, <1>4 DEF Differs
<1>6. x \in U /\ x \in Frm /\ x # t0 BY <1>2, <1>3 DEF Graded
<1>7. \A k \in Idx : B[x][k] = 0 BY <1>1, <1>6, EmptyIs
<1>8. C \in [Frm -> [Idx -> 0 .. FRAMES]] BY <1>4 DEF Mem
<1>9. Forest(U \ {x}, C, T, lev, root, t0, 0, L)
  BY <1>1, <1>3, <1>4, <1>5, <1>7, <1>8, DroppedForest
<1>10. Pruned(n, T, lev, root, t0, L) BY <1>4, <1>9 DEF Pruned
<1>11. Hung(U \ {x}, C, B, x, t0, j)
  <2>1. \A t \in U \ {x}, k \in Idx : B[t][k] = IF t = t0 /\ k = j THEN x ELSE C[t][k]
    BY <1>5 DEF Differs
  <2> QED BY <1>4, <1>6, <1>7, <2>1 DEF Hung
<1>12. /\ Typed(U \ {x}, C, T, lev, root) /\ Roots(U \ {x}, T, lev, root)
       /\ Graded(U \ {x}, C, lev, root) /\ lev[t0] >= 2
  BY <1>9 DEF Forest
<1>13. SameLooks(B, C, T)
  <2>1. ASSUME NEW u \in T, NEW w \in Page PROVE Look(B, u, w) = Look(C, u, w)
    BY <1>11, <1>12, HungLook
  <2> QED BY <2>1 DEF SameLooks
<1> QED BY <1>10, <1>13 DEF n

\* The end of free_page: the table above is not empty, or is the top one.
LEMMA PrunedEnds ==
  ASSUME NEW L, NEW m, NEW T, NEW lev, NEW root, NEW x \in Frm, Pruned(m, T, lev, root, x, L),
         ~ empty(m, x) \/ lev[x] = 4
  PROVE  Shaped(m, T, L)
<1>1. m \in Mem /\ Forest(m.used, m.table, T, lev, root, x, 0, L) BY DEF Pruned
<1>2. lev[x] \notin 1 .. 3 \/ \E i \in Idx : m.table[x][i] # 0 BY <1>1, EmptyIs
<1>3. Forest(m.used, m.table, T, lev, root, 0, 0, L) BY <1>1, <1>2, NotEmpty
<1> QED BY <1>1, <1>3 DEF Shaped, IsForest

\* free_page unmaps the page and nothing else.
LEMMA FreePage ==
  ASSUME NEW L, NEW m, NEW T, Shaped(m, T, L), NEW top \in T, NEW v \in Page, top # KernelPml4,
         v[1] # Kernel, Look(m.table, top, v) # 0
  PROVE  /\ Shaped(free_page(m, top, v), T, L)
         /\ OneLook(m.table, free_page(m, top, v).table, T, top, v, 0)
<1> DEFINE p3 == Low(m.table, top, v[1])
           p2 == Low(m.table, p3, v[2])
           p1 == Low(m.table, p2, v[3])
           m1 == drop(m, p1, v[4])
           m2 == drop(m1, p2, v[3])
           m3 == drop(m2, p3, v[2])
           m4 == drop(m3, top, v[1])
           n == free_page(m, top, v)
<1>0. v[1] \in Idx /\ v[2] \in Idx /\ v[3] \in Idx /\ v[4] \in Idx BY PageIs
<1>1. PICK lev, root : Pruned(m, T, lev, root, 0, L) BY DEF Shaped, IsForest, Pruned
<1>2. m \in Mem /\ Forest(m.used, m.table, T, lev, root, 0, 0, L) BY <1>1 DEF Pruned
<1>3. /\ top \in m.used /\ lev[top] = 4 /\ top # 0
      /\ p3 = 0 \/ (p3 \in m.used /\ lev[p3] = 3 /\ p3 = m.table[top][v[1]])
      /\ p2 = 0 \/ (p2 \in m.used /\ lev[p2] = 2 /\ p3 # 0 /\ p2 = m.table[p3][v[2]])
      /\ p1 = 0 \/ (p1 \in m.used /\ lev[p1] = 1 /\ p2 # 0 /\ p1 = m.table[p2][v[3]])
  BY <1>2, Nodes DEF Forest
<1>4. Look(m.table, top, v) = Low(m.table, p1, v[4]) BY DEF Look
<1>5. n = IF Look(m.table, top, v) = 0 THEN m
          ELSE IF ~ empty(m1, p1) THEN m1
          ELSE IF ~ empty(m2, p2) THEN m2
          ELSE IF ~ empty(m3, p3) THEN m3 ELSE m4
  BY LookIs DEF free_page
<1>6. Leads(m.table, top, v, p1) BY <1>4 DEF Leads, Low
<1> HIDE DEF p1, p2, p3, n
<1>7. /\ p1 # 0 /\ m.table[p1][v[4]] # 0 BY <1>4 DEF Low
<1>8. /\ p3 \in m.used /\ lev[p3] = 3 /\ m.table[top][v[1]] = p3 /\ p3 # 0
      /\ p2 \in m.used /\ lev[p2] = 2 /\ m.table[p3][v[2]] = p2 /\ p2 # 0
      /\ p1 \in m.used /\ lev[p1] = 1 /\ m.table[p2][v[3]] = p1
  BY <1>3, <1>7
<1>9. /\ top \in Frm /\ p3 \in Frm /\ p2 \in Frm /\ p1 \in Frm BY <1>2, <1>3, <1>8 DEF Mem
<1>10. Pruned(m1, T, lev, root, p1, L) /\ OneLook(m.table, m1.table, T, top, v, 0)
  BY <1>1, <1>6, <1>7, DropPage
<1>11. CASE ~ empty(m1, p1)
  <2>1. n = m1 BY <1>5, <1>11
  <2> HIDE DEF m1
  <2>2. Shaped(m1, T, L) BY <1>9, <1>10, <1>11, PrunedEnds
  <2> QED BY <1>10, <2>1, <2>2 DEF n
<1>12. CASE empty(m1, p1)
  <2>1. /\ m1.used = m.used \ {m.table[p1][v[4]]} /\ Differs(m.table, m1.table, Frm, p1, v[4])
    <3>1. m \in Mem /\ p1 \in Frm /\ v[4] \in Idx BY <1>0, <1>2, <1>9
    <3> QED BY <3>1, DropIs
  <2>2. lev[m.table[p1][v[4]]] = 0 BY <1>0, <1>2, <1>7, <1>8 DEF Forest, Graded
  <2>3. /\ p3 \in m1.used /\ p2 \in m1.used /\ top \in m1.used
    BY <1>3, <1>8, <2>1, <2>2
  <2>4. m1.table[p2][v[3]] = p1 /\ m1.table[p3][v[2]] = p2 /\ m1.table[top][v[1]] = p3
    BY <1>0, <1>3, <1>8, <1>9, <2>1 DEF Differs
  <2> HIDE DEF m1
  <2>5. Pruned(m2, T, lev, root, p2, L) /\ SameLooks(m1.table, m2.table, T)
    BY <1>0, <1>7, <1>8, <1>10, <1>12, <2>3, <2>4, DropTable
  <2>6. m1 \in Mem BY <1>10 DEF Pruned
  <2>7. /\ m2.used = m1.used \ {p1} /\ Differs(m1.table, m2.table, Frm, p2, v[3])
    <3>1. m1 \in Mem /\ p2 \in Frm /\ v[3] \in Idx BY <1>0, <1>9, <2>6
    <3>2. /\ m2.used = m1.used \ {m1.table[p2][v[3]]} /\ Differs(m1.table, m2.table, Frm, p2, v[3])
      BY <3>1, DropIs
    <3> QED BY <2>4, <3>2
  <2> HIDE DEF m2
  <2>8. OneLook(m.table, m2.table, T, top, v, 0) BY <1>10, <2>5 DEF OneLook, SameLooks
  <2>9. CASE ~ empty(m2, p2)
    <3>1. n = m2 BY <1>5, <1>7, <1>12, <2>9
    <3>2. Shaped(m2, T, L) BY <1>9, <2>5, <2>9, PrunedEnds
    <3> QED BY <2>8, <3>1, <3>2 DEF n
  <2>10. CASE empty(m2, p2)
    <3>1. p3 \in m2.used /\ top \in m2.used BY <1>3, <1>8, <2>3, <2>7
    <3>2. m2.table[p3][v[2]] = p2 /\ m2.table[top][v[1]] = p3
      BY <1>0, <1>3, <1>8, <1>9, <2>4, <2>7 DEF Differs
    <3>3. Pruned(m3, T, lev, root, p3, L) /\ SameLooks(m2.table, m3.table, T)
      BY <1>0, <1>8, <2>5, <2>10, <3>1, <3>2, DropTable
    <3>4. m2 \in Mem BY <2>5 DEF Pruned
    <3>5. /\ m3.used = m2.used \ {p2} /\ Differs(m2.table, m3.table, Frm, p3, v[2])
      <4>1. m2 \in Mem /\ p3 \in Frm /\ v[2] \in Idx BY <1>0, <1>9, <3>4
      <4>2. /\ m3.used = m2.used \ {m2.table[p3][v[2]]} /\ Differs(m2.table, m3.table, Frm, p3, v[2])
        BY <4>1, DropIs
      <4> QED BY <3>2, <4>2
    <3> HIDE DEF m3
    <3>6. OneLook(m.table, m3.table, T, top, v, 0) BY <2>8, <3>3 DEF OneLook, SameLooks
    <3>7. CASE ~ empty(m3, p3)
      <4>1. n = m3 BY <1>5, <1>7, <1>12, <2>10, <3>7
      <4>2. Shaped(m3, T, L) BY <1>9, <3>3, <3>7, PrunedEnds
      <4> QED BY <3>6, <4>1, <4>2 DEF n
    <3>8. CASE empty(m3, p3)
      <4>1. top \in m3.used BY <1>3, <1>8, <3>1, <3>5
      <4>2. m3.table[top][v[1]] = p3
        BY <1>0, <1>3, <1>8, <1>9, <3>2, <3>5 DEF Differs
      <4>3. Pruned(m4, T, lev, root, top, L) /\ SameLooks(m3.table, m4.table, T)
        BY <1>0, <1>3, <1>8, <3>3, <3>8, <4>1, <4>2, DropTable
      <4> HIDE DEF m4
      <4>4. OneLook(m.table, m4.table, T, top, v, 0) BY <3>6, <4>3 DEF OneLook, SameLooks
      <4>5. n = m4 BY <1>5, <1>7, <1>12, <2>10, <3>8
      <4>6. Shaped(m4, T, L) BY <1>3, <1>9, <4>3, PrunedEnds
      <4> QED BY <4>4, <4>5, <4>6 DEF n
    <3> QED BY <3>7, <3>8
  <2> QED BY <2>9, <2>10
<1> QED BY <1>11, <1>12

-----------------------------------------------------------------------------
(* Frames that come and go whole: a page frame, a top table.               *)

\* Walks do not see frames that are not in use.
LEMMA WalkSame ==
  ASSUME NEW U, NEW B, NEW C, NEW T, NEW lev, NEW root, Typed(U, B, T, lev, root),
         Roots(U, T, lev, root), Graded(U, B, lev, root),
         \A t \in U, j \in Idx : C[t][j] = B[t][j], NEW u \in T, NEW w \in Page
  PROVE  Look(C, u, w) = Look(B, u, w)
<1> DEFINE n3 == Low(B, u, w[1])
           n2 == Low(B, n3, w[2])
           n1 == Low(B, n2, w[3])
<1>1. w[1] \in Idx /\ w[2] \in Idx /\ w[3] \in Idx /\ w[4] \in Idx BY PageIs
<1>2. /\ u \in U
      /\ n3 = 0 \/ n3 \in U
      /\ n2 = 0 \/ n2 \in U
      /\ n1 = 0 \/ n1 \in U
  BY Nodes
<1>3. \A a, j : (a = 0 \/ a \in U) /\ j \in Idx => Low(C, a, j) = Low(B, a, j) BY DEF Low
<1>4. Low(C, u, w[1]) = n3 BY <1>1, <1>2, <1>3
<1>5. Low(C, n3, w[2]) = n2 BY <1>1, <1>2, <1>3
<1>6. Low(C, n2, w[3]) = n1 BY <1>1, <1>2, <1>3
<1>7. Low(C, n1, w[4]) = Low(B, n1, w[4]) BY <1>1, <1>2, <1>3
<1> QED BY <1>4, <1>5, <1>6, <1>7 DEF Look

\* Some grading makes the frames a forest but for the page frame f.
IsLoose(U, C, T, f, L) == \E lev, root : Forest(U, C, T, lev, root, 0, f, L)

\* A page frame is taken and is in nobody's tables yet.
LEMMA LooseForest ==
  ASSUME NEW L, NEW U, NEW B, NEW C, NEW T, IsForest(U, B, T, L), NEW f \in Frm, f \notin U,
         C \in [Frm -> [Idx -> 0 .. FRAMES]], \A t \in U, j \in Idx : C[t][j] = B[t][j]
  PROVE  IsLoose(U \cup {f}, C, T, f, L) /\ SameLooks(B, C, T)
<1>1. PICK lev, root : Forest(U, B, T, lev, root, 0, 0, L) BY DEF IsForest
<1> DEFINE V == U \cup {f}
           lev2 == [lev EXCEPT ![f] = 0]
           root2 == [root EXCEPT ![f] = KernelPml4]
<1>2. /\ U \subseteq Frm /\ lev \in [Frm -> 0 .. 4] /\ root \in [Frm -> Frm]
      /\ T \subseteq U /\ KernelPml4 \in T /\ KernelPml4 \in Frm /\ f # 0 /\ 0 \notin U
  BY <1>1, PagesAre DEF Forest, Typed
<1>3. /\ lev2 \in [Frm -> 0 .. 4] /\ lev2[f] = 0 /\ \A t \in U : lev2[t] = lev[t]
      /\ root2 \in [Frm -> Frm] /\ root2[f] = KernelPml4 /\ \A t \in U : root2[t] = root[t]
  BY <1>2
<1> HIDE DEF lev2, root2
<1>4. Typed(V, C, T, lev2, root2) BY <1>2, <1>3 DEF Typed
<1>5. Roots(V, T, lev2, root2) BY <1>1, <1>2, <1>3 DEF Forest, Roots
<1>6. \A t \in U, j \in Idx : lev[t] >= 1 /\ C[t][j] # 0 => C[t][j] \in U /\ C[t][j] # f
  BY <1>1 DEF Forest, Graded
<1>7. Graded(V, C, lev2, root2)
  <2> SUFFICES ASSUME NEW t \in V, NEW k \in Idx, lev2[t] >= 1, C[t][k] # 0
               PROVE  /\ C[t][k] \in V /\ lev2[C[t][k]] = lev2[t] - 1
                      /\ root2[C[t][k]] = IF lev2[t] = 4 /\ k = Kernel THEN KernelPml4 ELSE root2[t]
    BY DEF Graded
  <2>1. t \in U /\ lev[t] >= 1 BY <1>3
  <2>2. C[t][k] = B[t][k] BY <2>1
  <2>3. /\ B[t][k] \in U /\ lev[B[t][k]] = lev[t] - 1
        /\ root[B[t][k]] = IF lev[t] = 4 /\ k = Kernel THEN KernelPml4 ELSE root[t]
    BY <1>1, <2>1, <2>2 DEF Forest, Graded
  <2> QED BY <1>3, <2>1, <2>2, <2>3
<1>8. OneParent(V, C, lev2)
  <2> SUFFICES ASSUME NEW t \in V, NEW u \in V, NEW i \in Idx, NEW k \in Idx, lev2[t] >= 1,
                      lev2[u] >= 1, C[t][i] # 0, C[t][i] = C[u][k]
               PROVE  (t = u /\ i = k) \/ (lev2[t] = 4 /\ lev2[u] = 4 /\ i = Kernel /\ k = Kernel)
    BY DEF OneParent
  <2>1. t \in U /\ u \in U /\ lev[t] >= 1 /\ lev[u] >= 1 BY <1>3
  <2>2. B[t][i] = C[t][i] /\ B[u][k] = C[u][k] BY <2>1
  <2> QED BY <1>1, <1>3, <2>1, <2>2 DEF Forest, OneParent
<1>9. HasParent(V, C, lev2, f, L)
  <2> SUFFICES ASSUME NEW y \in V, lev2[y] < 4, y # f, y \notin L
               PROVE  \E t \in V, k \in Idx : lev2[t] >= 1 /\ C[t][k] = y
    BY DEF HasParent
  <2>1. y \in U /\ lev[y] < 4 /\ y # 0 BY <1>2, <1>3
  <2>2. PICK t \in U, k \in Idx : lev[t] >= 1 /\ B[t][k] = y
    BY <1>1, <2>1 DEF Forest, HasParent
  <2> QED BY <1>3, <2>2
<1>10. Loose(V, C, lev2, f, L)
  <2>1. Unused(V, C, lev2, f) BY <1>2, <1>3, <1>6 DEF Unused
  <2>2. ASSUME NEW l \in L PROVE Unused(V, C, lev2, l) /\ l # f
    <3>1. Unused(U, B, lev, l) BY <1>1 DEF Forest, Loose
    <3>2. l \in U /\ lev[l] = 0 /\ \A t \in U, i \in Idx : lev[t] >= 1 => B[t][i] # l BY <3>1 DEF Unused
    <3>3. ASSUME NEW t \in V, NEW i \in Idx, lev2[t] >= 1 PROVE C[t][i] # l
      <4>1. t \in U /\ lev[t] >= 1 BY <1>3, <3>3
      <4> QED BY <3>2, <4>1
    <3>4. l \in V /\ lev2[l] = 0 /\ l # f BY <1>3, <3>2
    <3> QED BY <3>3, <3>4 DEF Unused
  <2> QED BY <2>1, <2>2 DEF Loose
<1>11. KernelHalf(C, T) BY <1>1, <1>2, PagesAre DEF Forest, KernelHalf
<1>12. NoneEmpty(V, C, lev2, 0, L)
  <2> SUFFICES ASSUME L = {}, NEW t \in V, lev2[t] \in 1 .. 3 PROVE \E k \in Idx : C[t][k] # 0
    BY DEF NoneEmpty
  <2>1. t \in U /\ lev[t] \in 1 .. 3 /\ t # 0 BY <1>2, <1>3
  <2>2. \E k \in Idx : B[t][k] # 0 BY <1>1, <2>1 DEF Forest, NoneEmpty
  <2> QED BY <2>1, <2>2
<1>13. Forest(V, C, T, lev2, root2, 0, f, L)
  BY <1>4, <1>5, <1>7, <1>8, <1>9, <1>10, <1>11, <1>12 DEF Forest
<1>14. SameLooks(B, C, T)
  <2>1. ASSUME NEW u \in T, NEW w \in Page PROVE Look(C, u, w) = Look(B, u, w)
    BY <1>1, WalkSame DEF Forest
  <2> QED BY <2>1 DEF SameLooks
<1> QED BY <1>13, <1>14 DEF IsLoose

\* The top table of a new space: the kernel's half and nothing else.
LEMMA NewTopForest ==
  ASSUME NEW L, NEW U, NEW B, NEW C, NEW T, IsForest(U, B, T, L), NEW g \in Frm, g \notin U,
         C \in [Frm -> [Idx -> 0 .. FRAMES]], \A t \in U, j \in Idx : C[t][j] = B[t][j],
         \A j \in Idx : C[g][j] = IF j = Kernel THEN B[KernelPml4][Kernel] ELSE 0
  PROVE  IsForest(U \cup {g}, C, T \cup {g}, L) /\ SameLooks(B, C, T)
<1>1. PICK lev, root : Forest(U, B, T, lev, root, 0, 0, L) BY DEF IsForest
<1> DEFINE V == U \cup {g}
           S == T \cup {g}
           lev2 == [lev EXCEPT ![g] = 4]
           root2 == [root EXCEPT ![g] = g]
           e == B[KernelPml4][Kernel]
<1>2. /\ U \subseteq Frm /\ lev \in [Frm -> 0 .. 4] /\ root \in [Frm -> Frm]
      /\ T \subseteq U /\ KernelPml4 \in T /\ KernelPml4 \in Frm /\ g # 0 /\ 0 \notin U
      /\ KernelPml4 \in U /\ Kernel \in Idx
  BY <1>1, PagesAre DEF Forest, Typed
<1>3. /\ lev2 \in [Frm -> 0 .. 4] /\ lev2[g] = 4 /\ \A t \in U : lev2[t] = lev[t]
      /\ root2 \in [Frm -> Frm] /\ root2[g] = g /\ \A t \in U : root2[t] = root[t]
  BY <1>2
<1> HIDE DEF lev2, root2
<1>4. Typed(V, C, S, lev2, root2) BY <1>2, <1>3 DEF Typed
<1>5. Roots(V, S, lev2, root2) BY <1>1, <1>2, <1>3 DEF Forest, Roots
<1>6. lev[KernelPml4] = 4 BY <1>1, <1>2 DEF Forest, Roots
<1>7. e # 0 => e \in U /\ lev[e] = 3 /\ root[e] = KernelPml4
  BY <1>1, <1>2, <1>6 DEF Forest, Graded
<1>8. Graded(V, C, lev2, root2)
  <2> SUFFICES ASSUME NEW t \in V, NEW k \in Idx, lev2[t] >= 1, C[t][k] # 0
               PROVE  /\ C[t][k] \in V /\ lev2[C[t][k]] = lev2[t] - 1
                      /\ root2[C[t][k]] = IF lev2[t] = 4 /\ k = Kernel THEN KernelPml4 ELSE root2[t]
    BY DEF Graded
  <2>1. CASE t = g
    <3>1. k = Kernel /\ C[t][k] = e BY <2>1
    <3>2. e \in U /\ lev2[e] = 3 /\ root2[e] = KernelPml4 BY <1>3, <1>7, <3>1
    <3> HIDE DEF e
    <3> QED BY <1>3, <2>1, <3>1, <3>2
  <2>2. CASE t \in U
    <3>1. C[t][k] = B[t][k] /\ lev[t] >= 1 BY <1>3, <2>2
    <3>2. /\ B[t][k] \in U /\ lev[B[t][k]] = lev[t] - 1
          /\ root[B[t][k]] = IF lev[t] = 4 /\ k = Kernel THEN KernelPml4 ELSE root[t]
      BY <1>1, <2>2, <3>1 DEF Forest, Graded
    <3> QED BY <1>3, <2>2, <3>1, <3>2
  <2> QED BY <2>1, <2>2
<1>9. OneParent(V, C, lev2)
  <2> SUFFICES ASSUME NEW t \in V, NEW u \in V, NEW i \in Idx, NEW k \in Idx, lev2[t] >= 1,
                      lev2[u] >= 1, C[t][i] # 0, C[t][i] = C[u][k]
               PROVE  (t = u /\ i = k) \/ (lev2[t] = 4 /\ lev2[u] = 4 /\ i = Kernel /\ k = Kernel)
    BY DEF OneParent
  <2>0. \A y, z \in U, a, b \in Idx : lev[y] >= 1 /\ lev[z] >= 1 /\ B[y][a] # 0 /\ B[y][a] = B[z][b] =>
            (y = z /\ a = b) \/ (lev[y] = 4 /\ lev[z] = 4 /\ a = Kernel /\ b = Kernel)
    BY <1>1 DEF Forest, OneParent
  <2>1. \A y \in U, a \in Idx : lev[y] >= 1 /\ B[y][a] = e /\ e # 0 => lev[y] = 4 /\ a = Kernel
    BY <1>2, <1>6, <2>0
  <2>2. CASE t = g /\ u = g BY <1>3, <2>2
  <2>3. CASE t = g /\ u \in U
    <3>1. i = Kernel /\ C[t][i] = e /\ B[u][k] = e /\ lev[u] >= 1 BY <1>3, <2>3
    <3> HIDE DEF e
    <3> QED BY <1>3, <2>1, <2>3, <3>1
  <2>4. CASE t \in U /\ u = g
    <3>1. k = Kernel /\ C[u][k] = e /\ B[t][i] = e /\ lev[t] >= 1 BY <1>3, <2>4
    <3> HIDE DEF e
    <3> QED BY <1>3, <2>1, <2>4, <3>1
  <2>5. CASE t \in U /\ u \in U
    <3>1. B[t][i] = C[t][i] /\ B[u][k] = C[u][k] /\ lev[t] >= 1 /\ lev[u] >= 1 BY <1>3, <2>5
    <3> QED BY <1>3, <2>0, <2>5, <3>1
  <2> QED BY <2>2, <2>3, <2>4, <2>5
<1>10. HasParent(V, C, lev2, 0, L)
  <2> SUFFICES ASSUME NEW y \in V, lev2[y] < 4, y # 0, y \notin L
               PROVE  \E t \in V, k \in Idx : lev2[t] >= 1 /\ C[t][k] = y
    BY DEF HasParent
  <2>1. y \in U /\ lev[y] < 4 BY <1>3
  <2>2. PICK t \in U, k \in Idx : lev[t] >= 1 /\ B[t][k] = y
    BY <1>1, <2>1 DEF Forest, HasParent
  <2> QED BY <1>3, <2>2
<1>11. Loose(V, C, lev2, 0, L)
  <2> SUFFICES ASSUME NEW l \in L PROVE Unused(V, C, lev2, l) BY DEF Loose
  <2>1. Unused(U, B, lev, l) BY <1>1 DEF Forest, Loose
  <2>2. ASSUME NEW j \in Idx PROVE C[g][j] # l
    <3>1. l # 0 /\ (e # 0 => e # l) BY <1>2, <1>6, <2>1 DEF Unused
    <3> QED BY <3>1
  <2>3. l \in U /\ lev[l] = 0 /\ \A t \in U, i \in Idx : lev[t] >= 1 => B[t][i] # l BY <2>1 DEF Unused
  <2>4. ASSUME NEW t \in V, NEW i \in Idx, lev2[t] >= 1 PROVE C[t][i] # l
    <3>1. CASE t = g BY <2>2, <3>1
    <3>2. CASE t \in U
      <4>1. C[t][i] = B[t][i] /\ lev[t] >= 1 BY <1>3, <2>4, <3>2
      <4> QED BY <2>3, <3>2, <4>1
    <3> QED BY <3>1, <3>2
  <2>5. l \in V /\ lev2[l] = 0 BY <1>3, <2>3
  <2> QED BY <2>4, <2>5 DEF Unused
<1>12. KernelHalf(C, S)
  <2>1. KernelHalf(B, T) BY <1>1 DEF Forest
  <2>2. \A t \in T : C[t][Kernel] = e BY <1>2, <2>1 DEF KernelHalf
  <2>3. \A j \in Idx : j # Kernel => C[KernelPml4][j] = 0 BY <1>2, <2>1 DEF KernelHalf
  <2>4. C[g][Kernel] = e BY <1>2
  <2> QED BY <1>2, <2>2, <2>3, <2>4 DEF KernelHalf
<1>13. NoneEmpty(V, C, lev2, 0, L)
  <2> SUFFICES ASSUME L = {}, NEW t \in V, lev2[t] \in 1 .. 3 PROVE \E k \in Idx : C[t][k] # 0
    BY DEF NoneEmpty
  <2>1. t \in U /\ lev[t] \in 1 .. 3 /\ t # 0 BY <1>2, <1>3
  <2>2. \E k \in Idx : B[t][k] # 0 BY <1>1, <2>1 DEF Forest, NoneEmpty
  <2> QED BY <2>1, <2>2
<1>14. Forest(V, C, S, lev2, root2, 0, 0, L)
  BY <1>4, <1>5, <1>8, <1>9, <1>10, <1>11, <1>12, <1>13 DEF Forest
<1>15. SameLooks(B, C, T)
  <2>1. ASSUME NEW u \in T, NEW w \in Page PROVE Look(C, u, w) = Look(B, u, w)
    BY <1>1, WalkSame DEF Forest
  <2> QED BY <2>1 DEF SameLooks
<1> QED BY <1>14, <1>15 DEF IsForest

\* The top table of a space goes; what was below it is lost.
LEMMA DropTopForest ==
  ASSUME NEW L, NEW U, NEW B, NEW T, NEW lev, NEW root, Forest(U, B, T, lev, root, 0, 0, L),
         NEW p \in T, p # KernelPml4,
         NEW D, \A e : e \in D <=> e \in U /\ e \notin L /\ root[e] = p /\ e # p
  PROVE  IsForest(U \ {p}, B, T \ {p}, L \cup D)
<1> DEFINE V == U \ {p}
           S == T \ {p}
           K == L \cup D
           lev2 == [e \in Frm |-> IF e \in D THEN 0 ELSE lev[e]]
           root2 == [e \in Frm |-> IF root[e] = p THEN KernelPml4 ELSE root[e]]
<1>1. /\ U \subseteq Frm /\ lev \in [Frm -> 0 .. 4] /\ root \in [Frm -> Frm]
      /\ T \subseteq U /\ KernelPml4 \in T /\ Kernel \in Idx /\ 0 \notin U /\ KernelPml4 \in Frm
  BY PagesAre DEF Forest, Typed
<1>2. \A t \in U : (lev[t] = 4 <=> t \in T) /\ (t \in T => root[t] = t) /\ root[t] \in T
  BY <1>1 DEF Forest, Roots
<1>3. \A l \in L : l \in U /\ lev[l] = 0 BY DEF Forest, Loose, Unused
<1>4. /\ lev2 \in [Frm -> 0 .. 4] /\ root2 \in [Frm -> Frm]
      /\ \A e \in U : lev2[e] = IF e \in D THEN 0 ELSE lev[e]
      /\ \A e \in U : root2[e] = IF root[e] = p THEN KernelPml4 ELSE root[e]
  BY <1>1
<1> HIDE DEF lev2, root2
\* A table that is still one is not of the space that goes.
<1>5. ASSUME NEW t \in V, lev2[t] >= 1
      PROVE  lev2[t] = lev[t] /\ root[t] # p /\ root2[t] = root[t] /\ t \notin L
  BY <1>3, <1>4, <1>5
<1>6. ASSUME NEW t \in V, NEW k \in Idx, lev2[t] >= 1, B[t][k] # 0
      PROVE  /\ B[t][k] \in V /\ B[t][k] \notin K /\ lev[B[t][k]] = lev[t] - 1
             /\ root[B[t][k]] = IF lev[t] = 4 /\ k = Kernel THEN KernelPml4 ELSE root[t]
  <2>1. lev[t] >= 1 /\ root[t] # p BY <1>5, <1>6
  <2>2. /\ B[t][k] \in U /\ lev[B[t][k]] = lev[t] - 1
        /\ root[B[t][k]] = IF lev[t] = 4 /\ k = Kernel THEN KernelPml4 ELSE root[t]
    BY <1>6, <2>1 DEF Forest, Graded
  <2>3. root[B[t][k]] # p BY <2>1, <2>2
  <2>4. root[p] = p BY <1>1, <1>2
  <2>5. B[t][k] \notin L BY <2>1 DEF Forest, Loose, Unused
  <2> QED BY <2>2, <2>3, <2>4, <2>5
<1>7. Typed(V, B, S, lev2, root2) BY <1>1, <1>4 DEF Forest, Typed
<1>8. Roots(V, S, lev2, root2) BY <1>1, <1>2, <1>4 DEF Roots
<1>9. Graded(V, B, lev2, root2)
  <2> SUFFICES ASSUME NEW t \in V, NEW k \in Idx, lev2[t] >= 1, B[t][k] # 0
               PROVE  /\ B[t][k] \in V /\ lev2[B[t][k]] = lev2[t] - 1
                      /\ root2[B[t][k]] = IF lev2[t] = 4 /\ k = Kernel THEN KernelPml4 ELSE root2[t]
    BY DEF Graded
  <2>1. lev2[t] = lev[t] /\ root[t] # p /\ root2[t] = root[t] BY <1>5
  <2>2. /\ B[t][k] \in V /\ B[t][k] \notin K /\ lev[B[t][k]] = lev[t] - 1
        /\ root[B[t][k]] = IF lev[t] = 4 /\ k = Kernel THEN KernelPml4 ELSE root[t]
    BY <1>6
  <2>3. root[B[t][k]] # p BY <2>1, <2>2
  <2> QED BY <1>4, <2>1, <2>2, <2>3
<1>10. OneParent(V, B, lev2)
  <2> SUFFICES ASSUME NEW t \in V, NEW u \in V, NEW i \in Idx, NEW k \in Idx, lev2[t] >= 1,
                      lev2[u] >= 1, B[t][i] # 0, B[t][i] = B[u][k]
               PROVE  (t = u /\ i = k) \/ (lev2[t] = 4 /\ lev2[u] = 4 /\ i = Kernel /\ k = Kernel)
    BY DEF OneParent
  <2>1. lev2[t] = lev[t] /\ lev2[u] = lev[u] BY <1>5
  <2> QED BY <2>1 DEF Forest, OneParent
<1>11. HasParent(V, B, lev2, 0, K)
  <2> SUFFICES ASSUME NEW y \in V, lev2[y] < 4, y # 0, y \notin K
               PROVE  \E t \in V, k \in Idx : lev2[t] >= 1 /\ B[t][k] = y
    BY DEF HasParent
  <2>1. lev[y] < 4 /\ root[y] # p BY <1>4
  <2>2. PICK t \in U, k \in Idx : lev[t] >= 1 /\ B[t][k] = y
    BY <2>1 DEF Forest, HasParent
  <2>3. root[y] = IF lev[t] = 4 /\ k = Kernel THEN KernelPml4 ELSE root[t]
    BY <2>2 DEF Forest, Graded
  <2>4. CASE root[t] = p
    <3>1. lev[t] = 4 /\ k = Kernel /\ t \in T BY <1>2, <2>1, <2>3, <2>4
    <3>2. B[KernelPml4][Kernel] = y BY <2>2, <3>1 DEF Forest, KernelHalf
    <3>3. KernelPml4 \in V /\ lev2[KernelPml4] = 4 BY <1>1, <1>2, <1>4
    <3> QED BY <1>1, <3>2, <3>3
  <2>5. CASE root[t] # p
    <3>1. t \in V /\ lev2[t] = lev[t] BY <1>1, <1>2, <1>4, <2>5
    <3> QED BY <2>2, <3>1
  <2> QED BY <2>4, <2>5
<1>12. Loose(V, B, lev2, 0, K)
  <2> SUFFICES ASSUME NEW l \in K PROVE Unused(V, B, lev2, l) BY DEF Loose
  <2>1. l \in U /\ lev2[l] = 0 BY <1>3, <1>4
  <2>2. l # p
    <3>1. p \in U /\ lev[p] = 4 BY <1>1, <1>2
    <3> QED BY <1>3, <3>1
  <2>3. l # 0 BY <1>1, <2>1
  <2>4. \A t \in V, k \in Idx : lev2[t] >= 1 => B[t][k] # l BY <1>6, <2>3
  <2> QED BY <2>1, <2>2, <2>4 DEF Unused
<1>13. KernelHalf(B, S) BY DEF Forest, KernelHalf
<1>14. NoneEmpty(V, B, lev2, 0, K)
  <2> SUFFICES ASSUME K = {}, NEW t \in V, lev2[t] \in 1 .. 3 PROVE \E k \in Idx : B[t][k] # 0
    BY DEF NoneEmpty
  <2>1. L = {} /\ lev[t] = lev2[t] /\ t # 0 BY <1>1, <1>5
  <2> QED BY <2>1 DEF Forest, NoneEmpty
<1>15. Forest(V, B, S, lev2, root2, 0, 0, K)
  BY <1>7, <1>8, <1>9, <1>10, <1>11, <1>12, <1>13, <1>14 DEF Forest
<1> QED BY <1>15 DEF IsForest

-----------------------------------------------------------------------------
(* The inductive invariant, of frames U, tables B, top tables P.           *)

Tops(P) == {KernelPml4} \cup ({P[s] : s \in PTSpaces} \ {0})

\* Every space has a top table of its own, and none exists during boot.
OwnTops(P, boot) ==
    /\ P \in [PTSpaces -> 0 .. FRAMES]
    /\ \A s \in PTSpaces : P[s] # KernelPml4 /\ (boot => P[s] = 0)
    /\ \A s, u \in PTSpaces : P[s] # 0 /\ P[s] = P[u] => s = u

\* Outside the kernel's half a space maps only what programs map.
UserLeaves(B, P) ==
    \A s \in PTSpaces, w \in Page :
        P[s] # 0 /\ w[1] # Kernel /\ Look(B, P[s], w) # 0 => w \in UserPages

HeapMapped(B) == \A v \in KernelPages : Look(B, KernelPml4, v) # 0

HeapShared(B, P) ==
    \A s \in PTSpaces, v \in KernelPages :
        P[s] # 0 => Look(B, P[s], v) = Look(B, KernelPml4, v) /\ Look(B, KernelPml4, v) # 0

\* Until a call is undone no frame is lost.
Books(U, B, P, boot, L, n) ==
    /\ IsForest(U, B, Tops(P), L) /\ UserLeaves(B, P) /\ (~ boot => HeapMapped(B))
    /\ n = "no" => L = {}

\* The kernel that has panicked keeps its heap in every space; the one that
\* lives keeps the whole forest.
SoundAt(U, B, P, boot, halt, L, n) ==
    /\ boot \in BOOLEAN /\ halt \in BOOLEAN /\ OwnTops(P, boot)
    /\ ~ boot => HeapShared(B, P)
    /\ ~ halt => Books(U, B, P, boot, L, n)

PTInv == SoundAt(pt_used, table, pml4, booting, halted, lost, undo)

\* The forest shares the kernel's heap.
LEMMA ForestShares ==
  ASSUME NEW L, NEW U, NEW B, NEW P, IsForest(U, B, Tops(P), L), HeapMapped(B)
  PROVE  HeapShared(B, P)
<1> SUFFICES ASSUME NEW s \in PTSpaces, NEW v \in KernelPages, P[s] # 0
             PROVE  Look(B, P[s], v) = Look(B, KernelPml4, v)
  BY DEF HeapShared, HeapMapped
<1>1. PICK lev, root : Forest(U, B, Tops(P), lev, root, 0, 0, L) BY DEF IsForest
<1>2. P[s] \in Tops(P) BY DEF Tops
<1>3. P[s] # 0 /\ KernelPml4 # 0 /\ v[1] = Kernel BY PagesAre
<1>4. B[P[s]][Kernel] = B[KernelPml4][Kernel] BY <1>1, <1>2 DEF Forest, KernelHalf
<1>5. Low(B, P[s], v[1]) = Low(B, KernelPml4, v[1]) BY <1>3, <1>4 DEF Low
<1> QED BY <1>5 DEF Look

\* The frames and the tables have their types.
LEMMA ForestTypes ==
  ASSUME NEW L, NEW U, NEW B, NEW T, IsForest(U, B, T, L)
  PROVE  /\ U \subseteq Frm /\ B \in [Frm -> [Idx -> 0 .. FRAMES]]
         /\ T \subseteq U /\ KernelPml4 \in T /\ [used |-> U, table |-> B] \in Mem
<1>1. PICK lev, root : Forest(U, B, T, lev, root, 0, 0, L) BY DEF IsForest
<1>2. U \subseteq Frm /\ B \in [Frm -> [Idx -> 0 .. FRAMES]] /\ T \subseteq U /\ KernelPml4 \in T
  BY <1>1 DEF Forest, Typed
<1> QED BY <1>2 DEF Mem

\* The invariant holds before paging_init.
LEMMA InitKept == PageTablesInit => PTInv
<1> SUFFICES ASSUME PageTablesInit PROVE PTInv OBVIOUS
<1>1. /\ pt_used = {KernelPml4} /\ pml4 = [s \in PTSpaces |-> 0] /\ booting = TRUE /\ halted = FALSE
      /\ table = [f \in 1 .. FRAMES |-> IF f = KernelPml4 THEN Empty ELSE Junk] /\ lost = {}
  BY DEF PageTablesInit
<1>2. KernelPml4 \in Frm /\ KernelPml4 \in 0 .. FRAMES /\ 0 \in 0 .. FRAMES /\ KernelPml4 # 0 /\ Kernel \in Idx
  BY PageTablesAssumption DEF KernelPml4, Frm
<1>3. Empty \in [Idx -> 0 .. FRAMES] /\ Junk \in [Idx -> 0 .. FRAMES] /\ \A i \in Idx : Empty[i] = 0
  BY <1>2 DEF Empty, Junk
<1>4. table \in [Frm -> [Idx -> 0 .. FRAMES]] /\ \A i \in Idx : table[KernelPml4][i] = 0
  BY <1>1, <1>2, <1>3 DEF Frm
<1>5. OwnTops(pml4, booting) BY <1>1, <1>2 DEF OwnTops
<1>6. Tops(pml4) = {KernelPml4} BY <1>1 DEF Tops
<1>7. UserLeaves(table, pml4) BY <1>1 DEF UserLeaves
<1> DEFINE lev == [g \in Frm |-> 4]
           root == [g \in Frm |-> KernelPml4]
<1>8. Forest({KernelPml4}, table, {KernelPml4}, lev, root, 0, 0, {})
  <2>1. Typed({KernelPml4}, table, {KernelPml4}, lev, root) BY <1>2, <1>4 DEF Typed
  <2>2. Roots({KernelPml4}, {KernelPml4}, lev, root) BY <1>2 DEF Roots
  <2>3. Graded({KernelPml4}, table, lev, root) BY <1>4 DEF Graded
  <2>4. OneParent({KernelPml4}, table, lev) BY <1>4 DEF OneParent
  <2>5. HasParent({KernelPml4}, table, lev, 0, {}) BY <1>2 DEF HasParent
  <2>6. Loose({KernelPml4}, table, lev, 0, {}) BY DEF Loose
  <2>7. KernelHalf(table, {KernelPml4}) BY <1>4 DEF KernelHalf
  <2>8. NoneEmpty({KernelPml4}, table, lev, 0, {}) BY <1>2 DEF NoneEmpty
  <2> QED BY <2>1, <2>2, <2>3, <2>4, <2>5, <2>6, <2>7, <2>8 DEF Forest
<1>9. IsForest(pt_used, table, Tops(pml4), lost) BY <1>1, <1>6, <1>8 DEF IsForest
<1> QED BY <1>1, <1>5, <1>7, <1>9 DEF PTInv, SoundAt, Books

-----------------------------------------------------------------------------
(* The frames of a space, level by level.                                  *)

\* The frames of level k that belong to the top table r.
Of(lev, root, k, r) == {e \in pt_used \ lost : lev[e] = k /\ root[e] = r}

\* Lost frames are no tables, and no table refers to them.
LEMMA LostAre ==
  ASSUME NEW CONSTANT T, NEW CONSTANT lev, NEW CONSTANT root,
         Forest(pt_used, table, T, lev, root, 0, 0, lost)
  PROVE  /\ \A l \in lost : l \in pt_used /\ lev[l] = 0
         /\ \A t \in pt_used, i \in Idx : lev[t] >= 1 => table[t][i] \notin lost
BY DEF Forest, Loose, Unused

\* One level down.
LEMMA LevelBelow ==
  ASSUME NEW CONSTANT T, NEW CONSTANT lev, NEW CONSTANT root,
         Forest(pt_used, table, T, lev, root, 0, 0, lost), NEW CONSTANT r, NEW CONSTANT k \in 0 .. 2
  PROVE  UNION {Entries(q) : q \in Of(lev, root, k + 1, r)} = Of(lev, root, k, r)
<1>1. /\ Graded(pt_used, table, lev, root) /\ HasParent(pt_used, table, lev, 0, lost) /\ 0 \notin pt_used
      /\ pt_used \subseteq Frm /\ lev \in [Frm -> 0 .. 4]
  BY PagesAre DEF Forest, Typed
<1>2. ASSUME NEW q \in Of(lev, root, k + 1, r), NEW e \in Entries(q)
      PROVE e \in Of(lev, root, k, r)
  <2>1. PICK i \in Idx : e = table[q][i] /\ e # 0 BY DEF Entries
  <2>2. q \in pt_used /\ lev[q] = k + 1 /\ root[q] = r /\ lev[q] >= 1 BY DEF Of
  <2>3. e \in pt_used /\ lev[e] = lev[q] - 1 /\ root[e] = root[q]
    BY <1>1, <2>1, <2>2 DEF Graded
  <2>4. e \notin lost BY <2>1, <2>2, LostAre
  <2> QED BY <2>2, <2>3, <2>4 DEF Of
<1>3. ASSUME NEW e \in Of(lev, root, k, r)
      PROVE \E q \in Of(lev, root, k + 1, r) : e \in Entries(q)
  <2>1. e \in pt_used /\ lev[e] = k /\ root[e] = r /\ e # 0 /\ e \notin lost BY <1>1 DEF Of
  <2>2. PICK t \in pt_used, i \in Idx : lev[t] >= 1 /\ table[t][i] = e
    BY <1>1, <2>1 DEF HasParent
  <2>3. lev[e] = lev[t] - 1 /\ lev[t] \in 0 .. 4 /\
        root[e] = IF lev[t] = 4 /\ i = Kernel THEN KernelPml4 ELSE root[t]
    BY <1>1, <2>1, <2>2 DEF Graded
  <2>4. lev[t] = k + 1 /\ root[t] = r BY <2>1, <2>3
  <2>5. t \in Of(lev, root, k + 1, r)
    <3>1. t \notin lost BY <2>2, LostAre
    <3> QED BY <2>2, <2>4, <3>1 DEF Of
  <2>6. e \in Entries(t) BY <2>1, <2>2 DEF Entries
  <2> QED BY <2>5, <2>6
<1> QED BY <1>2, <1>3

\* The tables and pages below the entries `is' of the top table t are what
\* belongs to r, when the first level is.
LEMMA LevelsAre ==
  ASSUME NEW CONSTANT T, NEW CONSTANT lev, NEW CONSTANT root,
         Forest(pt_used, table, T, lev, root, 0, 0, lost), NEW CONSTANT r, NEW t, NEW is,
         Pdpts(t, is) = Of(lev, root, 3, r)
  PROVE  /\ Tables(t, is) = Of(lev, root, 3, r) \cup Of(lev, root, 2, r) \cup Of(lev, root, 1, r)
         /\ Leaves(t, is) = Of(lev, root, 0, r)
<1>1. UNION {Entries(q) : q \in Of(lev, root, 3, r)} = Of(lev, root, 2, r)
  <2>1. 2 \in 0 .. 2 /\ 2 + 1 = 3 OBVIOUS
  <2> QED BY <2>1, LevelBelow
<1>2. UNION {Entries(q) : q \in Of(lev, root, 2, r)} = Of(lev, root, 1, r)
  <2>1. 1 \in 0 .. 2 /\ 1 + 1 = 2 OBVIOUS
  <2> QED BY <2>1, LevelBelow
<1>3. UNION {Entries(q) : q \in Of(lev, root, 1, r)} = Of(lev, root, 0, r)
  <2>1. 0 \in 0 .. 2 /\ 0 + 1 = 1 OBVIOUS
  <2> QED BY <2>1, LevelBelow
<1>4. Tables(t, is) = Of(lev, root, 3, r) \cup Of(lev, root, 2, r) \cup Of(lev, root, 1, r)
  BY <1>1, <1>2 DEF Tables
<1>5. Leaves(t, is) = Of(lev, root, 0, r) BY <1>1, <1>2, <1>3 DEF Leaves
<1> QED BY <1>4, <1>5

\* What belongs to r, level by level.
LEMMA RootsAre ==
  ASSUME NEW CONSTANT T, NEW CONSTANT lev, NEW CONSTANT root,
         Forest(pt_used, table, T, lev, root, 0, 0, lost), NEW CONSTANT r \in T
  PROVE  {r} \cup (Of(lev, root, 3, r) \cup Of(lev, root, 2, r) \cup Of(lev, root, 1, r))
             \cup Of(lev, root, 0, r) = {e \in pt_used \ lost : root[e] = r}
<1>1. /\ \A e \in pt_used : (lev[e] = 4 <=> e \in T) /\ (e \in T => root[e] = e)
      /\ pt_used \subseteq Frm /\ lev \in [Frm -> 0 .. 4] /\ r \in pt_used
  BY DEF Forest, Typed, Roots
<1>2. \A e \in pt_used : lev[e] = 4 \/ lev[e] = 3 \/ lev[e] = 2 \/ lev[e] = 1 \/ lev[e] = 0
  BY <1>1
<1>3. ASSUME NEW e \in pt_used, root[e] = r, lev[e] = 4 PROVE e = r BY <1>1, <1>3
<1>4. r \notin lost BY <1>1, LostAre
<1> QED BY <1>1, <1>2, <1>3, <1>4 DEF Of

\* The first level below a space's top table: all entries but the kernel's.
LEMMA SpaceFrames ==
  ASSUME NEW CONSTANT T, NEW CONSTANT lev, NEW CONSTANT root,
         Forest(pt_used, table, T, lev, root, 0, 0, lost), NEW CONSTANT p \in T, p # KernelPml4
  PROVE  Pdpts(p, User) = Of(lev, root, 3, p)
<1>1. /\ Graded(pt_used, table, lev, root) /\ HasParent(pt_used, table, lev, 0, lost) /\ 0 \notin pt_used
      /\ pt_used \subseteq Frm /\ lev \in [Frm -> 0 .. 4] /\ p \in pt_used /\ lev[p] = 4 /\ root[p] = p
      /\ \A e \in pt_used : lev[e] = 4 => root[e] = e
  BY PagesAre DEF Forest, Typed, Roots
<1>2. ASSUME NEW e \in Pdpts(p, User) PROVE e \in Of(lev, root, 3, p)
  <2>1. PICK i \in Idx : i # Kernel /\ e = table[p][i] /\ e # 0 BY DEF Pdpts, User
  <2>2. e \in pt_used /\ lev[e] = lev[p] - 1 /\ root[e] = root[p] BY <1>1, <2>1 DEF Graded
  <2>3. e \notin lost BY <1>1, <2>1, LostAre
  <2> QED BY <1>1, <2>2, <2>3 DEF Of
<1>3. ASSUME NEW e \in Of(lev, root, 3, p) PROVE e \in Pdpts(p, User)
  <2>1. e \in pt_used /\ lev[e] = 3 /\ root[e] = p /\ e # 0 /\ e \notin lost BY <1>1 DEF Of
  <2>2. PICK t \in pt_used, i \in Idx : lev[t] >= 1 /\ table[t][i] = e
    BY <1>1, <2>1 DEF HasParent
  <2>3. /\ lev[e] = lev[t] - 1 /\ lev[t] \in 0 .. 4
        /\ root[e] = IF lev[t] = 4 /\ i = Kernel THEN KernelPml4 ELSE root[t]
    BY <1>1, <2>1, <2>2 DEF Graded
  <2>4. lev[t] = 4 BY <2>1, <2>3
  <2>5. t = p /\ i # Kernel BY <1>1, <2>1, <2>2, <2>3, <2>4
  <2> QED BY <2>1, <2>2, <2>5 DEF Pdpts, User
<1> QED BY <1>2, <1>3

\* The tables of a space, and all its frames.
LEMMA SpaceIs ==
  ASSUME NEW CONSTANT T, NEW CONSTANT lev, NEW CONSTANT root,
         Forest(pt_used, table, T, lev, root, 0, 0, lost), NEW CONSTANT p \in T, p # KernelPml4
  PROVE  /\ Tables(p, User) = Of(lev, root, 3, p) \cup Of(lev, root, 2, p) \cup Of(lev, root, 1, p)
         /\ Leaves(p, User) = Of(lev, root, 0, p)
         /\ {p} \cup Tables(p, User) \cup Leaves(p, User) = {e \in pt_used \ lost : root[e] = p}
<1>1. Pdpts(p, User) = Of(lev, root, 3, p) BY SpaceFrames
<1>2. /\ Tables(p, User) = Of(lev, root, 3, p) \cup Of(lev, root, 2, p) \cup Of(lev, root, 1, p)
      /\ Leaves(p, User) = Of(lev, root, 0, p)
  BY <1>1, LevelsAre
<1> QED BY <1>2, RootsAre

\* A page of a space is found by a walk.
LEMMA LeafIs ==
  ASSUME NEW CONSTANT p, p # 0, NEW CONSTANT e \in Leaves(p, User)
  PROVE  \E w \in Page : w[1] # Kernel /\ Look(table, p, w) = e /\ e # 0
<1>1. PICK n3 \in Pdpts(p, User) : \E n2 \in Entries(n3) : \E n1 \in Entries(n2) : e \in Entries(n1)
  BY DEF Leaves
<1>2. PICK n2 \in Entries(n3) : \E n1 \in Entries(n2) : e \in Entries(n1) BY <1>1
<1>3. PICK n1 \in Entries(n2) : e \in Entries(n1) BY <1>2
<1>4. PICK i \in Idx : i # Kernel /\ n3 = table[p][i] /\ n3 # 0 BY <1>1 DEF Pdpts, User
<1>5. PICK j \in Idx : n2 = table[n3][j] /\ n2 # 0 BY <1>2 DEF Entries
<1>6. PICK k \in Idx : n1 = table[n2][k] /\ n1 # 0 BY <1>3 DEF Entries
<1>7. PICK l \in Idx : e = table[n1][l] /\ e # 0 BY <1>3 DEF Entries
<1> DEFINE w == <<i, j, k, l>>
<1>8. w \in Page /\ w[1] = i /\ w[2] = j /\ w[3] = k /\ w[4] = l BY DEF Page
<1> HIDE DEF w
<1>9. Low(table, p, w[1]) = n3 /\ Low(table, n3, w[2]) = n2 /\ Low(table, n2, w[3]) = n1
      /\ Low(table, n1, w[4]) = e
  BY <1>4, <1>5, <1>6, <1>7, <1>8 DEF Low
<1>10. Look(table, p, w) = e BY <1>9 DEF Look
<1> QED BY <1>4, <1>7, <1>8, <1>10

-----------------------------------------------------------------------------
(* The steps: each keeps the invariant and changes at most one page.       *)

\* What the page y of the space x translates to.
Was(B, P, x, y) == IF P[x] = 0 THEN 0 ELSE Look(B, P[x], y)

Unchanging(B, P, C, Q) == \A x \in PTSpaces, y \in UserPages : Was(C, Q, x, y) = Was(B, P, x, y)

\* Only the page v of s changes, from or to being absent.
Changing(B, P, C, Q, s, v) ==
    /\ Was(B, P, s, v) = 0 \/ Was(C, Q, s, v) = 0
    /\ \A x \in PTSpaces, y \in UserPages : ~ (x = s /\ y = v) => Was(C, Q, x, y) = Was(B, P, x, y)

OneChange(B, P, C, Q) ==
    \/ Unchanging(B, P, C, Q)
    \/ \E s \in PTSpaces, v \in UserPages : Changing(B, P, C, Q, s, v)

\* What a step has to show.
StepKeeps == PTInv' /\ (~ halted' => OneChange(table, pml4, table', pml4'))

\* r is what map_page makes of the tables B when it maps v of top to f.
Mapped(r, B, T, top, v, f, L) ==
    IF r.at = 0 THEN SameLooks(B, r.m.table, T)
    ELSE IsForest(r.m.used, r.m.table, T, L) /\ OneLook(B, r.m.table, T, top, v, f)

\* A frame is taken and mapped.
LEMMA TakeAndMap ==
  ASSUME NEW L, NEW U, NEW B, NEW C, NEW T, IsForest(U, B, T, L), NEW f \in Frm, f \notin U,
         C \in [Frm -> [Idx -> 0 .. FRAMES]], \A t \in U, j \in Idx : C[t][j] = B[t][j],
         NEW top \in T, NEW v \in Page, Look(B, top, v) = 0, MayMap(T, top, v)
  PROVE  Mapped(map_page([used |-> U \cup {f}, table |-> C], top, v, f), B, T, top, v, f, L)
<1> DEFINE m == [used |-> U \cup {f}, table |-> C]
           r == map_page(m, top, v, f)
<1>1. IsLoose(U \cup {f}, C, T, f, L) /\ SameLooks(B, C, T) BY LooseForest
<1>2. m.used = U \cup {f} /\ m.table = C OBVIOUS
<1>3. U \subseteq Frm BY ForestTypes
<1>4. m \in Mem BY <1>3 DEF Mem
<1> HIDE DEF m
<1>5. PICK lev, root : Forest(m.used, m.table, T, lev, root, 0, f, L) BY <1>1, <1>2 DEF IsLoose
<1>6. Look(m.table, top, v) = 0 BY <1>1, <1>2 DEF SameLooks
<1>7. IF r.at = 0 THEN SameLooks(m.table, r.m.table, T)
      ELSE Shaped(r.m, T, L) /\ OneLook(m.table, r.m.table, T, top, v, f)
  BY <1>4, <1>5, <1>6, MapPage
<1> HIDE DEF r
<1>8. CASE r.at = 0
  <2>1. SameLooks(B, r.m.table, T) BY <1>1, <1>2, <1>7, <1>8 DEF SameLooks
  <2> QED BY <1>8, <2>1 DEF r, m, Mapped
<1>9. CASE r.at # 0
  <2>1. OneLook(B, r.m.table, T, top, v, f) BY <1>1, <1>2, <1>7, <1>9 DEF SameLooks, OneLook
  <2>2. IsForest(r.m.used, r.m.table, T, L) BY <1>7, <1>9 DEF Shaped
  <2> QED BY <1>9, <2>1, <2>2 DEF r, m, Mapped
<1> QED BY <1>8, <1>9

\* The state while the kernel lives.
LEMMA Living ==
  ASSUME PTInv, alive
  PROVE  /\ IsForest(pt_used, table, Tops(pml4), lost) /\ UserLeaves(table, pml4)
         /\ (undo = "no" => lost = {})
         /\ (~ booting => HeapMapped(table)) /\ OwnTops(pml4, booting)
         /\ booting \in BOOLEAN /\ halted \in BOOLEAN /\ ~ halted
         /\ pt_used \subseteq Frm /\ table \in [Frm -> [Idx -> 0 .. FRAMES]] /\ memory \in Mem
         /\ Tops(pml4) \subseteq pt_used /\ KernelPml4 \in Tops(pml4)
<1>1. /\ IsForest(pt_used, table, Tops(pml4), lost) /\ UserLeaves(table, pml4)
      /\ (undo = "no" => lost = {})
      /\ (~ booting => HeapMapped(table)) /\ OwnTops(pml4, booting)
      /\ booting \in BOOLEAN /\ halted \in BOOLEAN /\ ~ halted
  BY DEF PTInv, SoundAt, Books, alive
<1>2. /\ pt_used \subseteq Frm /\ table \in [Frm -> [Idx -> 0 .. FRAMES]]
      /\ Tops(pml4) \subseteq pt_used /\ KernelPml4 \in Tops(pml4)
      /\ [used |-> pt_used, table |-> table] \in Mem
  BY <1>1, ForestTypes
<1> QED BY <1>1, <1>2 DEF memory

\* physmem_alloc, in the states of the kernel.
LEMMA NextFrame ==
  ASSUME physmem_alloc(memory) # 0
  PROVE  physmem_alloc(memory) \in Frm /\ physmem_alloc(memory) \notin pt_used
BY AllocFrees DEF memory

\* boot_done.
LEMMA BootDone == ASSUME PTInv, boot_done PROVE StepKeeps
<1>1. /\ alive /\ booting /\ booting' = FALSE /\ pt_used' = pt_used /\ table' = table
      /\ pml4' = pml4 /\ halted' = halted /\ lost' = lost /\ undo' = undo
      /\ \A v \in KernelPages : pte_lookup(memory, KernelPml4, v) # 0
  BY DEF boot_done
<1>2. HeapMapped(table) BY <1>1, LookIs DEF HeapMapped, memory
<1>3. /\ IsForest(pt_used, table, Tops(pml4), lost) /\ UserLeaves(table, pml4) /\ OwnTops(pml4, booting)
      /\ ~ halted /\ (undo = "no" => lost = {})
  BY <1>1, Living
<1>4. OwnTops(pml4, FALSE) BY <1>3 DEF OwnTops
<1>5. HeapShared(table, pml4) BY <1>2, <1>3, ForestShares
<1>6. PTInv' BY <1>1, <1>2, <1>3, <1>4, <1>5 DEF PTInv, SoundAt, Books
<1>7. Unchanging(table, pml4, table', pml4') BY <1>1 DEF Unchanging
<1> QED BY <1>6, <1>7 DEF StepKeeps, OneChange

\* paging_init.
LEMMA KernelMaps == ASSUME PTInv, NEW CONSTANT v \in KernelPages, paging_init(v) PROVE StepKeeps
<1> DEFINE f == physmem_alloc(memory)
           m == [memory EXCEPT !.used = @ \cup {f}]
           r == map_page(m, KernelPml4, v, f)
<1>1. /\ alive /\ booting /\ f # 0 /\ pte_lookup(memory, KernelPml4, v) = 0
      /\ pt_used' = r.m.used /\ table' = r.m.table /\ halted' = (r.at = 0)
      /\ pml4' = pml4 /\ booting' = booting /\ lost' = lost /\ undo' = undo
  BY DEF paging_init, holds
<1>2. f \in Frm /\ f \notin pt_used BY <1>1, NextFrame
<1>3. /\ IsForest(pt_used, table, Tops(pml4), lost) /\ OwnTops(pml4, booting) /\ booting \in BOOLEAN /\ ~ halted
      /\ (undo = "no" => lost = {})
      /\ table \in [Frm -> [Idx -> 0 .. FRAMES]]
  BY <1>1, Living
<1>4. \A s \in PTSpaces : pml4[s] = 0 BY <1>1, <1>3 DEF OwnTops
<1>5. Tops(pml4) = {KernelPml4} BY <1>4 DEF Tops
<1>6. v \in Page /\ v[1] = Kernel BY PagesAre
<1>7. Look(table, KernelPml4, v) = 0 BY <1>1, LookIs DEF memory
<1>8. MayMap({KernelPml4}, KernelPml4, v) BY <1>6 DEF MayMap
<1>9. m = [used |-> pt_used \cup {f}, table |-> table] BY DEF memory
<1> HIDE DEF f, m
<1>10. Mapped(r, table, {KernelPml4}, KernelPml4, v, f, lost)
  <2>1. IsForest(pt_used, table, {KernelPml4}, lost) BY <1>3, <1>5
  <2> QED BY <1>2, <1>3, <1>6, <1>7, <1>8, <1>9, <2>1, TakeAndMap
<1> HIDE DEF r
<1>11. UserLeaves(table', pml4') BY <1>1, <1>4 DEF UserLeaves
<1>12. ~ halted' => IsForest(pt_used', table', Tops(pml4'), lost') BY <1>1, <1>5, <1>10 DEF Mapped
<1>13. halted' \in BOOLEAN BY <1>1
<1>14. PTInv' BY <1>1, <1>3, <1>11, <1>12, <1>13 DEF PTInv, SoundAt, Books
<1>15. Unchanging(table, pml4, table', pml4') BY <1>1, <1>4 DEF Unchanging, Was
<1> QED BY <1>14, <1>15 DEF StepKeeps, OneChange

\* Only the page v of s changes, to e, and none that programs may not map.
OnlyPage(B, C, P, s, v, e) ==
    /\ \A x \in PTSpaces, y \in UserPages :
         Was(C, P, x, y) = IF x = s /\ y = v THEN e ELSE Was(B, P, x, y)
    /\ UserLeaves(B, P) => UserLeaves(C, P)
    /\ HeapMapped(B) => HeapMapped(C)

\* A page other than (s, v) translates to what it did, when only the walk from
\* the top table of s to v changes.
LEMMA OtherPages ==
  ASSUME NEW B, NEW C, NEW P, NEW boot, OwnTops(P, boot), NEW s \in PTSpaces, P[s] # 0,
         NEW v \in UserPages, NEW e, OneLook(B, C, Tops(P), P[s], v, e)
  PROVE  OnlyPage(B, C, P, s, v, e)
<1>1. \A x \in PTSpaces : P[x] # 0 => P[x] \in Tops(P) BY DEF Tops
<1>2. \A x \in PTSpaces : P[x] # 0 /\ P[x] = P[s] => x = s BY DEF OwnTops
<1>3. v \in Page /\ v[1] # Kernel /\ \A y \in UserPages : y \in Page BY PagesAre
<1>4. \A x \in PTSpaces, w \in Page : P[x] # 0 =>
          Look(C, P[x], w) = IF x = s /\ w = v THEN e ELSE Look(B, P[x], w)
  BY <1>1, <1>2 DEF OneLook
<1>5. \A x \in PTSpaces, y \in UserPages :
          Was(C, P, x, y) = IF x = s /\ y = v THEN e ELSE Was(B, P, x, y)
  BY <1>3, <1>4 DEF Was
<1>6. UserLeaves(B, P) => UserLeaves(C, P)
  <2> SUFFICES ASSUME UserLeaves(B, P), NEW x \in PTSpaces,
                      NEW w \in Page, P[x] # 0, w[1] # Kernel,
                      Look(C, P[x], w) # 0
               PROVE  w \in UserPages
    BY DEF UserLeaves
  <2>1. CASE w = v BY <2>1
  <2>2. CASE w # v
    <3>1. Look(C, P[x], w) = Look(B, P[x], w) BY <1>4, <2>2
    <3> QED BY <3>1 DEF UserLeaves
  <2> QED BY <2>1, <2>2
<1>7. HeapMapped(B) => HeapMapped(C)
  <2> SUFFICES ASSUME HeapMapped(B), NEW y \in KernelPages PROVE Look(C, KernelPml4, y) # 0
    BY DEF HeapMapped
  <2>1. P[s] # KernelPml4 /\ KernelPml4 \in Tops(P) /\ y \in Page BY PagesAre DEF OwnTops, Tops
  <2>2. Look(C, KernelPml4, y) = Look(B, KernelPml4, y) BY <2>1 DEF OneLook
  <2> QED BY <2>2 DEF HeapMapped
<1> QED BY <1>5, <1>6, <1>7 DEF OnlyPage

\* is_mapped, by the walk.
LEMMA MappedIs ==
  ASSUME NEW s, NEW v
  PROVE  is_mapped(s, v) <=> pml4[s] # 0 /\ Look(table, pml4[s], v) # 0
BY LookIs DEF is_mapped, memory

\* vmm_space_free_page.
LEMMA ProgramUnmaps ==
  ASSUME PTInv, NEW CONSTANT s \in PTSpaces,
         NEW CONSTANT v \in UserPages, vmm_space_free_page(s, v)
  PROVE  StepKeeps
<1> DEFINE n == free_page(memory, pml4[s], v)
<1>1. /\ alive /\ is_mapped(s, v) /\ pt_used' = n.used /\ table' = n.table
      /\ pml4' = pml4 /\ booting' = booting /\ halted' = halted
      /\ lost' = lost /\ undo' = undo
  BY DEF vmm_space_free_page, holds
<1>2. /\ IsForest(pt_used, table, Tops(pml4), lost) /\ OwnTops(pml4, booting) /\ booting \in BOOLEAN
      /\ ~ halted /\ halted \in BOOLEAN /\ memory \in Mem /\ UserLeaves(table, pml4)
      /\ (~ booting => HeapMapped(table)) /\ (undo = "no" => lost = {})
  BY <1>1, Living
<1>3. pml4[s] # 0 /\ Look(table, pml4[s], v) # 0 BY <1>1, MappedIs
<1>4. pml4[s] \in Tops(pml4) /\ pml4[s] # KernelPml4 BY <1>2, <1>3 DEF Tops, OwnTops
<1>5. v \in Page /\ v[1] # Kernel BY PagesAre
<1>6. memory.table = table /\ memory.used = pt_used BY DEF memory
<1>7. Shaped(memory, Tops(pml4), lost) BY <1>2, <1>6 DEF Shaped
<1>8. Shaped(n, Tops(pml4), lost) /\ OneLook(table, n.table, Tops(pml4), pml4[s], v, 0)
  <2>1. Look(memory.table, pml4[s], v) # 0 BY <1>3, <1>6
  <2>2. Shaped(n, Tops(pml4), lost) /\ OneLook(memory.table, n.table, Tops(pml4), pml4[s], v, 0)
    BY <1>4, <1>5, <1>7, <2>1, FreePage
  <2> QED BY <1>6, <2>2
<1> HIDE DEF n
<1>9. IsForest(pt_used', table', Tops(pml4'), lost') BY <1>1, <1>8 DEF Shaped
<1>10. OneLook(table, table', Tops(pml4), pml4[s], v, 0) BY <1>1, <1>8
<1>11. OnlyPage(table, table', pml4, s, v, 0) BY <1>2, <1>3, <1>10, OtherPages
<1>12. ~ booting => HeapMapped(table') BY <1>2, <1>11 DEF OnlyPage
<1>13. ~ booting => HeapShared(table', pml4') BY <1>9, <1>12, ForestShares
<1>14. PTInv' BY <1>1, <1>2, <1>9, <1>11, <1>12, <1>13 DEF PTInv, SoundAt, Books, OnlyPage
<1>15. Changing(table, pml4, table', pml4', s, v) BY <1>1, <1>11 DEF Changing, OnlyPage
<1> QED BY <1>14, <1>15 DEF StepKeeps, OneChange

\* vmm_space_alloc_page.
LEMMA ProgramMaps ==
  ASSUME PTInv, NEW CONSTANT s \in PTSpaces,
         NEW CONSTANT v \in UserPages, vmm_space_alloc_page(s, v)
  PROVE  StepKeeps
<1> DEFINE f == physmem_alloc(memory)
           C == [table EXCEPT ![f] = Junk]
           r == map_page([used |-> pt_used \cup {f}, table |-> C], pml4[s], v, f)
<1>1. /\ alive /\ pml4[s] # 0 /\ f # 0 /\ ~ is_mapped(s, v)
      /\ pt_used' = r.m.used /\ table' = r.m.table /\ halted' = (r.at = 0)
      /\ pml4' = pml4 /\ booting' = booting /\ lost' = lost /\ undo' = undo
  BY DEF vmm_space_alloc_page, holds
<1>2. f \in Frm /\ f \notin pt_used BY <1>1, NextFrame
<1>3. /\ IsForest(pt_used, table, Tops(pml4), lost) /\ OwnTops(pml4, booting) /\ booting \in BOOLEAN
      /\ ~ halted /\ UserLeaves(table, pml4) /\ (~ booting => HeapMapped(table))
      /\ pt_used \subseteq Frm /\ table \in [Frm -> [Idx -> 0 .. FRAMES]] /\ (undo = "no" => lost = {})
  BY <1>1, Living
<1>4. ~ booting BY <1>1, <1>3 DEF OwnTops
<1>5. Look(table, pml4[s], v) = 0 BY <1>1, MappedIs
<1>6. pml4[s] \in Tops(pml4) /\ pml4[s] # KernelPml4 BY <1>1, <1>3 DEF Tops, OwnTops
<1>7. v \in Page /\ v[1] # Kernel BY PagesAre
<1>8. MayMap(Tops(pml4), pml4[s], v) BY <1>6, <1>7 DEF MayMap
<1> HIDE DEF f
<1>9. Junk \in [Idx -> 0 .. FRAMES] BY PageTablesAssumption DEF Junk, KernelPml4
<1>10. C \in [Frm -> [Idx -> 0 .. FRAMES]] /\ \A t \in pt_used, j \in Idx : C[t][j] = table[t][j]
  BY <1>2, <1>3, <1>9
<1> HIDE DEF C
<1>11. Mapped(r, table, Tops(pml4), pml4[s], v, f, lost)
  BY <1>2, <1>3, <1>5, <1>6, <1>7, <1>8, <1>10, TakeAndMap
<1> HIDE DEF r
<1>12. CASE r.at = 0
  <2>1. halted' = TRUE BY <1>1, <1>12
  <2>2. HeapShared(table, pml4) BY <1>3, <1>4, ForestShares
  <2>3. SameLooks(table, table', Tops(pml4)) BY <1>1, <1>11, <1>12 DEF Mapped
  <2>4. \A x \in PTSpaces : pml4[x] # 0 => pml4[x] \in Tops(pml4) BY DEF Tops
  <2>5. KernelPml4 \in Tops(pml4) /\ \A y \in KernelPages : y \in Page BY PagesAre DEF Tops
  <2>6. HeapShared(table', pml4) BY <2>2, <2>3, <2>4, <2>5 DEF HeapShared, SameLooks
  <2>7. PTInv' BY <1>1, <1>3, <2>1, <2>6 DEF PTInv, SoundAt
  <2> QED BY <2>1, <2>7 DEF StepKeeps
<1>13. CASE r.at # 0
  <2>1. halted' = FALSE BY <1>1, <1>13
  <2>2. IsForest(pt_used', table', Tops(pml4'), lost') BY <1>1, <1>11, <1>13 DEF Mapped
  <2>3. OneLook(table, table', Tops(pml4), pml4[s], v, f) BY <1>1, <1>11, <1>13 DEF Mapped
  <2>4. OnlyPage(table, table', pml4, s, v, f) BY <1>1, <1>3, <2>3, OtherPages
  <2>5. HeapMapped(table') BY <1>3, <1>4, <2>4 DEF OnlyPage
  <2>6. HeapShared(table', pml4') BY <2>2, <2>5, ForestShares
  <2>7. PTInv' BY <1>1, <1>3, <2>1, <2>2, <2>4, <2>5, <2>6 DEF PTInv, SoundAt, Books, OnlyPage
  <2>8. Was(table, pml4, s, v) = 0 BY <1>1, <1>5 DEF Was
  <2>9. Changing(table, pml4, table', pml4', s, v) BY <1>1, <2>4, <2>8 DEF Changing, OnlyPage
  <2> QED BY <2>7, <2>9 DEF StepKeeps, OneChange
<1> QED BY <1>12, <1>13

\* vmm_space_create.
LEMMA SpaceMade ==
  ASSUME PTInv, NEW CONSTANT s \in PTSpaces, vmm_space_create(s)
  PROVE  StepKeeps
<1> DEFINE f == physmem_alloc(memory)
           k == table[KernelPml4][Kernel]
<1>1. /\ alive /\ ~ booting /\ pml4[s] = 0 /\ f # 0 /\ pt_used' = pt_used \cup {f}
      /\ table' = [table EXCEPT ![f] = top_table] /\ pml4' = [pml4 EXCEPT ![s] = f]
      /\ booting' = booting /\ halted' = halted /\ lost' = lost /\ undo' = undo
  BY DEF vmm_space_create
<1>2. f \in Frm /\ f \notin pt_used BY <1>1, NextFrame
<1>3. /\ IsForest(pt_used, table, Tops(pml4), lost) /\ OwnTops(pml4, booting) /\ booting \in BOOLEAN
      /\ ~ halted /\ halted \in BOOLEAN /\ UserLeaves(table, pml4) /\ HeapMapped(table)
      /\ pt_used \subseteq Frm /\ table \in [Frm -> [Idx -> 0 .. FRAMES]]
      /\ Tops(pml4) \subseteq pt_used /\ KernelPml4 \in Tops(pml4) /\ (undo = "no" => lost = {})
  BY <1>1, Living
<1> HIDE DEF f
<1>4. KernelPml4 \in Frm /\ Kernel \in Idx /\ FRAMES \in Nat BY PagesAre
<1>5. k \in 0 .. FRAMES BY <1>3, <1>4
<1>6. /\ top_table \in [Idx -> 0 .. FRAMES]
      /\ \A j \in Idx : top_table[j] = IF j = Kernel THEN k ELSE 0
  BY <1>4, <1>5 DEF top_table, Empty
<1>7. /\ table' \in [Frm -> [Idx -> 0 .. FRAMES]]
      /\ \A t \in pt_used, j \in Idx : table'[t][j] = table[t][j]
      /\ \A j \in Idx : table'[f][j] = IF j = Kernel THEN k ELSE 0
  <2>1. table' = [table EXCEPT ![f] = top_table] BY <1>1
  <2>2. table'[f] = top_table /\ \A t \in pt_used : table'[t] = table[t] BY <1>2, <1>3, <2>1
  <2>3. table' \in [Frm -> [Idx -> 0 .. FRAMES]] BY <1>2, <1>3, <1>6, <2>1
  <2> QED BY <1>6, <2>2, <2>3
<1>8. IsForest(pt_used \cup {f}, table', Tops(pml4) \cup {f}, lost) /\ SameLooks(table, table', Tops(pml4))
  BY <1>2, <1>3, <1>7, NewTopForest
<1>9. /\ pml4' \in [PTSpaces -> 0 .. FRAMES] /\ pml4'[s] = f
      /\ \A x \in PTSpaces : x # s => pml4'[x] = pml4[x]
  BY <1>1, <1>2, <1>3 DEF OwnTops, Frm
<1>10. \A x \in PTSpaces : pml4[x] # 0 => pml4[x] \in Tops(pml4) BY DEF Tops
<1>11. Tops(pml4') = Tops(pml4) \cup {f} BY <1>1, <1>9 DEF Tops
<1>12. OwnTops(pml4', booting')
  <2>1. f # KernelPml4 /\ \A x \in PTSpaces : pml4[x] # f BY <1>1, <1>2, <1>3, <1>10
  <2> QED BY <1>1, <1>3, <1>9, <2>1 DEF OwnTops
<1>13. \A y \in Page : y[1] # Kernel => Look(table', f, y) = 0
  <2> SUFFICES ASSUME NEW y \in Page, y[1] # Kernel PROVE Look(table', f, y) = 0 OBVIOUS
  <2>1. table'[f][y[1]] = 0 BY <1>7, PageIs
  <2> QED BY <1>1, <2>1 DEF Look, Low
<1>14. \A x \in PTSpaces, y \in Page : x # s /\ pml4[x] # 0 => Look(table', pml4'[x], y) = Look(table, pml4[x], y)
  BY <1>8, <1>9, <1>10 DEF SameLooks
<1>15. UserLeaves(table', pml4') BY <1>3, <1>9, <1>13, <1>14 DEF UserLeaves
<1>16. HeapMapped(table') BY <1>3, <1>8, PagesAre DEF HeapMapped, SameLooks
<1>17. IsForest(pt_used', table', Tops(pml4'), lost') BY <1>1, <1>8, <1>11
<1>18. HeapShared(table', pml4') BY <1>16, <1>17, ForestShares
<1>19. PTInv' BY <1>1, <1>3, <1>12, <1>15, <1>16, <1>17, <1>18 DEF PTInv, SoundAt, Books
<1>20. Unchanging(table, pml4, table', pml4')
  BY <1>1, <1>9, <1>13, <1>14, PagesAre DEF Unchanging, Was
<1> QED BY <1>19, <1>20 DEF StepKeeps, OneChange

\* A space none of whose pages is mapped has no tables but the top one.
LEMMA NoTables ==
  ASSUME NEW L, NEW U, NEW B, NEW T, IsForest(U, B, T, L), L = {}, NEW p \in T, NEW i \in Idx, B[p][i] # 0
  PROVE  \E w \in Page : w[1] = i /\ Look(B, p, w) # 0
<1>1. PICK lev, root : Forest(U, B, T, lev, root, 0, 0, L) BY DEF IsForest
<1>2. /\ Graded(U, B, lev, root) /\ NoneEmpty(U, B, lev, 0, L) /\ p \in U /\ lev[p] = 4 /\ 0 \notin U
  BY <1>1, PagesAre DEF Forest, Typed, Roots
<1>3. B[p][i] \in U /\ lev[B[p][i]] = 3 BY <1>2 DEF Graded
<1>4. PICK j \in Idx : B[B[p][i]][j] # 0 BY <1>2, <1>3 DEF NoneEmpty
<1> DEFINE n3 == B[p][i]
           n2 == B[n3][j]
<1>5. n2 \in U /\ lev[n2] = 2 BY <1>2, <1>3, <1>4 DEF Graded
<1>6. PICK k \in Idx : B[n2][k] # 0 BY <1>2, <1>5 DEF NoneEmpty
<1> DEFINE n1 == B[n2][k]
<1>7. n1 \in U /\ lev[n1] = 1 BY <1>2, <1>5, <1>6 DEF Graded
<1>8. PICK l \in Idx : B[n1][l] # 0 BY <1>2, <1>7 DEF NoneEmpty
<1> DEFINE w == <<i, j, k, l>>
<1>9. w \in Page /\ w[1] = i /\ w[2] = j /\ w[3] = k /\ w[4] = l BY DEF Page
<1> HIDE DEF w
<1>10. p # 0 /\ n3 # 0 /\ n2 # 0 /\ n1 # 0 BY <1>2, <1>3, <1>5, <1>7
<1>11. Low(B, p, w[1]) = n3 /\ Low(B, n3, w[2]) = n2 /\ Low(B, n2, w[3]) = n1 /\ Low(B, n1, w[4]) # 0
  BY <1>8, <1>9, <1>10 DEF Low
<1>12. Look(B, p, w) # 0 BY <1>11 DEF Look
<1> QED BY <1>9, <1>12

\* vmm_space_destroy.
LEMMA SpaceGone ==
  ASSUME PTInv, NEW CONSTANT s \in PTSpaces, vmm_space_destroy(s)
  PROVE  StepKeeps
<1> DEFINE p == pml4[s]
           D == Tables(p, User)
<1>1. /\ alive /\ p # 0 /\ pt_used' = pt_used \ {p} /\ pml4' = [pml4 EXCEPT ![s] = 0]
      /\ table' = table /\ booting' = booting /\ halted' = halted
      /\ lost' = lost \cup D /\ undo' = undo
      /\ \A v \in UserPages : ~ is_mapped(s, v)
  BY DEF vmm_space_destroy
<1>2. /\ IsForest(pt_used, table, Tops(pml4), lost) /\ OwnTops(pml4, booting) /\ booting \in BOOLEAN
      /\ ~ halted /\ halted \in BOOLEAN /\ UserLeaves(table, pml4) /\ (~ booting => HeapMapped(table))
      /\ (undo = "no" => lost = {})
  BY <1>1, Living
<1>3. \A v \in UserPages : Look(table, p, v) = 0 BY <1>1, MappedIs
<1>4. p \in Tops(pml4) /\ p # KernelPml4 BY <1>1, <1>2 DEF Tops, OwnTops
<1>5. ASSUME NEW w \in Page, w[1] # Kernel PROVE Look(table, p, w) = 0
  <2>1. SUFFICES ASSUME Look(table, p, w) # 0 PROVE FALSE OBVIOUS
  <2>2. w \in UserPages BY <1>1, <1>2, <1>5, <2>1 DEF UserLeaves
  <2> QED BY <1>3, <2>1, <2>2
<1>6. IsForest(pt_used \ {p}, table, Tops(pml4) \ {p}, lost \cup D)
  <2>1. PICK lev, root : Forest(pt_used, table, Tops(pml4), lev, root, 0, 0, lost)
    BY <1>2 DEF IsForest
  <2>2. Leaves(p, User) = {}
    <3>1. SUFFICES ASSUME NEW e \in Leaves(p, User) PROVE FALSE OBVIOUS
    <3> HIDE DEF p
    <3>2. \E w \in Page : w[1] # Kernel /\ Look(table, p, w) = e /\ e # 0 BY <1>1, LeafIs
    <3> QED BY <1>5, <3>2
  <2>3. /\ D = Of(lev, root, 3, p) \cup Of(lev, root, 2, p) \cup Of(lev, root, 1, p)
        /\ {p} \cup D \cup Leaves(p, User) = {e \in pt_used \ lost : root[e] = p}
    <3> HIDE DEF p
    <3> QED BY <1>4, <2>1, SpaceIs
  <2>4. p \notin D
    <3>1. lev[p] = 4 BY <1>4, <2>1 DEF Forest, Roots, Typed
    <3> QED BY <2>3, <3>1 DEF Of
  <2> HIDE DEF p, D
  <2>5. \A e : e \in D <=> e \in pt_used /\ e \notin lost /\ root[e] = p /\ e # p BY <2>2, <2>3, <2>4
  <2> QED BY <1>4, <2>1, <2>5, DropTopForest
<1>7. /\ pml4' \in [PTSpaces -> 0 .. FRAMES] /\ pml4'[s] = 0
      /\ \A x \in PTSpaces : x # s => pml4'[x] = pml4[x]
  BY <1>1, <1>2, PagesAre DEF OwnTops
<1>8. \A x \in PTSpaces : pml4[x] = p => x = s BY <1>1, <1>2 DEF OwnTops
<1>9. Tops(pml4') = Tops(pml4) \ {p}
  <2>1. \A x \in PTSpaces : x # s => pml4[x] # p BY <1>8
  <2> HIDE DEF p
  <2>2. ASSUME NEW t PROVE t \in Tops(pml4') <=> t \in Tops(pml4) /\ t # p
    BY <1>4, <1>7, <2>1 DEF Tops, p
  <2> QED BY <2>2
<1>10. OwnTops(pml4', booting') BY <1>1, <1>2, <1>7, PagesAre DEF OwnTops
<1>11. UserLeaves(table', pml4') BY <1>1, <1>2, <1>7 DEF UserLeaves
<1>12. IsForest(pt_used', table', Tops(pml4'), lost') BY <1>1, <1>6, <1>9
<1>13. ~ booting' => HeapMapped(table') BY <1>1, <1>2
<1>14. ~ booting' => HeapShared(table', pml4') BY <1>12, <1>13, ForestShares
\* Nothing is lost before: the space without pages has no tables either.
<1>15. undo' = "no" => lost' = {}
  <2>1. SUFFICES ASSUME undo = "no", lost = {} PROVE D = {} BY <1>1, <1>2
  <2>2. \A i \in Idx : i # Kernel => table[p][i] = 0
    <3> HIDE DEF p
    <3> QED BY <1>2, <1>4, <1>5, <2>1, NoTables
  <2>3. Pdpts(p, User) = {} BY <2>2 DEF Pdpts, User
  <2> QED BY <2>3 DEF Tables
<1>16. PTInv' BY <1>1, <1>2, <1>10, <1>11, <1>12, <1>13, <1>14, <1>15 DEF PTInv, SoundAt, Books
<1>17. Unchanging(table, pml4, table', pml4') BY <1>1, <1>3, <1>7 DEF Unchanging, Was
<1> QED BY <1>16, <1>17 DEF StepKeeps, OneChange

\* vmm_space_alloc_undo.
LEMMA ProgramUndone ==
  ASSUME PTInv, NEW CONSTANT s \in PTSpaces,
         NEW CONSTANT v \in UserPages, vmm_space_alloc_undo(s, v)
  PROVE  StepKeeps
<1> DEFINE p == pt(memory, pml4[s], v)
           C == [table EXCEPT ![p][v[4]] = 0]
           e == table[p][v[4]]
<1>1. /\ alive /\ is_mapped(s, v)
      /\ pt_used' = unmap_page(memory, pml4[s], v).used
      /\ table' = unmap_page(memory, pml4[s], v).table
      /\ lost' = lost \cup {pte_lookup(memory, pml4[s], v)} /\ undo' \in {"once", "now"}
      /\ pml4' = pml4 /\ booting' = booting /\ halted' = halted
  BY DEF vmm_space_alloc_undo, holds
<1>2. /\ IsForest(pt_used, table, Tops(pml4), lost) /\ OwnTops(pml4, booting) /\ booting \in BOOLEAN
      /\ ~ halted /\ halted \in BOOLEAN /\ UserLeaves(table, pml4) /\ (~ booting => HeapMapped(table))
      /\ table \in [Frm -> [Idx -> 0 .. FRAMES]] /\ pt_used \subseteq Frm
  BY <1>1, Living
<1>3. pml4[s] # 0 /\ Look(table, pml4[s], v) # 0 BY <1>1, MappedIs
<1>4. pml4[s] \in Tops(pml4) BY <1>3 DEF Tops
<1>5. v \in Page /\ v[1] # Kernel /\ v[4] \in Idx BY PagesAre, PageIs
<1>6. p = Low(table, Low(table, Low(table, pml4[s], v[1]), v[2]), v[3]) BY LookIs DEF memory
<1>7. unmap_page(memory, pml4[s], v) = [used |-> pt_used, table |-> C] BY DEF unmap_page, memory
<1>8. pte_lookup(memory, pml4[s], v) = Look(table, pml4[s], v) BY LookIs DEF memory
<1> HIDE DEF p
<1>9. p # 0 /\ Look(table, pml4[s], v) = e /\ e # 0 BY <1>3, <1>6 DEF Look, Low
<1>10. Leads(table, pml4[s], v, p) BY <1>6, <1>9 DEF Leads
<1>11. PICK lev, root : Forest(pt_used, table, Tops(pml4), lev, root, 0, 0, lost)
  BY <1>2 DEF IsForest
<1>12. /\ Typed(pt_used, table, Tops(pml4), lev, root) /\ Roots(pt_used, Tops(pml4), lev, root)
       /\ Graded(pt_used, table, lev, root) /\ OneParent(pt_used, table, lev)
  BY <1>11 DEF Forest
<1>13. p \in pt_used /\ lev[p] = 1 /\ p \in Frm
  BY <1>2, <1>4, <1>5, <1>10, <1>12, Nodes DEF Leads
<1>14. C \in [Frm -> [Idx -> 0 .. FRAMES]] /\ C[p][v[4]] = 0 /\ Differs(table, C, pt_used, p, v[4])
  BY <1>2, <1>5, <1>13, PagesAre DEF Differs
<1>15. pt_used' = pt_used /\ table' = C /\ lost' = lost \cup {e} BY <1>1, <1>7, <1>8, <1>9
<1> HIDE DEF C, e
<1>16. IsForest(pt_used, C, Tops(pml4), lost \cup {e})
  BY <1>5, <1>9, <1>11, <1>13, <1>14, LostForest DEF e
<1>17. OneLook(table, C, Tops(pml4), pml4[s], v, 0)
  <2>1. \A t \in pt_used, j \in Idx : ~ (t = p /\ j = v[4]) => C[t][j] = table[t][j]
    BY <1>14 DEF Differs
  <2>2. ASSUME NEW u \in Tops(pml4), NEW w \in Page
        PROVE  Look(C, u, w) = IF u = pml4[s] /\ w = v THEN C[p][v[4]] ELSE Look(table, u, w)
    BY <1>4, <1>5, <1>10, <1>12, <2>1, EntryLook
  <2> QED BY <1>14, <2>2 DEF OneLook
<1>18. OnlyPage(table, C, pml4, s, v, 0) BY <1>2, <1>3, <1>17, OtherPages
<1>19. ~ booting => HeapMapped(C) BY <1>2, <1>18 DEF OnlyPage
<1>20. ~ booting => HeapShared(C, pml4) BY <1>16, <1>19, ForestShares
<1>21. UserLeaves(C, pml4) BY <1>2, <1>18 DEF OnlyPage
<1>22. PTInv' BY <1>1, <1>2, <1>15, <1>16, <1>19, <1>20, <1>21 DEF PTInv, SoundAt, Books
<1>23. Changing(table, pml4, table', pml4', s, v) BY <1>1, <1>15, <1>18 DEF Changing, OnlyPage
<1> QED BY <1>22, <1>23 DEF StepKeeps, OneChange

\* vmm_space_alloc_done.
LEMMA AllocDone == ASSUME PTInv, vmm_space_alloc_done PROVE StepKeeps
<1>1. /\ pt_used' = pt_used /\ table' = table /\ pml4' = pml4 /\ booting' = booting
      /\ halted' = halted /\ lost' = lost /\ undo' = undo
  BY DEF vmm_space_alloc_done
<1>2. PTInv' BY <1>1 DEF PTInv
<1>3. Unchanging(table, pml4, table', pml4') BY <1>1 DEF Unchanging
<1> QED BY <1>2, <1>3 DEF StepKeeps, OneChange

\* Every step.
LEMMA NextKeeps == PTInv /\ [PageTablesNext]_ptvars => StepKeeps
<1> SUFFICES ASSUME PTInv, [PageTablesNext]_ptvars PROVE StepKeeps OBVIOUS
<1>1. ASSUME NEW v \in KernelPages, paging_init(v) PROVE StepKeeps BY <1>1, KernelMaps
<1>2. CASE boot_done BY <1>2, BootDone
<1>3. ASSUME NEW s \in PTSpaces, vmm_space_create(s) PROVE StepKeeps BY <1>3, SpaceMade
<1>4. ASSUME NEW s \in PTSpaces, vmm_space_destroy(s) PROVE StepKeeps BY <1>4, SpaceGone
<1>5. ASSUME NEW s \in PTSpaces, NEW v \in UserPages, vmm_space_alloc_page(s, v) PROVE StepKeeps
  BY <1>5, ProgramMaps
<1>6. ASSUME NEW s \in PTSpaces, NEW v \in UserPages, vmm_space_free_page(s, v) PROVE StepKeeps
  BY <1>6, ProgramUnmaps
<1>7. CASE vmm_space_alloc_done BY <1>7, AllocDone
<1>8. ASSUME NEW s \in PTSpaces, NEW v \in UserPages, vmm_space_alloc_undo(s, v) PROVE StepKeeps
  BY <1>8, ProgramUndone
<1>9. CASE UNCHANGED ptvars
  <2>1. /\ pt_used' = pt_used /\ table' = table /\ pml4' = pml4 /\ booting' = booting /\ halted' = halted
        /\ lost' = lost /\ undo' = undo
    BY <1>9 DEF ptvars
  <2>2. PTInv' BY <2>1 DEF PTInv
  <2>3. Unchanging(table, pml4, table', pml4') BY <2>1 DEF Unchanging
  <2> QED BY <2>2, <2>3 DEF StepKeeps, OneChange
<1> QED BY <1>1, <1>2, <1>3, <1>4, <1>5, <1>6, <1>7, <1>8, <1>9 DEF PageTablesNext

-----------------------------------------------------------------------------
(* The invariant says what the model's properties say.                     *)

\* The first level below the kernel's top table.
LEMMA KernelLevels ==
  ASSUME NEW CONSTANT T, NEW CONSTANT lev, NEW CONSTANT root,
         Forest(pt_used, table, T, lev, root, 0, 0, lost)
  PROVE  Pdpts(KernelPml4, Idx) = Of(lev, root, 3, KernelPml4)
<1>1. /\ Graded(pt_used, table, lev, root) /\ HasParent(pt_used, table, lev, 0, lost) /\ 0 \notin pt_used
      /\ pt_used \subseteq Frm /\ lev \in [Frm -> 0 .. 4]
      /\ KernelPml4 \in pt_used /\ lev[KernelPml4] = 4 /\ root[KernelPml4] = KernelPml4
      /\ \A e \in pt_used : lev[e] = 4 => root[e] = e /\ e \in T
      /\ Kernel \in Idx /\ KernelHalf(table, T)
  BY PagesAre DEF Forest, Typed, Roots
<1>2. ASSUME NEW e \in Pdpts(KernelPml4, Idx) PROVE e \in Of(lev, root, 3, KernelPml4)
  <2>1. PICK i \in Idx : e = table[KernelPml4][i] /\ e # 0 BY DEF Pdpts
  <2>2. e \in pt_used /\ lev[e] = lev[KernelPml4] - 1 /\ root[e] = KernelPml4
    BY <1>1, <2>1 DEF Graded
  <2>3. e \notin lost BY <1>1, <2>1, LostAre
  <2> QED BY <1>1, <2>2, <2>3 DEF Of
<1>3. ASSUME NEW e \in Of(lev, root, 3, KernelPml4) PROVE e \in Pdpts(KernelPml4, Idx)
  <2>1. e \in pt_used /\ lev[e] = 3 /\ root[e] = KernelPml4 /\ e # 0 /\ e \notin lost BY <1>1 DEF Of
  <2>2. PICK t \in pt_used, i \in Idx : lev[t] >= 1 /\ table[t][i] = e
    BY <1>1, <2>1 DEF HasParent
  <2>3. /\ lev[e] = lev[t] - 1 /\ lev[t] \in 0 .. 4
        /\ root[e] = IF lev[t] = 4 /\ i = Kernel THEN KernelPml4 ELSE root[t]
    BY <1>1, <2>1, <2>2 DEF Graded
  <2>4. lev[t] = 4 BY <2>1, <2>3
  <2>5. CASE i = Kernel
    <3>1. table[KernelPml4][Kernel] = e BY <1>1, <2>2, <2>4, <2>5 DEF KernelHalf
    <3> QED BY <1>1, <2>1, <3>1 DEF Pdpts
  <2>6. CASE i # Kernel
    <3>1. t = KernelPml4 BY <1>1, <2>1, <2>2, <2>3, <2>4, <2>6
    <3> QED BY <2>1, <2>2, <3>1 DEF Pdpts
  <2> QED BY <2>5, <2>6
<1> QED BY <1>2, <1>3

\* The invariant implies the first part of TablesSound.
LEMMA Accounted == PTInv => TablesAccounted
<1> SUFFICES ASSUME PTInv, ~ halted
             PROVE  /\ pt_used = KernelFrames \cup lost \cup UNION {Private(s) : s \in Live}
                    /\ \A s \in Live : Private(s) \cap KernelFrames = {}
                    /\ \A s, u \in Live : s # u => Private(s) \cap Private(u) = {}
                    /\ lost \cap KernelFrames = {} /\ \A s \in Live : lost \cap Private(s) = {}
                    /\ undo = "no" =>
                         /\ lost = {}
                         /\ \A s \in Live : \A t \in Tables(pml4[s], User) : table[t] # Empty
  BY DEF TablesAccounted
<1>1. IsForest(pt_used, table, Tops(pml4), lost) /\ OwnTops(pml4, booting) /\ (undo = "no" => lost = {})
  BY DEF PTInv, SoundAt, Books
<1> DEFINE T == Tops(pml4)
<1>2. PICK lev, root : Forest(pt_used, table, T, lev, root, 0, 0, lost) BY <1>1 DEF IsForest
<1>3. \A s \in Live : pml4[s] \in T /\ pml4[s] # KernelPml4 /\ s \in PTSpaces
  BY <1>1 DEF Live, Tops, OwnTops
<1>4. T = {KernelPml4} \cup {pml4[s] : s \in Live} BY DEF Live, Tops
<1> HIDE DEF T
<1>5. KernelFrames = {e \in pt_used \ lost : root[e] = KernelPml4}
  <2>1. Pdpts(KernelPml4, Idx) = Of(lev, root, 3, KernelPml4) BY <1>2, KernelLevels
  <2>2. /\ Tables(KernelPml4, Idx) = Of(lev, root, 3, KernelPml4) \cup Of(lev, root, 2, KernelPml4)
                                       \cup Of(lev, root, 1, KernelPml4)
        /\ Leaves(KernelPml4, Idx) = Of(lev, root, 0, KernelPml4)
    BY <1>2, <2>1, LevelsAre
  <2>3. KernelPml4 \in T BY <1>4
  <2> QED BY <1>2, <2>2, <2>3, RootsAre DEF KernelFrames
<1>6. ASSUME NEW s \in Live
      PROVE  /\ Private(s) = {e \in pt_used \ lost : root[e] = pml4[s]}
             /\ \A t \in Tables(pml4[s], User) : t \in pt_used /\ lev[t] \in 1 .. 3
  <2> DEFINE p == pml4[s]
  <2>0. p \in T /\ p # KernelPml4 BY <1>3
  <2> HIDE DEF p
  <2>1. /\ Tables(p, User) = Of(lev, root, 3, p) \cup Of(lev, root, 2, p) \cup Of(lev, root, 1, p)
        /\ {p} \cup Tables(p, User) \cup Leaves(p, User) = {e \in pt_used \ lost : root[e] = p}
    BY <1>2, <2>0, SpaceIs
  <2>2. \A t \in Tables(p, User) : t \in pt_used /\ lev[t] \in 1 .. 3 BY <2>1 DEF Of
  <2> QED BY <2>1, <2>2 DEF Private, p
<1>7. \A e \in pt_used : root[e] \in T BY <1>2 DEF Forest, Roots
<1>8. pt_used = KernelFrames \cup lost \cup UNION {Private(s) : s \in Live}
  <2>1. ASSUME NEW e \in pt_used
        PROVE  e \in KernelFrames \/ e \in lost \/ \E s \in Live : e \in Private(s)
    BY <1>4, <1>5, <1>6, <1>7
  <2>2. KernelFrames \subseteq pt_used /\ \A s \in Live : Private(s) \subseteq pt_used
    BY <1>5, <1>6
  <2>3. lost \subseteq pt_used BY <1>2, LostAre
  <2> QED BY <2>1, <2>2, <2>3
<1>9. \A s \in Live : Private(s) \cap KernelFrames = {} BY <1>3, <1>5, <1>6
<1>10. ASSUME NEW s \in Live, NEW u \in Live, s # u PROVE Private(s) \cap Private(u) = {}
  <2>1. pml4[s] # pml4[u] BY <1>1, <1>10 DEF OwnTops, Live
  <2> QED BY <1>6, <2>1
<1>11. lost \cap KernelFrames = {} /\ \A s \in Live : lost \cap Private(s) = {} BY <1>5, <1>6
<1>12. ASSUME undo = "no", NEW s \in Live, NEW t \in Tables(pml4[s], User) PROVE table[t] # Empty
  <2>1. t \in pt_used /\ lev[t] \in 1 .. 3 /\ lost = {} BY <1>1, <1>6, <1>12
  <2>2. t # 0 BY <1>2, <2>1, PagesAre DEF Forest, Typed
  <2>3. PICK i \in Idx : table[t][i] # 0 BY <1>2, <2>1, <2>2 DEF Forest, NoneEmpty
  <2> QED BY <2>3 DEF Empty
<1> QED BY <1>1, <1>8, <1>9, <1>10, <1>11, <1>12

\* The invariant implies the second part.
LEMMA Shared == PTInv => KernelIsShared
<1> SUFFICES ASSUME PTInv, ~ booting, NEW s \in Live, NEW v \in KernelPages
             PROVE  /\ pte_lookup(memory, pml4[s], v) = pte_lookup(memory, KernelPml4, v)
                    /\ pte_lookup(memory, KernelPml4, v) # 0
  BY DEF KernelIsShared
<1>1. HeapShared(table, pml4) /\ s \in PTSpaces /\ pml4[s] # 0 BY DEF PTInv, SoundAt, Live
<1>2. /\ pte_lookup(memory, pml4[s], v) = Look(table, pml4[s], v)
      /\ pte_lookup(memory, KernelPml4, v) = Look(table, KernelPml4, v)
  BY LookIs DEF memory
<1> QED BY <1>1, <1>2 DEF HeapShared

-----------------------------------------------------------------------------
\* In every state of every run the tables of all spaces are trees that share the
\* kernel's half and nothing else: each frame in use is the kernel's, belongs to
\* one space or was lost when an allocation was undone for lack of memory; before
\* that happens no frame is lost and no table below the top one is empty; and
\* every space sees the kernel's heap where the kernel does (paging_map_page_in,
\* paging_unmap_page_in, vmm_space_create, vmm_space_alloc with its undo,
\* vmm_space_free, vmm_space_destroy).
THEOREM TreesAreSound == PageTablesSpec => []TablesSound
<1>1. PTInv => TablesSound BY Accounted, Shared DEF TablesSound
<1>2. PTInv /\ [PageTablesNext]_ptvars => PTInv' BY NextKeeps DEF StepKeeps
<1> QED BY <1>1, <1>2, InitKept, PTL DEF PageTablesSpec

\* A step maps or unmaps at most one page of one space, and a page that stays
\* mapped stays where it is: neither making nor freeing tables on the way moves
\* any other page.
THEOREM PagesStayPut == PageTablesSpec => OnePageAtATime
<1> DEFINE A == \A s, u \in PTSpaces, v, w \in UserPages :
                  LET was(x, y) == IF pml4[x] = 0 THEN 0 ELSE pte_lookup(memory, pml4[x], y)
                      is(x, y) == IF pml4'[x] = 0 THEN 0 ELSE pte_lookup(memory', pml4'[x], y)
                  IN  ~halted' =>
                      /\ was(s, v) # 0 /\ is(s, v) # 0 => was(s, v) = is(s, v)
                      /\ was(s, v) # is(s, v) /\ was(u, w) # is(u, w) => s = u /\ v = w
<1>1. ASSUME PTInv, [PageTablesNext]_ptvars PROVE A
  <2>1. SUFFICES ASSUME ~ halted', NEW s \in PTSpaces, NEW u \in PTSpaces,
                        NEW v \in UserPages, NEW w \in UserPages
        PROVE  LET was(x, y) == IF pml4[x] = 0 THEN 0 ELSE pte_lookup(memory, pml4[x], y)
                   is(x, y) == IF pml4'[x] = 0 THEN 0 ELSE pte_lookup(memory', pml4'[x], y)
               IN  /\ was(s, v) # 0 /\ is(s, v) # 0 => was(s, v) = is(s, v)
                   /\ was(s, v) # is(s, v) /\ was(u, w) # is(u, w) => s = u /\ v = w
    OBVIOUS
  <2>2. OneChange(table, pml4, table', pml4') BY <1>1, <2>1, NextKeeps DEF StepKeeps
  <2>3. \A x, y : pte_lookup(memory, x, y) = Look(table, x, y) BY LookIs DEF memory
  <2>4. \A x, y : pte_lookup(memory', x, y) = Look(table', x, y) BY LookIs DEF memory
  <2> DEFINE was(x, y) == Was(table, pml4, x, y)
             is(x, y) == Was(table', pml4', x, y)
  <2>5. /\ was(s, v) # 0 /\ is(s, v) # 0 => was(s, v) = is(s, v)
        /\ was(s, v) # is(s, v) /\ was(u, w) # is(u, w) => s = u /\ v = w
    <3>1. CASE Unchanging(table, pml4, table', pml4') BY <3>1 DEF Unchanging
    <3>2. ASSUME NEW a \in PTSpaces,
                 NEW b \in UserPages, Changing(table, pml4, table', pml4', a, b)
          PROVE  /\ was(s, v) # 0 /\ is(s, v) # 0 => was(s, v) = is(s, v)
                 /\ was(s, v) # is(s, v) /\ was(u, w) # is(u, w) => s = u /\ v = w
      BY <3>2 DEF Changing
    <3> QED BY <2>2, <3>1, <3>2 DEF OneChange
  <2> QED BY <2>3, <2>4, <2>5 DEF Was
<1>2. PTInv /\ [PageTablesNext]_ptvars => PTInv' BY NextKeeps DEF StepKeeps
<1>3. PTInv /\ [PageTablesNext]_ptvars => [A]_ptvars BY <1>1
<1> QED BY <1>2, <1>3, InitKept, PTL DEF PageTablesSpec, OnePageAtATime
=============================================================================
