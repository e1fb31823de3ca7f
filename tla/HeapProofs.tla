----------------------------- MODULE HeapProofs ------------------------------
(***************************************************************************)
(* Proofs about the three allocators: their blocks tile the memory, their  *)
(* counters are true, and callers see an Allocator, for every size of the  *)
(* memory, of headers and alignment and for every sequence of calls.       *)
(***************************************************************************)
EXTENDS Heaps, SequenceTheorems, FunctionTheorems, FiniteSetTheorems, WellFoundedInduction, TLAPS

\* A set of numbers that is not empty has a least one.
LEMMA LeastNumber ==
  ASSUME NEW S \in SUBSET Nat, S # {}
  PROVE  \E x \in S : \A y \in S : x <= y
<1> DEFINE R == OpToRel(<, Nat)
<1>1. IsWellFoundedOn(R, Nat) BY NatLessThanWellFounded
<1>2. R = {ss \in Nat \X Nat : ss[1] < ss[2]} BY DEF OpToRel
<1> HIDE DEF R
<1>3. PICK x \in S : \A y \in S : ~ (<<y, x>> \in R) BY <1>1, WFMin
<1>4. \A y \in S : ~ (y < x) BY <1>2, <1>3
<1> QED BY <1>4

-----------------------------------------------------------------------------
(* Lists of blocks.                                                        *)

Block == [base : Nat, size : Nat, used : BOOLEAN]

\* A list that tiles 0 .. L - 1, no block of it empty, its header counted.
Tiled(b, H, L) ==
    /\ b \in Seq(Block) /\ Tiles(b, H, L)
    /\ \A i \in 1 .. Len(b) : H + b[i].size > 0

\* A block is its three fields.
LEMMA BlockIs ==
  ASSUME NEW x \in Block
  PROVE  x.base \in Nat /\ x.size \in Nat /\ x.used \in BOOLEAN
BY DEF Block

\* Blocks with the same fields are the same block.
LEMMA SameBlock ==
  ASSUME NEW x \in Block, NEW y \in Block, x.base = y.base, x.size = y.size, x.used = y.used
  PROVE  x = y
BY DEF Block

\* Sums of sizes.
LEMMA Sums == \A x, y, z \in Nat : x + y + z \in Nat /\ x <= x + y + z
OBVIOUS

\* Blocks further on in the list lie further on in memory, and all lie inside it.
LEMMA InOrder ==
  ASSUME NEW H \in Nat, NEW L \in Nat, NEW b, Tiled(b, H, L)
  PROVE  /\ \A i, j \in 1 .. Len(b) : i < j => b[i].base + H + b[i].size <= b[j].base
         /\ \A i \in 1 .. Len(b) : b[i].base + H + b[i].size <= L
<1>1. /\ b \in Seq(Block) /\ Len(b) \in Nat /\ Len(b) > 0
      /\ \A i \in 1 .. Len(b) : b[i] \in Block
      /\ \A i \in 1 .. Len(b) : b[i].base + H + b[i].size = IF i = Len(b) THEN L ELSE b[i + 1].base
  BY DEF Tiled, Tiles
<1>2. \A i \in 1 .. Len(b) : b[i].base \in Nat /\ b[i].size \in Nat BY <1>1, BlockIs
<1>3. ASSUME NEW i \in 1 .. Len(b)
      PROVE  \A j \in 1 .. Len(b) : i < j => b[i].base + H + b[i].size <= b[j].base
  <2> DEFINE B == {j \in 1 .. Len(b) : i < j /\ ~ (b[i].base + H + b[i].size <= b[j].base)}
  <2> SUFFICES ASSUME B # {} PROVE FALSE OBVIOUS
  <2>1. B \in SUBSET Nat OBVIOUS
  <2>2. PICK j \in B : \A k \in B : j <= k BY <2>1, LeastNumber
  <2>3. j \in 1 .. Len(b) /\ i < j /\ ~ (b[i].base + H + b[i].size <= b[j].base) BY <2>2
  <2> DEFINE k == j - 1
  <2>4. k \in 1 .. Len(b) /\ k + 1 = j /\ k # Len(b) /\ i <= k BY <1>1, <2>3
  <2>5. k \notin B BY <2>2, <2>4
  <2>6. b[k].base + H + b[k].size = b[j].base BY <1>1, <2>4
  <2> HIDE DEF k
  <2>7. /\ b[i].base + H + b[i].size \in Nat /\ b[k].base \in Nat /\ b[k].base + H + b[k].size \in Nat
        /\ b[k].base <= b[k].base + H + b[k].size
    <3>1. b[i].base \in Nat /\ b[i].size \in Nat BY <1>2
    <3>2. b[k].base \in Nat /\ b[k].size \in Nat BY <1>2, <2>4
    <3> QED BY <3>1, <3>2, Sums
  <2>8. CASE i = k BY <2>3, <2>6, <2>7, <2>8
  <2>9. CASE i < k
    <3>1. b[i].base + H + b[i].size <= b[k].base BY <2>4, <2>5, <2>9
    <3> QED BY <2>3, <2>6, <2>7, <3>1
  <2> QED BY <2>4, <2>8, <2>9
<1>4. ASSUME NEW i \in 1 .. Len(b) PROVE b[i].base + H + b[i].size <= L
  <2>1. CASE i = Len(b) BY <1>1, <2>1
  <2>2. CASE i # Len(b)
    <3> DEFINE n == Len(b)
    <3>1. n \in 1 .. Len(b) /\ i < n BY <1>1, <2>2
    <3>2. b[i].base + H + b[i].size <= b[n].base BY <1>3, <3>1
    <3>3. b[n].base + H + b[n].size = L BY <1>1, <3>1
    <3> HIDE DEF n
    <3>4. b[i].base + H + b[i].size \in Nat /\ b[n].base \in Nat /\ b[n].size \in Nat
      BY <1>2, <3>1
    <3> QED BY <3>2, <3>3, <3>4
  <2> QED BY <2>1, <2>2
<1> QED BY <1>3, <1>4

\* No two blocks begin at the same place.
LEMMA OneAtEach ==
  ASSUME NEW H \in Nat, NEW L \in Nat, NEW b, Tiled(b, H, L),
         NEW i \in 1 .. Len(b), NEW j \in 1 .. Len(b), b[i].base = b[j].base
  PROVE  i = j
<1>1. \A k \in 1 .. Len(b) : b[k].base \in Nat /\ b[k].size \in Nat /\ H + b[k].size > 0
  <2>1. \A k \in 1 .. Len(b) : b[k] \in Block /\ H + b[k].size > 0 BY DEF Tiled
  <2> QED BY <2>1, BlockIs
<1>2. \A k, l \in 1 .. Len(b) : k < l => b[k].base + H + b[k].size <= b[l].base BY InOrder
<1>3. ~ (i < j)
  <2> SUFFICES ASSUME i < j PROVE FALSE OBVIOUS
  <2>1. b[i].base + H + b[i].size <= b[j].base BY <1>2
  <2> QED BY <1>1, <2>1
<1>4. ~ (j < i)
  <2> SUFFICES ASSUME j < i PROVE FALSE OBVIOUS
  <2>1. b[j].base + H + b[j].size <= b[i].base BY <1>2
  <2> QED BY <1>1, <2>1
<1>5. i \in Int /\ j \in Int OBVIOUS
<1> QED BY <1>3, <1>4, <1>5

\* The blocks in use.
InUse(b) == {b[i] : i \in {j \in 1 .. Len(b) : b[j].used}}
-----------------------------------------------------------------------------
(* Looking blocks up.                                                      *)

\* The first block that fits: it fits, and none before it does.
LEMMA LeastIs ==
  ASSUME NEW S \in SUBSET Nat, S # {}
  PROVE  Min(S) \in S
<1>1. \E x \in S : \A y \in S : x <= y BY LeastNumber
<1> QED BY <1>1 DEF Min

\* The first fit is free and fits.
LEMMA FirstFit ==
  ASSUME NEW b \in Seq(Block), NEW size \in Nat, first_fit(b, size) # 0
  PROVE  /\ first_fit(b, size) \in 1 .. Len(b)
         /\ ~ b[first_fit(b, size)].used /\ b[first_fit(b, size)].size >= size
<1> DEFINE I == {i \in 1 .. Len(b) : ~b[i].used /\ b[i].size >= size}
<1>1. first_fit(b, size) = IF I # {} THEN Min(I) ELSE 0 BY DEF first_fit, SelectInSeq
<1>2. I # {} /\ I \in SUBSET Nat BY <1>1
<1> HIDE DEF I
<1>3. first_fit(b, size) \in I BY <1>1, <1>2, LeastIs
<1> QED BY <1>3 DEF I

\* The block at an address is the one that begins there.
LEMMA BlockAt ==
  ASSUME NEW H \in Nat, NEW L \in Nat, NEW b, Tiled(b, H, L), NEW i \in 1 .. Len(b)
  PROVE  block_at(b, b[i].base) = i
<1> DEFINE a == b[i].base
           I == {j \in 1 .. Len(b) : b[j].base = a}
<1>1. block_at(b, a) = IF I # {} THEN Min(I) ELSE 0 BY DEF block_at, SelectInSeq
<1>2. i \in I /\ I \in SUBSET Nat OBVIOUS
<1>3. \A j \in I : j = i BY OneAtEach
<1> HIDE DEF I
<1>4. Min(I) \in I /\ I # {} BY <1>2, LeastIs
<1> QED BY <1>1, <1>3, <1>4
-----------------------------------------------------------------------------
(* What splitting and joining do to a list, block by block.                *)

\* The list in front of a block, and the list behind it.
LEMMA FrontIs ==
  ASSUME NEW b \in Seq(Block), NEW i \in 1 .. Len(b)
  PROVE  /\ SubSeq(b, 1, i - 1) \in Seq(Block) /\ Len(SubSeq(b, 1, i - 1)) = i - 1
         /\ \A k \in 1 .. i - 1 : SubSeq(b, 1, i - 1)[k] = b[k]
<1>1. \A k \in 1 .. i - 1 : b[k] \in Block OBVIOUS
<1>2. 1 \in Int /\ i - 1 \in Int OBVIOUS
<1>3. /\ SubSeq(b, 1, i - 1) \in Seq(Block)
      /\ Len(SubSeq(b, 1, i - 1)) = IF 1 <= i - 1 THEN (i - 1) - 1 + 1 ELSE 0
      /\ \A k \in 1 .. (i - 1) - 1 + 1 : SubSeq(b, 1, i - 1)[k] = b[1 + k - 1]
  BY <1>1, <1>2, SubSeqProperties
<1> QED BY <1>3

\* How far the free neighbours in front of a block reach back.
LEMMA BackIs ==
  ASSUME NEW b \in Seq(Block), NEW i \in 0 .. Len(b)
  PROVE  /\ SubSeq(b, i + 1, Len(b)) \in Seq(Block) /\ Len(SubSeq(b, i + 1, Len(b))) = Len(b) - i
         /\ \A k \in 1 .. Len(b) - i : SubSeq(b, i + 1, Len(b))[k] = b[k + i]
<1> DEFINE n == Len(b)
<1>0. n \in Nat /\ i \in Nat /\ i <= n OBVIOUS
<1>1. \A k \in i + 1 .. n : b[k] \in Block OBVIOUS
<1>2. i + 1 \in Int /\ n \in Int OBVIOUS
<1> HIDE DEF n
<1>3. /\ SubSeq(b, i + 1, n) \in Seq(Block)
      /\ Len(SubSeq(b, i + 1, n)) = IF i + 1 <= n THEN n - (i + 1) + 1 ELSE 0
      /\ \A k \in 1 .. n - (i + 1) + 1 : SubSeq(b, i + 1, n)[k] = b[(i + 1) + k - 1]
  BY <1>1, <1>2, SubSeqProperties
<1> QED BY <1>0, <1>3 DEF n

\* The block that is taken and what is left of it.
cut_to(x, size) == [base |-> x.base, size |-> size, used |-> TRUE]
rest_of(x, size, H) == [base |-> x.base + H + size, size |-> x.size - size - H, used |-> FALSE]

\* What happens to a list, as relations between b and what it becomes: the
\* i-th block of b is joined to the next, is split, is changed to x.
IsJoin(j, b, i, H) ==
    /\ b \in Seq(Block) /\ j \in Seq(Block) /\ i \in 1 .. Len(b) - 1 /\ Len(j) = Len(b) - 1
    /\ \A k \in 1 .. Len(b) - 1 : k < i => j[k] = b[k]
    /\ \A k \in 1 .. Len(b) - 1 : k > i => j[k] = b[k + 1]
    /\ j[i].base = b[i].base /\ j[i].size = b[i].size + H + b[i + 1].size /\ j[i].used = b[i].used
IsSplit(t, b, i, size, H) ==
    /\ b \in Seq(Block) /\ t \in Seq(Block) /\ i \in 1 .. Len(b) /\ Len(t) = Len(b) + 1
    /\ \A k \in 1 .. Len(b) + 1 : k < i => t[k] = b[k]
    /\ \A k \in 1 .. Len(b) + 1 : k > i + 1 => t[k] = b[k - 1]
    /\ t[i] = cut_to(b[i], size) /\ t[i + 1] = rest_of(b[i], size, H)
IsMark(c, b, i, u) ==
    /\ b \in Seq(Block) /\ c \in Seq(Block) /\ i \in 1 .. Len(b) /\ Len(c) = Len(b)
    /\ \A k \in 1 .. Len(b) : k # i => c[k] = b[k]
    /\ c[i].base = b[i].base /\ c[i].size = b[i].size /\ c[i].used = u

joined(x, y, H) == [x EXCEPT !.size = x.size + H + y.size]

\* What join does to every block of the list.
LEMMA JoinIs ==
  ASSUME NEW H \in Nat, NEW b \in Seq(Block), NEW i \in 1 .. Len(b) - 1
  PROVE  /\ join(b, i, H) \in Seq(Block) /\ Len(join(b, i, H)) = Len(b) - 1
         /\ \A k \in 1 .. Len(b) - 1 :
              join(b, i, H)[k] = IF k < i THEN b[k]
                                 ELSE IF k = i THEN joined(b[i], b[i + 1], H) ELSE b[k + 1]
         /\ joined(b[i], b[i + 1], H) \in Block
<1> DEFINE n == Len(b)
           x == joined(b[i], b[i + 1], H)
           p == SubSeq(b, 1, i - 1)
           q == SubSeq(b, i + 2, n)
<1>1. n \in Nat /\ i \in Nat /\ i >= 1 /\ i < n OBVIOUS
<1>2. \A k \in 1 .. n : b[k] \in Block OBVIOUS
<1>3. x \in Block
  <2>1. b[i] \in Block /\ b[i + 1] \in Block BY <1>1, <1>2
  <2>2. b[i].size \in Nat /\ b[i + 1].size \in Nat BY <2>1, BlockIs
  <2>3. b[i].size + H + b[i + 1].size \in Nat BY <2>2, Sums
  <2> QED BY <2>1, <2>3 DEF joined, Block
<1>4. p \in Seq(Block) /\ Len(p) = i - 1 /\ \A k \in 1 .. i - 1 : p[k] = b[k] BY <1>1, FrontIs
<1>5. q \in Seq(Block) /\ Len(q) = n - i - 1 /\ \A k \in 1 .. n - i - 1 : q[k] = b[k + i + 1]
  <2> DEFINE m == i + 1
  <2>1. m \in 0 .. n BY <1>1
  <2>2. SubSeq(b, m + 1, n) = q BY <1>1
  <2> HIDE DEF m, q
  <2>3. q \in Seq(Block) /\ Len(q) = n - m /\ \A k \in 1 .. n - m : q[k] = b[k + m]
    BY <2>1, <2>2, BackIs
  <2> QED BY <1>1, <2>3 DEF m
<1>6. join(b, i, H) = p \o <<x>> \o q BY DEF join, joined
<1>7. <<x>> \in Seq(Block) /\ Len(<<x>>) = 1 /\ <<x>>[1] = x BY <1>3
<1> HIDE DEF p, q, x, n
<1>8. /\ p \o <<x>> \in Seq(Block) /\ Len(p \o <<x>>) = i
      /\ \A k \in 1 .. i : (p \o <<x>>)[k] = IF k < i THEN b[k] ELSE x
  BY <1>1, <1>4, <1>7, ConcatProperties
<1> DEFINE u == p \o <<x>>
<1> HIDE DEF u
<1>9. /\ u \o q \in Seq(Block) /\ Len(u \o q) = n - 1
      /\ \A k \in 1 .. n - 1 : (u \o q)[k] = IF k <= i THEN u[k] ELSE q[k - i]
  <2>0. q \in Seq(Block) BY <1>5
  <2>1. u \in Seq(Block) /\ Len(u) = i BY <1>8 DEF u
  <2>2. /\ u \o q \in Seq(Block) /\ Len(u \o q) = Len(u) + Len(q)
        /\ \A k \in 1 .. Len(u) + Len(q) : (u \o q)[k] = IF k <= Len(u) THEN u[k] ELSE q[k - Len(u)]
    BY <2>0, <2>1, ConcatProperties
  <2>3. Len(u) + Len(q) = n - 1 BY <1>1, <1>5, <2>1
  <2> QED BY <2>1, <2>2, <2>3
<1> DEFINE j == u \o q
<1> HIDE DEF j
<1>10. \A k \in 1 .. n - 1 : j[k] = IF k < i THEN b[k] ELSE IF k = i THEN x ELSE b[k + 1]
  <2> SUFFICES ASSUME NEW k \in 1 .. n - 1
               PROVE  j[k] = IF k < i THEN b[k] ELSE IF k = i THEN x ELSE b[k + 1]
    OBVIOUS
  <2>1. CASE k <= i
    <3>1. j[k] = u[k] BY <1>9, <2>1 DEF j
    <3>2. u[k] = IF k < i THEN b[k] ELSE x BY <1>1, <1>8, <2>1 DEF u
    <3>3. k < i \/ k = i BY <1>1, <2>1
    <3> QED BY <3>1, <3>2, <3>3
  <2>2. CASE k > i
    <3>1. k - i \in 1 .. n - i - 1 /\ (k - i) + i + 1 = k + 1 BY <1>1, <2>2
    <3>2. q[k - i] = b[(k - i) + i + 1] BY <1>5, <3>1
    <3>3. j[k] = q[k - i] BY <1>1, <1>9, <2>2 DEF j
    <3>4. j[k] = b[k + 1] BY <3>1, <3>2, <3>3
    <3> QED BY <1>1, <2>2, <3>4
  <2> QED BY <1>1, <2>1, <2>2
<1> QED BY <1>3, <1>6, <1>9, <1>10 DEF j, u, n, x


\* What cut does to every block of the list.
LEMMA CutIs ==
  ASSUME NEW x \in Block, NEW size
  PROVE  [x EXCEPT !.size = size, !.used = TRUE] = cut_to(x, size)
<1> DEFINE y == [x EXCEPT !.size = size]
           z == [y EXCEPT !.used = TRUE]
<1>1. [x EXCEPT !.size = size, !.used = TRUE] = z OBVIOUS
<1>2. y \in [base : Nat, size : {size}, used : BOOLEAN] /\ y.base = x.base BY DEF Block
<1> HIDE DEF y
<1>3. z \in [base : Nat, size : {size}, used : BOOLEAN] /\ z.base = x.base /\ z.size = size
  BY <1>2
<1>4. z.used = TRUE BY <1>2
<1> HIDE DEF z
<1>5. z = [base |-> x.base, size |-> size, used |-> TRUE] BY <1>3, <1>4
<1> QED BY <1>1, <1>5 DEF cut_to

\* What split does to every block of the list.
LEMMA SplitIs ==
  ASSUME NEW H \in Nat, NEW m \in Nat, NEW size \in Nat, NEW b \in Seq(Block),
         NEW i \in 1 .. Len(b),
         splits(b[i], size, H, m)
  PROVE  IsSplit(taken(b, i, size, H, m), b, i, size, H)
<1> DEFINE n == Len(b)
           x == cut_to(b[i], size)
           y == rest_of(b[i], size, H)
           p == SubSeq(b, 1, i - 1)
           q == SubSeq(b, i + 1, n)
           v == <<x, y>>
<1>1. n \in Nat /\ i \in Nat /\ i >= 1 /\ i <= n OBVIOUS
<1>2. b[i] \in Block /\ b[i].base \in Nat /\ b[i].size \in Nat /\ b[i].size >= size + H + m
  BY BlockIs DEF splits
<1>3. x \in Block /\ y \in Block
  <2>1. b[i].base + H + size \in Nat BY <1>2, Sums
  <2>2. b[i].size - size - H \in Nat
    <3> DEFINE s == b[i].size
    <3>1. s \in Nat /\ s >= size + H + m BY <1>2
    <3> HIDE DEF s
    <3>2. s - size - H \in Nat BY <3>1
    <3> QED BY <3>2 DEF s
  <2> QED BY <1>2, <2>1, <2>2 DEF cut_to, rest_of, Block
<1>4. p \in Seq(Block) /\ Len(p) = i - 1 /\ \A k \in 1 .. i - 1 : p[k] = b[k] BY <1>1, FrontIs
<1>5. q \in Seq(Block) /\ Len(q) = n - i /\ \A k \in 1 .. n - i : q[k] = b[k + i]
  <2>1. i \in 0 .. n BY <1>1
  <2> QED BY <2>1, BackIs
<1>6. taken(b, i, size, H, m) = p \o v \o q
  <2>1. [b[i] EXCEPT !.size = size, !.used = TRUE] = x BY <1>2, CutIs
  <2> QED BY <2>1 DEF taken, rest_of
<1>7. v \in Seq(Block) /\ Len(v) = 2 /\ v[1] = x /\ v[2] = y BY <1>3
<1> HIDE DEF p, q, x, y, n, v
<1> DEFINE u == p \o v
           j == u \o q
<1>8. /\ u \in Seq(Block) /\ Len(u) = i + 1
      /\ \A k \in 1 .. i + 1 : u[k] = IF k <= i - 1 THEN p[k] ELSE v[k - (i - 1)]
  <2>1. p \in Seq(Block) /\ v \in Seq(Block) /\ Len(p) = i - 1 /\ Len(v) = 2 BY <1>4, <1>7
  <2>2. /\ p \o v \in Seq(Block) /\ Len(p \o v) = Len(p) + Len(v)
        /\ \A k \in 1 .. Len(p) + Len(v) : (p \o v)[k] = IF k <= Len(p) THEN p[k] ELSE v[k - Len(p)]
    BY <2>1, ConcatProperties
  <2>3. Len(p) + Len(v) = i + 1 BY <1>1, <2>1
  <2> QED BY <2>1, <2>2, <2>3
<1> HIDE DEF u
<1>9. /\ j \in Seq(Block) /\ Len(j) = n + 1
      /\ \A k \in 1 .. n + 1 : j[k] = IF k <= i + 1 THEN u[k] ELSE q[k - (i + 1)]
  <2>1. u \in Seq(Block) /\ q \in Seq(Block) /\ Len(u) = i + 1 /\ Len(q) = n - i BY <1>5, <1>8
  <2>2. /\ u \o q \in Seq(Block) /\ Len(u \o q) = Len(u) + Len(q)
        /\ \A k \in 1 .. Len(u) + Len(q) : (u \o q)[k] = IF k <= Len(u) THEN u[k] ELSE q[k - Len(u)]
    BY <2>1, ConcatProperties
  <2>3. Len(u) + Len(q) = n + 1 BY <1>1, <2>1
  <2> QED BY <2>1, <2>2, <2>3
<1> HIDE DEF j
<1>10. \A k \in 1 .. n + 1 : j[k] = IF k < i THEN b[k] ELSE IF k = i THEN x ELSE IF k = i + 1 THEN y ELSE b[k - 1]
  <2> SUFFICES ASSUME NEW k \in 1 .. n + 1
               PROVE  j[k] = IF k < i THEN b[k] ELSE IF k = i THEN x ELSE IF k = i + 1 THEN y ELSE b[k - 1]
    OBVIOUS
  <2>1. CASE k < i
    <3>1. j[k] = u[k] /\ u[k] = p[k] /\ p[k] = b[k] BY <1>1, <1>4, <1>8, <1>9, <2>1
    <3> QED BY <2>1, <3>1
  <2>2. CASE k = i
    <3>1. j[k] = u[k] /\ u[k] = v[k - (i - 1)] /\ k - (i - 1) = 1 BY <1>1, <1>8, <1>9, <2>2
    <3> QED BY <1>1, <1>7, <2>2, <3>1
  <2>3. CASE k = i + 1
    <3>1. j[k] = u[k] /\ u[k] = v[k - (i - 1)] /\ k - (i - 1) = 2 BY <1>1, <1>8, <1>9, <2>3
    <3> QED BY <1>1, <1>7, <2>3, <3>1
  <2>4. CASE k > i + 1
    <3> DEFINE l == k - (i + 1)
    <3>1. j[k] = q[l] /\ l \in 1 .. n - i /\ l + i = k - 1 BY <1>1, <1>9, <2>4
    <3> HIDE DEF l
    <3>2. q[l] = b[k - 1] BY <1>5, <3>1
    <3>3. j[k] = b[k - 1] BY <3>1, <3>2
    <3> QED BY <1>1, <2>4, <3>3
  <2> QED BY <1>1, <2>1, <2>2, <2>3, <2>4
<1>11. taken(b, i, size, H, m) = j BY <1>6 DEF j, u
<1>12. j[i] = x /\ j[i + 1] = y BY <1>1, <1>10
<1>13. \A k \in 1 .. n + 1 : (k < i => j[k] = b[k]) /\ (k > i + 1 => j[k] = b[k - 1])
  BY <1>1, <1>10
<1>14. IsSplit(j, b, i, size, H) BY <1>9, <1>12, <1>13 DEF IsSplit, n, x, y
<1> QED BY <1>11, <1>14

\* A block is marked used or free.
marked(x, u) == [x EXCEPT !.used = u]

\* What marking a block used or free does to the list.
LEMMA MarkIs ==
  ASSUME NEW b \in Seq(Block), NEW i \in 1 .. Len(b), NEW u \in BOOLEAN
  PROVE  /\ [b EXCEPT ![i].used = u] \in Seq(Block) /\ Len([b EXCEPT ![i].used = u]) = Len(b)
         /\ \A k \in 1 .. Len(b) : [b EXCEPT ![i].used = u][k] = IF k = i THEN marked(b[i], u) ELSE b[k]
         /\ marked(b[i], u) \in Block
         /\ marked(b[i], u).base = b[i].base /\ marked(b[i], u).size = b[i].size /\ marked(b[i], u).used = u
<1>1. b[i] \in Block OBVIOUS
<1>2. /\ marked(b[i], u) \in Block
      /\ marked(b[i], u).base = b[i].base /\ marked(b[i], u).size = b[i].size /\ marked(b[i], u).used = u
  BY <1>1 DEF marked, Block
<1> DEFINE y == marked(b[i], u)
<1>3. [b EXCEPT ![i].used = u] = [b EXCEPT ![i] = y] BY DEF marked
<1> HIDE DEF y
<1>4. /\ [b EXCEPT ![i] = y] \in Seq(Block) /\ Len([b EXCEPT ![i] = y]) = Len(b)
      /\ \A k \in 1 .. Len(b) : [b EXCEPT ![i] = y][k] = IF k = i THEN y ELSE b[k]
  <2>1. y \in Block BY <1>2 DEF y
  <2> QED BY <2>1
<1> QED BY <1>2, <1>3, <1>4 DEF y

\* A block is taken, whole or cut; both ways it is the i-th of the new list.
gets(x, size, H, m) == IF splits(x, size, H, m) THEN size ELSE x.size

\* What taking a block, whole or in part, does to the list.
LEMMA TakenIs ==
  ASSUME NEW H \in Nat, NEW m \in Nat, NEW size \in Nat, NEW b \in Seq(Block),
         NEW i \in 1 .. Len(b),
         ~ splits(b[i], size, H, m)
  PROVE  /\ taken(b, i, size, H, m) \in Seq(Block) /\ Len(taken(b, i, size, H, m)) = Len(b)
         /\ \A k \in 1 .. Len(b) :
              taken(b, i, size, H, m)[k] = IF k = i THEN cut_to(b[i], b[i].size) ELSE b[k]
         /\ cut_to(b[i], b[i].size) \in Block
<1>1. taken(b, i, size, H, m) = [b EXCEPT ![i].used = TRUE] BY DEF taken
<1>2. TRUE \in BOOLEAN /\ b[i] \in Block /\ b[i].base \in Nat /\ b[i].size \in Nat BY BlockIs
<1>3. cut_to(b[i], b[i].size) \in Block BY <1>2 DEF cut_to, Block
<1>4. marked(b[i], TRUE) = cut_to(b[i], b[i].size)
  <2> DEFINE x == marked(b[i], TRUE)
             y == cut_to(b[i], b[i].size)
  <2>1. x \in Block /\ x.base = b[i].base /\ x.size = b[i].size /\ x.used = TRUE
    BY <1>2 DEF marked, Block
  <2>2. y \in Block /\ y.base = b[i].base /\ y.size = b[i].size /\ y.used = TRUE
    BY <1>3 DEF cut_to
  <2> HIDE DEF x, y
  <2>3. x = y BY <2>1, <2>2, SameBlock
  <2> QED BY <2>3 DEF x, y
<1>5. /\ [b EXCEPT ![i].used = TRUE] \in Seq(Block) /\ Len([b EXCEPT ![i].used = TRUE]) = Len(b)
      /\ \A k \in 1 .. Len(b) :
            [b EXCEPT ![i].used = TRUE][k] = IF k = i THEN marked(b[i], TRUE) ELSE b[k]
  BY <1>2, MarkIs
<1> QED BY <1>1, <1>3, <1>4, <1>5

\* join, as the relation Joined.
LEMMA JoinRelates ==
  ASSUME NEW H \in Nat, NEW b \in Seq(Block), NEW i \in 1 .. Len(b) - 1
  PROVE  IsJoin(join(b, i, H), b, i, H)
<1> DEFINE j == join(b, i, H)
           x == joined(b[i], b[i + 1], H)
<1>1. /\ j \in Seq(Block) /\ Len(j) = Len(b) - 1
      /\ \A k \in 1 .. Len(b) - 1 : j[k] = IF k < i THEN b[k] ELSE IF k = i THEN x ELSE b[k + 1]
  BY JoinIs
<1> HIDE DEF j
<1>2. Len(b) \in Nat /\ i \in Nat /\ b[i] \in Block OBVIOUS
<1>3. j[i] = x BY <1>1
<1>4. x.base = b[i].base /\ x.size = b[i].size + H + b[i + 1].size /\ x.used = b[i].used
  BY <1>2 DEF joined, Block
<1> HIDE DEF x
<1>5. \A k \in 1 .. Len(b) - 1 : (k < i => j[k] = b[k]) /\ (k > i => j[k] = b[k + 1])
  BY <1>1, <1>2
<1> QED BY <1>1, <1>3, <1>4, <1>5 DEF IsJoin, j

\* Taking a block whole, as the relation Whole.
LEMMA WholeRelates ==
  ASSUME NEW H \in Nat, NEW m \in Nat, NEW size \in Nat, NEW b \in Seq(Block),
         NEW i \in 1 .. Len(b),
         ~ splits(b[i], size, H, m)
  PROVE  IsMark(taken(b, i, size, H, m), b, i, TRUE)
<1> DEFINE t == taken(b, i, size, H, m)
           x == cut_to(b[i], b[i].size)
<1>1. /\ t \in Seq(Block) /\ Len(t) = Len(b)
      /\ \A k \in 1 .. Len(b) : t[k] = IF k = i THEN x ELSE b[k]
  BY TakenIs
<1>2. x.base = b[i].base /\ x.size = b[i].size /\ x.used = TRUE BY DEF cut_to
<1> HIDE DEF t, x
<1>3. t[i] = x BY <1>1
<1> QED BY <1>1, <1>2, <1>3 DEF IsMark, t

\* Freeing a block, as the relation between lists.
LEMMA MarkRelates ==
  ASSUME NEW b \in Seq(Block), NEW i \in 1 .. Len(b), NEW u \in BOOLEAN
  PROVE  IsMark([b EXCEPT ![i].used = u], b, i, u)
<1> DEFINE t == [b EXCEPT ![i].used = u]
           x == marked(b[i], u)
<1>1. /\ t \in Seq(Block) /\ Len(t) = Len(b)
      /\ \A k \in 1 .. Len(b) : t[k] = IF k = i THEN x ELSE b[k]
      /\ x.base = b[i].base /\ x.size = b[i].size /\ x.used = u
  BY MarkIs
<1> HIDE DEF t, x
<1>3. t[i] = x BY <1>1
<1> QED BY <1>1, <1>3 DEF IsMark, t
-----------------------------------------------------------------------------
(* The list still tiles the memory.                                        *)

\* Joining two blocks leaves the arena tiled.
LEMMA JoinTiles ==
  ASSUME NEW H \in Nat, NEW L \in Nat, NEW b, NEW j, NEW i, Tiled(b, H, L), IsJoin(j, b, i, H)
  PROVE  Tiled(j, H, L)
<1> DEFINE n == Len(b)
<1>1. /\ n \in Nat /\ i \in 1 .. n - 1 /\ Len(j) = n - 1 /\ j \in Seq(Block)
      /\ \A k \in 1 .. n : b[k] \in Block /\ H + b[k].size > 0
      /\ b[1].base = 0
      /\ \A k \in 1 .. n : b[k].base + H + b[k].size = IF k = n THEN L ELSE b[k + 1].base
  BY DEF Tiled, Tiles, IsJoin
<1>2. /\ \A k \in 1 .. n - 1 : k < i => j[k] = b[k]
      /\ \A k \in 1 .. n - 1 : k > i => j[k] = b[k + 1]
      /\ j[i].base = b[i].base /\ j[i].size = b[i].size + H + b[i + 1].size
  BY DEF IsJoin
<1>3. \A k \in 1 .. n : b[k].base \in Nat /\ b[k].size \in Nat BY <1>1, BlockIs
<1> HIDE DEF n
<1>4. ASSUME NEW k \in 1 .. n - 1
      PROVE  H + j[k].size > 0 /\ j[k].base + H + j[k].size = IF k = n - 1 THEN L ELSE j[k + 1].base
  <2>1. CASE k < i
    <3>1. j[k] = b[k] /\ k # n /\ k # n - 1 /\ k \in 1 .. n /\ k + 1 \in 1 .. n - 1
      BY <1>1, <1>2, <2>1
    <3>2. j[k + 1].base = b[k + 1].base
      <4>1. CASE k + 1 = i BY <1>2, <4>1
      <4>2. CASE k + 1 # i BY <1>1, <1>2, <2>1, <3>1, <4>2
      <4> QED BY <4>1, <4>2
    <3> QED BY <1>1, <3>1, <3>2
  <2>2. CASE k = i
    <3> DEFINE a == b[i].base
               c == b[i].size
               d == b[i + 1].base
               e == b[i + 1].size
    <3>1. i \in 1 .. n /\ i + 1 \in 1 .. n /\ i # n BY <1>1
    <3>2. a \in Nat /\ c \in Nat /\ d \in Nat /\ e \in Nat BY <1>3, <3>1
    <3>3. a + H + c = d /\ d + H + e = IF i + 1 = n THEN L ELSE b[i + 2].base
      <4>1. b[i].base + H + b[i].size = b[i + 1].base BY <1>1, <3>1
      <4> DEFINE l == i + 1
      <4>2. l \in 1 .. n /\ b[l + 1] = b[i + 2] BY <3>1
      <4>3. b[l].base + H + b[l].size = IF l = n THEN L ELSE b[l + 1].base BY <1>1, <4>2
      <4> QED BY <4>1, <4>2, <4>3
    <3>4. j[k].base = a /\ j[k].size = c + H + e BY <1>2, <2>2
    <3>5. H + c > 0 BY <1>1, <3>1
    <3>6. i + 1 # n => j[k + 1].base = b[i + 2].base
      <4> SUFFICES ASSUME i + 1 # n PROVE j[k + 1].base = b[i + 2].base OBVIOUS
      <4> DEFINE l == i + 1
      <4>1. l \in 1 .. n - 1 /\ l > i /\ l + 1 = i + 2 BY <1>1
      <4>2. j[l] = b[l + 1] BY <1>2, <4>1
      <4> QED BY <2>2, <4>1, <4>2
    <3>7. i + 1 = n <=> k = n - 1 BY <1>1, <2>2
    <3> HIDE DEF a, c, d, e
    <3>8. H + (c + H + e) > 0 /\ a + H + (c + H + e) = d + H + e BY <3>2, <3>3, <3>5
    <3> QED BY <3>3, <3>4, <3>6, <3>7, <3>8
  <2>3. CASE k > i
    <3> DEFINE l == k + 1
    <3>1. l \in 1 .. n /\ j[k] = b[l] /\ (l = n <=> k = n - 1) BY <1>1, <1>2, <2>3
    <3>2. k # n - 1 => j[k + 1] = b[l + 1] BY <1>1, <1>2, <2>3
    <3>3. b[l].base + H + b[l].size = IF l = n THEN L ELSE b[l + 1].base BY <1>1, <3>1
    <3>4. H + b[l].size > 0 BY <1>1, <3>1
    <3> HIDE DEF l
    <3> QED BY <3>1, <3>2, <3>3, <3>4
  <2> QED BY <1>1, <2>1, <2>2, <2>3
<1>5. j # <<>> /\ j[1].base = 0
  <2>1. 1 \in 1 .. n - 1 BY <1>1
  <2>2. j # <<>> BY <1>1
  <2>3. CASE i = 1 BY <1>1, <1>2, <2>3
  <2>4. CASE i # 1
    <3>1. j[1] = b[1] BY <1>1, <1>2, <2>1, <2>4
    <3> QED BY <1>1, <3>1
  <2> QED BY <2>2, <2>3, <2>4
<1> QED BY <1>1, <1>4, <1>5 DEF Tiled, Tiles

\* Splitting a block leaves the arena tiled.
LEMMA SplitTiles ==
  ASSUME NEW H \in Nat, NEW L \in Nat, NEW size \in Nat, NEW b, NEW t, NEW i, Tiled(b, H, L),
         IsSplit(t, b, i, size, H), H + size > 0, b[i].size > size, b[i].size >= size + H
  PROVE  Tiled(t, H, L)
<1> DEFINE n == Len(b)
<1>1. /\ n \in Nat /\ i \in 1 .. n /\ Len(t) = n + 1 /\ t \in Seq(Block)
      /\ \A k \in 1 .. n : b[k] \in Block /\ H + b[k].size > 0
      /\ b[1].base = 0
      /\ \A k \in 1 .. n : b[k].base + H + b[k].size = IF k = n THEN L ELSE b[k + 1].base
  BY DEF Tiled, Tiles, IsSplit
<1>2. /\ \A k \in 1 .. n + 1 : k < i => t[k] = b[k]
      /\ \A k \in 1 .. n + 1 : k > i + 1 => t[k] = b[k - 1]
      /\ t[i].base = b[i].base /\ t[i].size = size
      /\ t[i + 1].base = b[i].base + H + size /\ t[i + 1].size = b[i].size - size - H
  BY DEF IsSplit, cut_to, rest_of
<1>3. \A k \in 1 .. n : b[k].base \in Nat /\ b[k].size \in Nat BY <1>1, BlockIs
<1> DEFINE a == b[i].base
           c == b[i].size
<1>4. a \in Nat /\ c \in Nat /\ c > size /\ c >= size + H BY <1>1, <1>3
<1>5. a + H + c = IF i = n THEN L ELSE b[i + 1].base BY <1>1
<1> HIDE DEF n
<1>6. ASSUME NEW k \in 1 .. n + 1
      PROVE  H + t[k].size > 0 /\ t[k].base + H + t[k].size = IF k = n + 1 THEN L ELSE t[k + 1].base
  <2>1. CASE k < i
    <3>1. t[k] = b[k] /\ k # n /\ k # n + 1 /\ k \in 1 .. n /\ k + 1 \in 1 .. n + 1
      BY <1>1, <1>2, <2>1
    <3>2. t[k + 1].base = b[k + 1].base
      <4>1. CASE k + 1 = i BY <1>2, <4>1
      <4>2. CASE k + 1 # i BY <1>1, <1>2, <2>1, <3>1, <4>2
      <4> QED BY <4>1, <4>2
    <3> QED BY <1>1, <3>1, <3>2
  <2>2. CASE k = i
    <3>1. t[k].base = a /\ t[k].size = size /\ t[k + 1].base = a + H + size /\ k # n + 1
      BY <1>1, <1>2, <2>2
    <3> HIDE DEF a
    <3> QED BY <3>1
  <2>3. CASE k = i + 1
    <3>1. t[k].base = a + H + size /\ t[k].size = c - size - H BY <1>2, <2>3
    <3>2. k # n + 1 => t[k + 1] = b[i + 1]
      <4> SUFFICES ASSUME k # n + 1 PROVE t[k + 1] = b[i + 1] OBVIOUS
      <4> DEFINE l == k + 1
      <4>1. l \in 1 .. n + 1 /\ l > i + 1 /\ l - 1 = i + 1 BY <1>1, <2>3
      <4>2. t[l] = b[l - 1] BY <1>2, <4>1
      <4> QED BY <4>1, <4>2
    <3>3. k = n + 1 <=> i = n BY <1>1, <2>3
    <3> HIDE DEF a, c
    <3>4. H + (c - size - H) > 0 /\ (a + H + size) + H + (c - size - H) = a + H + c BY <1>4
    <3> QED BY <1>5, <3>1, <3>2, <3>3, <3>4
  <2>4. CASE k > i + 1
    <3> DEFINE l == k - 1
    <3>1. l \in 1 .. n /\ t[k] = b[l] /\ (l = n <=> k = n + 1) /\ l + 1 = k BY <1>1, <1>2, <2>4
    <3>2. k # n + 1 => t[k + 1] = b[l + 1]
      <4> SUFFICES ASSUME k # n + 1 PROVE t[k + 1] = b[k] BY <3>1
      <4> DEFINE q == k + 1
      <4>1. q \in 1 .. n + 1 /\ q > i + 1 /\ q - 1 = k BY <1>1, <2>4
      <4>2. t[q] = b[q - 1] BY <1>2, <4>1
      <4> QED BY <4>1, <4>2
    <3>3. b[l].base + H + b[l].size = IF l = n THEN L ELSE b[l + 1].base BY <1>1, <3>1
    <3>4. H + b[l].size > 0 BY <1>1, <3>1
    <3> HIDE DEF l
    <3> QED BY <3>1, <3>2, <3>3, <3>4
  <2> QED BY <1>1, <2>1, <2>2, <2>3, <2>4
<1>7. t # <<>> /\ t[1].base = 0
  <2>1. 1 \in 1 .. n + 1 BY <1>1
  <2>2. t # <<>> BY <1>1
  <2>3. CASE i = 1 BY <1>1, <1>2, <2>3
  <2>4. CASE i # 1
    <3>1. t[1] = b[1] BY <1>1, <1>2, <2>1, <2>4
    <3> QED BY <1>1, <3>1
  <2> QED BY <2>2, <2>3, <2>4
<1> QED BY <1>1, <1>6, <1>7 DEF Tiled, Tiles

\* So does marking one.
LEMMA MarkTiles ==
  ASSUME NEW H \in Nat, NEW L \in Nat, NEW b, NEW c, NEW i,
         NEW u, Tiled(b, H, L), IsMark(c, b, i, u)
  PROVE  Tiled(c, H, L)
<1> DEFINE n == Len(b)
<1>1. /\ n \in Nat /\ b # <<>> /\ Len(c) = n /\ c \in Seq(Block)
      /\ \A k \in 1 .. n : H + b[k].size > 0
      /\ b[1].base = 0
      /\ \A k \in 1 .. n : b[k].base + H + b[k].size = IF k = n THEN L ELSE b[k + 1].base
  BY DEF Tiled, Tiles, IsMark
<1>2. \A k \in 1 .. n : c[k].base = b[k].base /\ c[k].size = b[k].size BY DEF IsMark
<1>3. n > 0 /\ c # <<>> BY <1>1 DEF IsMark
<1>4. 1 \in 1 .. n /\ \A k \in 1 .. n : k # n => k + 1 \in 1 .. n BY <1>1, <1>3
<1> HIDE DEF n
<1> QED BY <1>1, <1>2, <1>3, <1>4 DEF Tiled, Tiles
-----------------------------------------------------------------------------
(* The blocks in use change as they should.                                *)

\* Joining free blocks changes nothing that is in use.
LEMMA JoinUses ==
  ASSUME NEW H \in Nat, NEW b, NEW j, NEW i, IsJoin(j, b, i, H), ~ b[i].used, ~ b[i + 1].used
  PROVE  InUse(j) = InUse(b)
<1> DEFINE n == Len(b)
<1>1. /\ n \in Nat /\ i \in 1 .. n - 1 /\ Len(j) = n - 1
      /\ \A k \in 1 .. n - 1 : k < i => j[k] = b[k]
      /\ \A k \in 1 .. n - 1 : k > i => j[k] = b[k + 1]
      /\ ~ j[i].used
  BY DEF IsJoin
<1> HIDE DEF n
<1>2. ASSUME NEW k \in 1 .. n - 1, j[k].used PROVE \E l \in 1 .. n : b[l].used /\ j[k] = b[l]
  <2>1. k # i BY <1>1, <1>2
  <2>2. CASE k < i BY <1>1, <1>2, <2>2
  <2>3. CASE k > i BY <1>1, <1>2, <2>3
  <2> QED BY <1>1, <2>1, <2>2, <2>3
<1>3. ASSUME NEW l \in 1 .. n, b[l].used PROVE \E k \in 1 .. n - 1 : j[k].used /\ j[k] = b[l]
  <2>1. l # i /\ l # i + 1 BY <1>3
  <2>2. CASE l < i
    <3>1. l \in 1 .. n - 1 /\ j[l] = b[l] BY <1>1, <2>2
    <3> QED BY <1>3, <3>1
  <2>3. CASE l > i + 1
    <3> DEFINE k == l - 1
    <3>1. k \in 1 .. n - 1 /\ k > i /\ k + 1 = l BY <1>1, <2>3
    <3>2. j[k] = b[l] BY <1>1, <3>1
    <3> HIDE DEF k
    <3> QED BY <1>3, <3>1, <3>2
  <2> QED BY <1>1, <2>1, <2>2, <2>3
<1>4. InUse(j) \subseteq InUse(b) BY <1>1, <1>2 DEF InUse, n
<1>5. InUse(b) \subseteq InUse(j) BY <1>1, <1>3 DEF InUse, n
<1> QED BY <1>4, <1>5

\* Splitting puts one block more in use, at the place that was found.
LEMMA SplitUses ==
  ASSUME NEW H \in Nat, NEW size \in Nat, NEW b, NEW t,
         NEW i, IsSplit(t, b, i, size, H), ~ b[i].used
  PROVE  InUse(t) = InUse(b) \cup {t[i]}
<1> DEFINE n == Len(b)
<1>1. /\ n \in Nat /\ i \in 1 .. n /\ Len(t) = n + 1
      /\ \A k \in 1 .. n + 1 : k < i => t[k] = b[k]
      /\ \A k \in 1 .. n + 1 : k > i + 1 => t[k] = b[k - 1]
      /\ t[i].used /\ ~ t[i + 1].used
  BY DEF IsSplit, cut_to, rest_of
<1> HIDE DEF n
<1>2. ASSUME NEW k \in 1 .. n + 1, t[k].used, k # i
      PROVE \E l \in 1 .. n : b[l].used /\ t[k] = b[l]
  <2>1. k # i + 1 BY <1>1, <1>2
  <2>2. CASE k < i BY <1>1, <1>2, <2>2
  <2>3. CASE k > i + 1 BY <1>1, <1>2, <2>3
  <2> QED BY <1>1, <1>2, <2>1, <2>2, <2>3
<1>3. ASSUME NEW l \in 1 .. n, b[l].used PROVE \E k \in 1 .. n + 1 : t[k].used /\ t[k] = b[l]
  <2>1. l # i BY <1>3
  <2>2. CASE l < i
    <3>1. l \in 1 .. n + 1 /\ t[l] = b[l] BY <1>1, <2>2
    <3> QED BY <1>3, <3>1
  <2>3. CASE l > i
    <3> DEFINE k == l + 1
    <3>1. k \in 1 .. n + 1 /\ k > i + 1 /\ k - 1 = l BY <1>1, <2>3
    <3>2. t[k] = b[l] BY <1>1, <3>1
    <3> HIDE DEF k
    <3> QED BY <1>3, <3>1, <3>2
  <2> QED BY <1>1, <2>1, <2>2, <2>3
<1>4. i \in 1 .. n + 1 BY <1>1
<1>5. InUse(t) \subseteq InUse(b) \cup {t[i]} BY <1>1, <1>2 DEF InUse, n
<1>6. InUse(b) \subseteq InUse(t) BY <1>1, <1>3 DEF InUse, n
<1>7. t[i] \in InUse(t) BY <1>1, <1>4 DEF InUse
<1> QED BY <1>5, <1>6, <1>7

\* So does taking a block whole.
LEMMA WholeUses ==
  ASSUME NEW b, NEW c, NEW i, IsMark(c, b, i, TRUE), ~ b[i].used
  PROVE  InUse(c) = InUse(b) \cup {c[i]}
<1>1. /\ i \in 1 .. Len(b) /\ Len(c) = Len(b) /\ c[i].used
      /\ \A k \in 1 .. Len(b) : k # i => c[k] = b[k]
  BY DEF IsMark
<1>2. InUse(c) \subseteq InUse(b) \cup {c[i]} BY <1>1 DEF InUse
<1>3. InUse(b) \subseteq InUse(c) BY <1>1 DEF InUse
<1>4. c[i] \in InUse(c) BY <1>1 DEF InUse
<1> QED BY <1>2, <1>3, <1>4

\* Freeing takes exactly that block out of use.
LEMMA FreeUses ==
  ASSUME NEW H \in Nat, NEW L \in Nat, NEW b, NEW c,
         NEW i, Tiled(b, H, L), IsMark(c, b, i, FALSE)
  PROVE  \A x : x \in InUse(c) <=> x \in InUse(b) /\ x # b[i]
<1>1. /\ i \in 1 .. Len(b) /\ Len(c) = Len(b) /\ ~ c[i].used
      /\ \A k \in 1 .. Len(b) : k # i => c[k] = b[k]
  BY DEF IsMark
<1>2. \A k \in 1 .. Len(b) : b[k] = b[i] => k = i BY <1>1, OneAtEach
<1>3. InUse(c) \subseteq InUse(b) \ {b[i]} BY <1>1, <1>2 DEF InUse
<1>4. InUse(b) \ {b[i]} \subseteq InUse(c) BY <1>1 DEF InUse
<1> QED BY <1>3, <1>4
-----------------------------------------------------------------------------
(* The sizes add up.                                                       *)

\* What a block adds, and running sums f that end with s.
part_of(x, u) == IF x.used = u THEN x.size ELSE 0
Running(f, b, u, s) ==
    /\ f \in [0 .. Len(b) -> Int] /\ f[0] = 0 /\ f[Len(b)] = s
    /\ \A k \in 1 .. Len(b) : f[k] = f[k - 1] + part_of(b[k], u)
AddsUp(b, u, s) == \E f : Running(f, b, u, s)

\* What a block contributes to a total is a number.
LEMMA PartIs == ASSUME NEW x \in Block, NEW u PROVE part_of(x, u) \in Int
BY BlockIs DEF part_of

\* The recursive function is the running sum.
LEMMA TotalIs ==
  ASSUME NEW b \in Seq(Block), NEW u, NEW s, AddsUp(b, u, s)
  PROVE  total_size(b, u) = s
<1> DEFINE n == Len(b)
           Is(h) == h = [i \in 0 .. n |-> IF i = 0 THEN 0 ELSE h[i - 1] + part_of(b[i], u)]
           g == CHOOSE h : Is(h)
<1>1. PICK f : Running(f, b, u, s) BY DEF AddsUp
<1>2. n \in Nat OBVIOUS
<1> HIDE DEF n
<1>3. /\ f \in [0 .. n -> Int] /\ f[0] = 0 /\ f[n] = s
      /\ \A k \in 1 .. n : f[k] = f[k - 1] + part_of(b[k], u)
  BY <1>1 DEF Running, n
<1>4. Is(f)
  <2> DEFINE e == [i \in 0 .. n |-> IF i = 0 THEN 0 ELSE f[i - 1] + part_of(b[i], u)]
  <2>1. \A i \in 0 .. n : i = 0 \/ i \in 1 .. n BY <1>2
  <2>2. \A i \in 0 .. n : f[i] = e[i] BY <1>3, <2>1
  <2>3. f = e BY <1>3, <2>2
  <2> QED BY <2>3
<1>5. Is(g) BY <1>4
<1> HIDE DEF g
<1>6. \A i \in 0 .. n : g[i] = IF i = 0 THEN 0 ELSE g[i - 1] + part_of(b[i], u) BY <1>5
<1>7. \A i \in 0 .. n : g[i] = f[i]
  <2> DEFINE B == {i \in 0 .. n : g[i] # f[i]}
  <2> SUFFICES ASSUME B # {} PROVE FALSE OBVIOUS
  <2>0. B \in SUBSET Nat BY <1>2
  <2>1. PICK i \in B : \A j \in B : i <= j BY <2>0, LeastNumber
  <2>2. i \in 0 .. n /\ g[i] # f[i] BY <2>1
  <2>3. g[i] = IF i = 0 THEN 0 ELSE g[i - 1] + part_of(b[i], u) BY <1>6, <2>2
  <2>4. i # 0 /\ i - 1 \in 0 .. n /\ i - 1 \notin B BY <1>2, <1>3, <2>1, <2>2, <2>3
  <2>5. g[i - 1] = f[i - 1] BY <2>4
  <2>6. i \in 1 .. n BY <2>2, <2>4
  <2> QED BY <1>3, <2>2, <2>3, <2>4, <2>5, <2>6
<1>8. total_size(b, u) = g[n] BY DEF total_size, part_of, g, n
<1>9. n \in 0 .. n BY <1>2
<1> QED BY <1>3, <1>7, <1>8, <1>9

\* Joining adds a header to what is free and leaves what is used.
LEMMA JoinAdds ==
  ASSUME NEW H \in Nat, NEW b, NEW j, NEW i, IsJoin(j, b, i, H), ~ b[i].used, ~ b[i + 1].used,
         NEW u \in BOOLEAN, NEW s \in Int, AddsUp(b, u, s)
  PROVE  AddsUp(j, u, s + (IF u THEN 0 ELSE H))
<1> DEFINE n == Len(b)
           d == IF u THEN 0 ELSE H
<1>1. /\ n \in Nat /\ i \in 1 .. n - 1 /\ Len(j) = n - 1
      /\ \A k \in 1 .. n - 1 : k < i => j[k] = b[k]
      /\ \A k \in 1 .. n - 1 : k > i => j[k] = b[k + 1]
      /\ j[i].size = b[i].size + H + b[i + 1].size /\ j[i].used = b[i].used
      /\ \A k \in 1 .. n : b[k] \in Block
  BY DEF IsJoin
<1>2. PICK f : Running(f, b, u, s) BY DEF AddsUp
<1>3. /\ f \in [0 .. n -> Int] /\ f[0] = 0 /\ f[n] = s
      /\ \A k \in 1 .. n : f[k] = f[k - 1] + part_of(b[k], u)
  BY <1>2 DEF Running
<1>4. d \in Int OBVIOUS
<1>5. part_of(j[i], u) = part_of(b[i], u) + part_of(b[i + 1], u) + d
  <2>1. i \in 1 .. n /\ i + 1 \in 1 .. n BY <1>1
  <2>2. b[i].size \in Nat /\ b[i + 1].size \in Nat BY <1>1, <2>1, BlockIs
  <2>3. b[i].used \in BOOLEAN /\ b[i + 1].used \in BOOLEAN BY <1>1, <2>1, BlockIs
  <2>4. CASE u = TRUE
    <3>1. part_of(b[i], u) = 0 /\ part_of(b[i + 1], u) = 0 /\ part_of(j[i], u) = 0 /\ d = 0
      BY <1>1, <2>3, <2>4 DEF part_of
    <3> QED BY <3>1
  <2>5. CASE u = FALSE
    <3>1. part_of(b[i], u) = b[i].size /\ part_of(b[i + 1], u) = b[i + 1].size /\ d = H
          /\ part_of(j[i], u) = b[i].size + H + b[i + 1].size
      BY <1>1, <2>3, <2>5 DEF part_of
    <3> HIDE DEF d
    <3> QED BY <2>2, <3>1
  <2> QED BY <2>4, <2>5
<1> HIDE DEF n, d
<1> DEFINE g == [k \in 0 .. n - 1 |-> IF k < i THEN f[k] ELSE f[k + 1] + d]
<1>6. g \in [0 .. n - 1 -> Int] /\ g[0] = 0 /\ g[n - 1] = s + d
  <2>1. \A k \in 0 .. n - 1 : f[k] \in Int /\ f[k + 1] \in Int
    <3>1. \A l \in 0 .. n : f[l] \in Int BY <1>3
    <3>2. \A k \in 0 .. n - 1 : k \in 0 .. n /\ k + 1 \in 0 .. n BY <1>1
    <3> QED BY <3>1, <3>2
  <2>2. g \in [0 .. n - 1 -> Int] BY <1>4, <2>1
  <2>3. 0 \in 0 .. n - 1 /\ n - 1 \in 0 .. n - 1 /\ (n - 1) + 1 = n /\ ~ (n - 1 < i) /\ 0 < i
    BY <1>1
  <2> QED BY <1>3, <2>2, <2>3
<1>7. ASSUME NEW k \in 1 .. n - 1 PROVE g[k] = g[k - 1] + part_of(j[k], u)
  <2>1. k \in 0 .. n - 1 /\ k - 1 \in 0 .. n - 1 /\ k \in 1 .. n /\ k + 1 \in 1 .. n /\ (k + 1) - 1 = k
    BY <1>1
  <2>2. CASE k < i
    <3>1. g[k] = f[k] /\ g[k - 1] = f[k - 1] BY <1>1, <2>1, <2>2
    <3> QED BY <1>1, <1>3, <2>1, <2>2, <3>1
  <2>3. CASE k = i
    <3>1. g[k] = f[i + 1] + d /\ g[k - 1] = f[i - 1] BY <1>1, <2>1, <2>3
    <3>2. f[i] = f[i - 1] + part_of(b[i], u) BY <1>3, <2>1, <2>3
    <3> DEFINE l == i + 1
    <3>3. l \in 1 .. n /\ l - 1 = i BY <1>1
    <3>4. f[l] = f[l - 1] + part_of(b[l], u) BY <1>3, <3>3
    <3>5. f[i + 1] = f[i] + part_of(b[i + 1], u) BY <3>3, <3>4
    <3> DEFINE A == part_of(b[i], u)
               C == part_of(b[i + 1], u)
               F == f[i - 1]
    <3>6. A \in Int /\ C \in Int /\ F \in Int
      <4>1. b[i] \in Block /\ b[i + 1] \in Block BY <1>1, <3>3
      <4>2. i - 1 \in 0 .. n BY <1>1
      <4>3. F \in Int BY <1>3, <4>2
      <4> QED BY <4>1, <4>3, PartIs
    <3>7. part_of(j[k], u) = A + C + d BY <1>5, <2>3
    <3>8. g[k] = (F + A) + C + d BY <3>1, <3>2, <3>5
    <3>9. g[k - 1] = F BY <3>1
    <3> HIDE DEF A, C, F, g
    <3> QED BY <1>4, <3>6, <3>7, <3>8, <3>9
  <2>4. CASE k > i
    <3> DEFINE l == k + 1
    <3>1. g[k] = f[l] + d /\ g[k - 1] = f[k] + d BY <1>1, <2>1, <2>4
    <3>2. f[l] = f[l - 1] + part_of(b[l], u) /\ l - 1 = k /\ j[k] = b[l] /\ b[l] \in Block
      BY <1>1, <1>3, <2>1, <2>4
    <3>3. part_of(b[l], u) \in Int /\ f[k] \in Int BY <1>3, <2>1, <3>2, PartIs
    <3> HIDE DEF l, g
    <3> QED BY <1>4, <3>1, <3>2, <3>3
  <2> QED BY <1>1, <2>2, <2>3, <2>4
<1> HIDE DEF g
<1>8. Running(g, j, u, s + d) BY <1>1, <1>6, <1>7 DEF Running
<1> QED BY <1>8 DEF AddsUp, d

\* Splitting moves the size asked for from free to used and spends a header.
LEMMA SplitAdds ==
  ASSUME NEW H \in Nat, NEW size \in Nat, NEW b, NEW t,
         NEW i, IsSplit(t, b, i, size, H), ~ b[i].used,
         NEW u \in BOOLEAN, NEW s \in Int, AddsUp(b, u, s)
  PROVE  AddsUp(t, u, IF u THEN s + size ELSE s - size - H)
<1> DEFINE n == Len(b)
           d == IF u THEN size ELSE -size - H
           e == IF u THEN s + size ELSE s - size - H
<1>1. /\ n \in Nat /\ i \in 1 .. n /\ Len(t) = n + 1
      /\ \A k \in 1 .. n + 1 : k < i => t[k] = b[k]
      /\ \A k \in 1 .. n + 1 : k > i + 1 => t[k] = b[k - 1]
      /\ t[i].size = size /\ t[i].used /\ t[i + 1].size = b[i].size - size - H /\ ~ t[i + 1].used
      /\ \A k \in 1 .. n : b[k] \in Block
      /\ t[i].used \in BOOLEAN /\ t[i + 1].used \in BOOLEAN
  BY DEF IsSplit, cut_to, rest_of
<1>2. PICK f : Running(f, b, u, s) BY DEF AddsUp
<1>3. /\ f \in [0 .. n -> Int] /\ f[0] = 0 /\ f[n] = s
      /\ \A k \in 1 .. n : f[k] = f[k - 1] + part_of(b[k], u)
  BY <1>2 DEF Running
<1> DEFINE P == part_of(t[i], u)
           Q == part_of(t[i + 1], u)
           R == part_of(b[i], u)
<1>4. P \in Int /\ Q \in Int /\ R \in Int /\ P + Q = R + d /\ e = s + d /\ d \in Int
  <2>1. b[i].size \in Nat /\ b[i].used \in BOOLEAN BY <1>1, BlockIs
  <2>2. CASE u = TRUE
    <3>1. P = size /\ Q = 0 /\ R = 0 /\ d = size /\ e = s + size BY <1>1, <2>1, <2>2 DEF part_of
    <3> HIDE DEF P, Q, R, d, e
    <3> QED BY <3>1
  <2>3. CASE u = FALSE
    <3>1. P = 0 /\ Q = b[i].size - size - H /\ R = b[i].size /\ d = -size - H /\ e = s - size - H
      BY <1>1, <2>1, <2>3 DEF part_of
    <3> HIDE DEF P, Q, R, d, e
    <3> QED BY <2>1, <3>1
  <2> QED BY <2>2, <2>3
<1> HIDE DEF n, d, e, P, Q, R
<1> DEFINE g == [k \in 0 .. n + 1 |-> IF k < i THEN f[k] ELSE IF k = i THEN f[i - 1] + P ELSE f[k - 1] + d]
<1>6. g \in [0 .. n + 1 -> Int] /\ g[0] = 0 /\ g[n + 1] = e
  <2>1. \A k \in 0 .. n + 1 : (k < i => f[k] \in Int) /\ (k > i => f[k - 1] \in Int)
    <3>1. \A l \in 0 .. n : f[l] \in Int BY <1>3
    <3>2. \A k \in 0 .. n + 1 : (k < i => k \in 0 .. n) /\ (k > i => k - 1 \in 0 .. n) BY <1>1
    <3> QED BY <3>1, <3>2
  <2>2. f[i - 1] \in Int /\ f[i - 1] + P \in Int
    <3>1. i - 1 \in 0 .. n BY <1>1
    <3>2. f[i - 1] \in Int BY <1>3, <3>1
    <3> QED BY <1>4, <3>2
  <2>3. g \in [0 .. n + 1 -> Int]
    <3>1. \A k \in 0 .. n + 1 : k < i \/ k = i \/ k > i BY <1>1
    <3>2. \A k \in 0 .. n + 1 : (IF k < i THEN f[k] ELSE IF k = i THEN f[i - 1] + P ELSE f[k - 1] + d) \in Int
      BY <1>4, <2>1, <2>2, <3>1
    <3> QED BY <3>2
  <2>4. 0 \in 0 .. n + 1 /\ n + 1 \in 0 .. n + 1 /\ (n + 1) - 1 = n /\ n + 1 # i /\ ~ (n + 1 < i) /\ 0 < i
    BY <1>1
  <2>5. g[0] = f[0] /\ g[n + 1] = f[n] + d BY <2>4
  <2> QED BY <1>3, <1>4, <2>3, <2>5
<1>7. ASSUME NEW k \in 1 .. n + 1 PROVE g[k] = g[k - 1] + part_of(t[k], u)
  <2>1. k \in 0 .. n + 1 /\ k - 1 \in 0 .. n + 1 BY <1>1
  <2>2. CASE k < i
    <3>1. g[k] = f[k] /\ g[k - 1] = f[k - 1] /\ k \in 1 .. n BY <1>1, <2>1, <2>2
    <3> QED BY <1>1, <1>3, <2>1, <2>2, <3>1
  <2>3. CASE k = i
    <3>1. g[k] = f[i - 1] + P /\ g[k - 1] = f[i - 1] BY <1>1, <2>1, <2>3
    <3> HIDE DEF g
    <3> QED BY <2>3, <3>1 DEF P
  <2>4. CASE k = i + 1
    <3>1. g[k] = f[i] + d /\ g[k - 1] = f[i - 1] + P BY <1>1, <2>1, <2>4
    <3>2. f[i] = f[i - 1] + R /\ f[i - 1] \in Int BY <1>1, <1>3 DEF R
    <3>3. part_of(t[k], u) = Q BY <2>4 DEF Q
    <3> HIDE DEF g
    <3>4. (f[i - 1] + R) + d = (f[i - 1] + P) + Q BY <1>4, <3>2
    <3> QED BY <3>1, <3>2, <3>3, <3>4
  <2>5. CASE k > i + 1
    <3> DEFINE l == k - 1
    <3>1. g[k] = f[l] + d /\ g[k - 1] = f[l - 1] + d /\ l \in 1 .. n /\ t[k] = b[l]
      BY <1>1, <2>1, <2>5
    <3>2. f[l] = f[l - 1] + part_of(b[l], u) /\ b[l] \in Block /\ f[l - 1] \in Int
      BY <1>1, <1>3, <3>1
    <3>3. part_of(b[l], u) \in Int BY <3>2, PartIs
    <3> HIDE DEF l, g
    <3> QED BY <1>4, <3>1, <3>2, <3>3
  <2> QED BY <1>1, <2>2, <2>3, <2>4, <2>5
<1> HIDE DEF g
<1>8. Running(g, t, u, e) BY <1>1, <1>6, <1>7 DEF Running
<1> QED BY <1>8 DEF AddsUp, e

\* Marking moves the size of the block from one total to the other.
LEMMA MarkAdds ==
  ASSUME NEW b, NEW c, NEW i, NEW v \in BOOLEAN, IsMark(c, b, i, v), b[i].used = ~v,
         NEW u \in BOOLEAN, NEW s \in Int, AddsUp(b, u, s)
  PROVE  AddsUp(c, u, IF u = v THEN s + b[i].size ELSE s - b[i].size)
<1> DEFINE n == Len(b)
           z == b[i].size
           d == IF u = v THEN z ELSE -z
           e == IF u = v THEN s + z ELSE s - z
<1>1. /\ n \in Nat /\ i \in 1 .. n /\ Len(c) = n
      /\ \A k \in 1 .. n : k # i => c[k] = b[k]
      /\ c[i].size = z /\ c[i].used = v
      /\ \A k \in 1 .. n : b[k] \in Block
  BY DEF IsMark
<1>2. PICK f : Running(f, b, u, s) BY DEF AddsUp
<1>3. /\ f \in [0 .. n -> Int] /\ f[0] = 0 /\ f[n] = s
      /\ \A k \in 1 .. n : f[k] = f[k - 1] + part_of(b[k], u)
  BY <1>2 DEF Running
<1>4. z \in Nat BY <1>1, BlockIs
<1>5. part_of(c[i], u) = part_of(b[i], u) + d /\ d \in Int /\ e = s + d
  <2>1. CASE u = v
    <3>1. part_of(c[i], u) = z /\ part_of(b[i], u) = 0 /\ d = z /\ e = s + z
      BY <1>1, <2>1 DEF part_of
    <3> HIDE DEF z, d, e
    <3> QED BY <1>4, <3>1
  <2>2. CASE u # v
    <3>1. part_of(c[i], u) = 0 /\ part_of(b[i], u) = z /\ d = -z /\ e = s - z
      BY <1>1, <2>2 DEF part_of
    <3> HIDE DEF z, d, e
    <3> QED BY <1>4, <3>1
  <2> QED BY <2>1, <2>2
<1> HIDE DEF n, z, d, e
<1> DEFINE g == [k \in 0 .. n |-> IF k < i THEN f[k] ELSE f[k] + d]
<1>6. g \in [0 .. n -> Int] /\ g[0] = 0 /\ g[n] = e BY <1>1, <1>3, <1>5
<1>7. ASSUME NEW k \in 1 .. n PROVE g[k] = g[k - 1] + part_of(c[k], u)
  <2>1. k \in 0 .. n /\ k - 1 \in 0 .. n /\ f[k] = f[k - 1] + part_of(b[k], u) BY <1>1, <1>3
  <2>2. f[k - 1] \in Int /\ part_of(b[k], u) \in Int BY <1>1, <1>3, <2>1, PartIs
  <2>3. CASE k < i
    <3>1. g[k] = f[k] /\ g[k - 1] = f[k - 1] /\ c[k] = b[k] BY <1>1, <2>1, <2>3
    <3> QED BY <2>1, <3>1
  <2>4. CASE k = i
    <3>1. g[k] = f[k] + d /\ g[k - 1] = f[k - 1] BY <1>1, <2>1, <2>4
    <3> HIDE DEF g
    <3> QED BY <1>5, <2>1, <2>2, <2>4, <3>1
  <2>5. CASE k > i
    <3>1. g[k] = f[k] + d /\ g[k - 1] = f[k - 1] + d /\ c[k] = b[k] BY <1>1, <2>1, <2>5
    <3> HIDE DEF g
    <3> QED BY <1>5, <2>1, <2>2, <3>1
  <2> QED BY <1>1, <2>3, <2>4, <2>5
<1> HIDE DEF g
<1>8. Running(g, c, u, e) BY <1>1, <1>6, <1>7 DEF Running
<1> QED BY <1>8 DEF AddsUp, e, z
-----------------------------------------------------------------------------
(* Who holds what.                                                         *)

\* Ranges in use and blocks in use belong together, one to one, and a range
\* lies in its block, behind the header.
HasBlock(r, b, H) == \E x \in InUse(b) : x.base + H = r.at /\ x.size >= r.len
Served(out, b, H, L) ==
    /\ Tiled(b, H, L)
    /\ out \subseteq [at : Nat, len : Nat \ {0}]
    /\ \A r \in out : HasBlock(r, b, H)
    /\ \A x \in InUse(b) : \E r \in out : x.base + H = r.at
    /\ \A r, q \in out : r.at = q.at => r = q

Ranges(a, n) == [at |-> a, len |-> n]
Clear(r, q) == r.at + r.len <= q.at \/ q.at + q.len <= r.at
Within(r, L) == r.at >= 0 /\ r.len > 0 /\ r.at + r.len <= L

\* The blocks in use are the ranges that were handed out.
LEMMA UsesAre ==
  ASSUME NEW b \in Seq(Block), NEW x \in InUse(b)
  PROVE  /\ x \in Block /\ x.base \in Nat /\ x.size \in Nat
         /\ \E i \in 1 .. Len(b) : b[i].used /\ x = b[i]
<1>1. \E i \in 1 .. Len(b) : b[i].used /\ x = b[i] BY DEF InUse
<1>2. x \in Block BY <1>1
<1> QED BY <1>1, <1>2, BlockIs

\* Two ranges never overlap, and all lie inside the memory.
LEMMA ServedApart ==
  ASSUME NEW H \in Nat, NEW L \in Nat, NEW out, NEW b, Served(out, b, H, L)
  PROVE  /\ \A r \in out : Within(r, L)
         /\ \A r, q \in out : r # q => Clear(r, q)
<1>1. Tiled(b, H, L) /\ b \in Seq(Block) BY DEF Served, Tiled
<1>2. ASSUME NEW r \in out
      PROVE  /\ r.at \in Nat /\ r.len \in Nat /\ r.len > 0
             /\ \E i \in 1 .. Len(b) : b[i].base \in Nat /\ b[i].size \in Nat /\ b[i].base + H = r.at /\ b[i].size >= r.len
  <2>1. r \in [at : Nat, len : Nat \ {0}] BY DEF Served
  <2>2. PICK x \in InUse(b) : x.base + H = r.at /\ x.size >= r.len BY DEF Served, HasBlock
  <2>3. x.base \in Nat /\ x.size \in Nat /\ \E i \in 1 .. Len(b) : b[i].used /\ x = b[i]
    BY <1>1, UsesAre
  <2> QED BY <2>1, <2>2, <2>3
<1>3. ASSUME NEW r \in out PROVE Within(r, L)
  <2>1. PICK i \in 1 .. Len(b) : b[i].base \in Nat /\ b[i].size \in Nat /\ b[i].base + H = r.at /\ b[i].size >= r.len
    BY <1>2
  <2>2. b[i].base + H + b[i].size <= L BY <1>1, InOrder
  <2> QED BY <1>2, <2>1, <2>2 DEF Within
<1>4. ASSUME NEW r \in out, NEW q \in out, r # q PROVE Clear(r, q)
  <2>1. PICK i \in 1 .. Len(b) : b[i].base \in Nat /\ b[i].size \in Nat /\ b[i].base + H = r.at /\ b[i].size >= r.len
    BY <1>2
  <2>2. PICK k \in 1 .. Len(b) : b[k].base \in Nat /\ b[k].size \in Nat /\ b[k].base + H = q.at /\ b[k].size >= q.len
    BY <1>2
  <2>3. i # k BY <1>4, <2>1, <2>2 DEF Served
  <2>4. r.len \in Nat /\ q.len \in Nat BY <1>2
  <2> DEFINE a == b[i].base
             c == b[i].size
             d == b[k].base
             e == b[k].size
  <2>0. /\ a \in Nat /\ c \in Nat /\ d \in Nat /\ e \in Nat
        /\ a + H = r.at /\ c >= r.len /\ d + H = q.at /\ e >= q.len
    BY <2>1, <2>2
  <2>5. CASE i < k
    <3>1. a + H + c <= d BY <1>1, <2>5, InOrder
    <3> HIDE DEF a, c, d, e
    <3>2. r.at + r.len <= q.at BY <2>0, <2>4, <3>1
    <3> QED BY <3>2 DEF Clear
  <2>6. CASE k < i
    <3>1. d + H + e <= a BY <1>1, <2>6, InOrder
    <3> HIDE DEF a, c, d, e
    <3>2. q.at + q.len <= r.at BY <2>0, <2>4, <3>1
    <3> QED BY <3>2 DEF Clear
  <2> QED BY <2>3, <2>5, <2>6
<1> QED BY <1>3, <1>4

\* The block of a range is found by its address.
LEMMA Finds ==
  ASSUME NEW H \in Nat, NEW L \in Nat, NEW out, NEW b, Served(out, b, H, L), NEW r \in out
  PROVE  LET i == block_at(b, r.at - H) IN
         /\ i \in 1 .. Len(b) /\ b[i].used /\ b[i].base + H = r.at /\ b[i].size >= r.len
         /\ b[i].base = r.at - H
<1>1. Tiled(b, H, L) /\ b \in Seq(Block) BY DEF Served, Tiled
<1>2. PICK x \in InUse(b) : x.base + H = r.at /\ x.size >= r.len BY DEF Served, HasBlock
<1>3. x.base \in Nat /\ x.size \in Nat /\ \E i \in 1 .. Len(b) : b[i].used /\ x = b[i]
  BY <1>1, UsesAre
<1>4. PICK k \in 1 .. Len(b) : b[k].used /\ x = b[k] BY <1>3
<1>5. b[k].base = r.at - H BY <1>2, <1>3, <1>4
<1>6. block_at(b, b[k].base) = k BY <1>1, BlockAt
<1> QED BY <1>2, <1>4, <1>5, <1>6

\* A free block is handed out.
LEMMA Takes ==
  ASSUME NEW H \in Nat, NEW L \in Nat, NEW out, NEW b, NEW t, NEW i \in 1 .. Len(b),
         NEW n \in Nat \ {0},
         Served(out, b, H, L), ~ b[i].used, Tiled(t, H, L), InUse(t) = InUse(b) \cup {t[i]},
         t[i].base = b[i].base, t[i].size >= n
  PROVE  LET r == Ranges(b[i].base + H, n) IN
         /\ Served(out \cup {r}, t, H, L)
         /\ Within(r, L) /\ \A q \in out : q # r /\ Clear(r, q)
<1> DEFINE r == Ranges(b[i].base + H, n)
           O == out \cup {r}
<1>1. Tiled(b, H, L) /\ b \in Seq(Block) BY DEF Served, Tiled
<1>2. b[i].base \in Nat BY <1>1, BlockIs
<1>3. r.at = b[i].base + H /\ r.len = n /\ r \in [at : Nat, len : Nat \ {0}] BY <1>2 DEF Ranges
<1> HIDE DEF r
<1>4. \A q \in out : q.at # r.at
  <2> SUFFICES ASSUME NEW q \in out, q.at = r.at PROVE FALSE OBVIOUS
  <2>1. PICK x \in InUse(b) : x.base + H = q.at BY DEF Served, HasBlock
  <2>2. PICK k \in 1 .. Len(b) : b[k].used /\ x = b[k] BY <1>1, UsesAre
  <2>3. b[k].base \in Nat BY <1>1, BlockIs
  <2>4. b[k].base = b[i].base BY <1>2, <1>3, <2>1, <2>2, <2>3
  <2>5. k = i BY <1>1, <2>4, OneAtEach
  <2> QED BY <2>2, <2>5
<1>5. Served(O, t, H, L)
  <2>1. O \subseteq [at : Nat, len : Nat \ {0}] BY <1>3 DEF Served
  <2>2. \A q \in O : HasBlock(q, t, H)
    <3>1. \A q \in out : HasBlock(q, t, H) BY DEF Served, HasBlock
    <3>2. HasBlock(r, t, H) BY <1>3 DEF HasBlock
    <3> QED BY <3>1, <3>2
  <2>3. \A x \in InUse(t) : \E q \in O : x.base + H = q.at
    <3>1. \A x \in InUse(b) : \E q \in O : x.base + H = q.at BY DEF Served
    <3>2. t[i].base + H = r.at BY <1>3
    <3> QED BY <3>1, <3>2
  <2>4. \A p, q \in O : p.at = q.at => p = q BY <1>4 DEF Served
  <2> QED BY <2>1, <2>2, <2>3, <2>4 DEF Served
<1>6. Within(r, L) /\ \A p, q \in O : p # q => Clear(p, q) BY <1>5, ServedApart
<1>7. \A q \in out : q # r BY <1>4
<1> QED BY <1>5, <1>6, <1>7 DEF r

\* A block is given back.
LEMMA Gives ==
  ASSUME NEW H \in Nat, NEW L \in Nat, NEW out, NEW b, NEW c, NEW i \in 1 .. Len(b),
         NEW r \in out,
         Served(out, b, H, L), b[i].used, b[i].base + H = r.at, IsMark(c, b, i, FALSE)
  PROVE  Served(out \ {r}, c, H, L)
<1>1. Tiled(b, H, L) /\ b \in Seq(Block) BY DEF Served, Tiled
<1>2. Tiled(c, H, L) BY <1>1, MarkTiles
<1>3. \A x : x \in InUse(c) <=> x \in InUse(b) /\ x # b[i] BY <1>1, FreeUses
<1>4. ASSUME NEW q \in out \ {r} PROVE HasBlock(q, c, H)
  <2>1. PICK x \in InUse(b) : x.base + H = q.at /\ x.size >= q.len BY DEF Served, HasBlock
  <2>2. x # b[i] BY <2>1 DEF Served
  <2> QED BY <1>3, <2>1, <2>2 DEF HasBlock
<1>5. ASSUME NEW x \in InUse(c) PROVE \E q \in out \ {r} : x.base + H = q.at
  <2>1. x \in InUse(b) /\ x # b[i] BY <1>3
  <2>2. PICK q \in out : x.base + H = q.at BY <2>1 DEF Served
  <2>3. q # r
    <3> SUFFICES ASSUME q = r PROVE FALSE OBVIOUS
    <3>1. PICK k \in 1 .. Len(b) : b[k].used /\ x = b[k] BY <1>1, <2>1, UsesAre
    <3>2. b[k].base \in Nat /\ b[i].base \in Nat BY <1>1, BlockIs
    <3>3. b[k].base = b[i].base BY <2>2, <3>1, <3>2
    <3>4. k = i BY <1>1, <3>3, OneAtEach
    <3> QED BY <2>1, <3>1, <3>4
  <2> QED BY <2>2, <2>3
<1> QED BY <1>2, <1>4, <1>5 DEF Served

\* Joining two free blocks is nobody's loss.
LEMMA Joins ==
  ASSUME NEW H \in Nat, NEW L \in Nat, NEW out, NEW b, NEW j, NEW i,
         Served(out, b, H, L), IsJoin(j, b, i, H), ~ b[i].used, ~ b[i + 1].used
  PROVE  Served(out, j, H, L)
<1>1. Tiled(j, H, L) BY JoinTiles DEF Served
<1>2. InUse(j) = InUse(b) BY JoinUses
<1> QED BY <1>1, <1>2 DEF Served, HasBlock

\* A range grows or shrinks inside its block.
LEMMA Resizes ==
  ASSUME NEW H \in Nat, NEW L \in Nat, NEW out, NEW b, NEW i \in 1 .. Len(b), NEW r \in out,
         Served(out, b, H, L), b[i].used, b[i].base + H = r.at, NEW n \in Nat \ {0}, b[i].size >= n,
         NEW q, q = Ranges(r.at, n)
  PROVE  /\ Served((out \ {r}) \cup {q}, b, H, L)
         /\ Within(q, L) /\ \A o \in out : o # r => Clear(q, o)
<1> DEFINE O == (out \ {r}) \cup {q}
<1>1. Tiled(b, H, L) /\ b \in Seq(Block) BY DEF Served, Tiled
<1>2. q.at = r.at /\ q.len = n /\ q \in [at : Nat, len : Nat \ {0}] BY DEF Ranges, Served
<1>3. b[i] \in InUse(b) BY DEF InUse
<1>4. O \subseteq [at : Nat, len : Nat \ {0}] BY <1>2 DEF Served
<1>5. \A p \in O : HasBlock(p, b, H)
  <2>1. \A p \in out : HasBlock(p, b, H) BY DEF Served
  <2>2. HasBlock(q, b, H) BY <1>2, <1>3 DEF HasBlock
  <2> QED BY <2>1, <2>2
<1>6. \A x \in InUse(b) : \E p \in O : x.base + H = p.at BY <1>2 DEF Served
<1>7. \A p, o \in O : p.at = o.at => p = o BY <1>2 DEF Served
<1>8. Served(O, b, H, L) BY <1>1, <1>4, <1>5, <1>6, <1>7 DEF Served
<1>9. Within(q, L) /\ \A p, o \in O : p # o => Clear(p, o) BY <1>8, ServedApart
<1>10. \A o \in out : o # r => o # q BY <1>2 DEF Served
<1> QED BY <1>8, <1>9, <1>10
-----------------------------------------------------------------------------
(* Free neighbours are one block.                                          *)

\* Only at the places S may two free blocks lie side by side.
AllBut(b, S) == \A k \in 1 .. Len(b) - 1 : k \in S \/ b[k].used \/ b[k + 1].used

\* Splitting leaves no two free blocks side by side.
LEMMA SplitCoalesces ==
  ASSUME NEW H \in Nat, NEW size \in Nat, NEW b, NEW t,
         NEW i, IsSplit(t, b, i, size, H), ~ b[i].used,
         Coalesced(b)
  PROVE  Coalesced(t)
<1> DEFINE n == Len(b)
<1>1. /\ n \in Nat /\ i \in 1 .. n /\ Len(t) = n + 1
      /\ \A k \in 1 .. n + 1 : k < i => t[k] = b[k]
      /\ \A k \in 1 .. n + 1 : k > i + 1 => t[k] = b[k - 1]
      /\ t[i].used
      /\ \A k \in 1 .. n - 1 : b[k].used \/ b[k + 1].used
  BY DEF IsSplit, cut_to, Coalesced
<1> HIDE DEF n
<1>2. ASSUME NEW k \in 1 .. n PROVE t[k].used \/ t[k + 1].used
  <2>1. k \in 1 .. n + 1 /\ k + 1 \in 1 .. n + 1 /\ k \in Nat BY <1>1
  <2>2. CASE k + 1 < i
    <3>1. t[k] = b[k] /\ t[k + 1] = b[k + 1] /\ k \in 1 .. n - 1 BY <1>1, <2>1, <2>2
    <3> QED BY <1>1, <3>1
  <2>3. CASE k + 1 = i \/ k = i BY <1>1, <2>3
  <2>4. CASE k = i + 1
    <3> DEFINE l == k + 1
    <3>1. l \in 1 .. n + 1 /\ l > i + 1 /\ l - 1 = i + 1 BY <1>1, <2>1, <2>4
    <3>2. t[l] = b[l - 1] BY <1>1, <3>1
    <3>3. i \in 1 .. n - 1 BY <1>1, <2>4
    <3>4. b[i + 1].used BY <1>1, <3>3
    <3> QED BY <3>1, <3>2, <3>4
  <2>5. CASE k > i + 1
    <3> DEFINE l == k - 1
    <3>1. l \in 1 .. n - 1 /\ l + 1 = k /\ (k + 1) - 1 = k /\ k + 1 > i + 1 BY <1>1, <2>1, <2>5
    <3>2. t[k] = b[l] /\ t[k + 1] = b[l + 1]
      <4>1. t[k] = b[l] BY <1>1, <2>1, <2>5
      <4> DEFINE q == k + 1
      <4>2. t[q] = b[q - 1] BY <1>1, <2>1, <3>1
      <4> QED BY <3>1, <4>1, <4>2
    <3> HIDE DEF l
    <3> QED BY <1>1, <3>1, <3>2
  <2> QED BY <1>1, <2>1, <2>2, <2>3, <2>4, <2>5
<1>3. Len(t) - 1 = n BY <1>1
<1> QED BY <1>2, <1>3 DEF Coalesced

\* Nor does taking a block whole.
LEMMA WholeCoalesces ==
  ASSUME NEW b, NEW c, NEW i, IsMark(c, b, i, TRUE), Coalesced(b)
  PROVE  Coalesced(c)
<1>1. /\ Len(b) \in Nat /\ i \in 1 .. Len(b) /\ Len(c) = Len(b) /\ c[i].used
      /\ \A k \in 1 .. Len(b) : k # i => c[k] = b[k]
      /\ \A k \in 1 .. Len(b) - 1 : b[k].used \/ b[k + 1].used
  BY DEF IsMark, Coalesced
<1>2. \A k \in 1 .. Len(b) - 1 : k \in 1 .. Len(b) /\ k + 1 \in 1 .. Len(b) BY <1>1
<1>3. \A k \in 1 .. Len(b) - 1 : c[k].used \/ c[k + 1].used BY <1>1, <1>2
<1> QED BY <1>1, <1>3 DEF Coalesced

\* After freeing a block the only free neighbours are its own.
LEMMA FreedAllBut ==
  ASSUME NEW b, NEW c, NEW i, IsMark(c, b, i, FALSE), Coalesced(b)
  PROVE  AllBut(c, {i - 1, i})
<1>1. /\ Len(b) \in Nat /\ i \in 1 .. Len(b) /\ Len(c) = Len(b)
      /\ \A k \in 1 .. Len(b) : k # i => c[k] = b[k]
      /\ \A k \in 1 .. Len(b) - 1 : b[k].used \/ b[k + 1].used
  BY DEF IsMark, Coalesced
<1>2. \A k \in 1 .. Len(b) - 1 : k \in 1 .. Len(b) /\ k + 1 \in 1 .. Len(b) BY <1>1
<1>3. ASSUME NEW k \in 1 .. Len(b) - 1, k \notin {i - 1, i} PROVE c[k].used \/ c[k + 1].used
  <2>1. k # i /\ k + 1 # i BY <1>1, <1>3
  <2>2. c[k] = b[k] /\ c[k + 1] = b[k + 1] BY <1>1, <1>2, <2>1
  <2> QED BY <1>1, <2>2
<1> QED BY <1>1, <1>3 DEF AllBut

\* The block at i has been freed: it is joined to a free one behind it, ...
LEMMA JoinBehind ==
  ASSUME NEW H \in Nat, NEW c, NEW j, NEW i, IsJoin(j, c, i, H), ~ c[i].used, ~ c[i + 1].used,
         AllBut(c, {i - 1, i})
  PROVE  AllBut(j, {i - 1}) /\ ~ j[i].used
<1> DEFINE n == Len(c)
<1>1. /\ n \in Nat /\ i \in 1 .. n - 1 /\ Len(j) = n - 1
      /\ \A k \in 1 .. n - 1 : k < i => j[k] = c[k]
      /\ \A k \in 1 .. n - 1 : k > i => j[k] = c[k + 1]
      /\ ~ j[i].used
      /\ \A k \in 1 .. n - 1 : k \in {i - 1, i} \/ c[k].used \/ c[k + 1].used
  BY DEF IsJoin, AllBut
<1> HIDE DEF n
<1>2. ASSUME NEW k \in 1 .. n - 2, k # i - 1 PROVE j[k].used \/ j[k + 1].used
  <2>1. k \in 1 .. n - 1 /\ k + 1 \in 1 .. n - 1 BY <1>1
  <2>2. CASE k < i
    <3>1. k + 1 < i /\ j[k] = c[k] /\ j[k + 1] = c[k + 1] /\ k \notin {i - 1, i}
      BY <1>1, <1>2, <2>1, <2>2
    <3> QED BY <1>1, <2>1, <3>1
  <2>3. CASE k >= i
    <3> DEFINE l == k + 1
    <3>1. l \in 1 .. n - 1 /\ l > i /\ l \notin {i - 1, i} BY <1>1, <2>1, <2>3
    <3>2. j[l] = c[l + 1] BY <1>1, <3>1
    <3>3. c[l].used \/ c[l + 1].used BY <1>1, <3>1
    <3>4. CASE k = i BY <3>2, <3>3, <3>4
    <3>5. CASE k > i
      <4>1. j[k] = c[l] BY <1>1, <2>1, <3>5
      <4> QED BY <3>2, <3>3, <4>1
    <3> QED BY <1>1, <2>3, <3>4, <3>5
  <2> QED BY <1>1, <2>2, <2>3
<1>3. Len(j) - 1 = n - 2 BY <1>1
<1> QED BY <1>1, <1>2, <1>3 DEF AllBut

\* Merged with its successor, no free block lies behind it.
LEMMA NoneBehind ==
  ASSUME NEW c \in Seq(Block),
         NEW i \in 1 .. Len(c), AllBut(c, {i - 1, i}), i < Len(c) => c[i + 1].used
  PROVE  AllBut(c, {i - 1})
BY DEF AllBut

\* ... and to a free one in front of it.
LEMMA JoinFront ==
  ASSUME NEW H \in Nat, NEW c, NEW j, NEW i \in Nat, NEW h, h = i - 1, IsJoin(j, c, h, H),
         ~ c[h].used, ~ c[i].used, AllBut(c, {h})
  PROVE  Coalesced(j)
<1> DEFINE n == Len(c)
<1>1. /\ n \in Nat /\ h \in 1 .. n - 1 /\ Len(j) = n - 1 /\ h + 1 = i
      /\ \A k \in 1 .. n - 1 : k < h => j[k] = c[k]
      /\ \A k \in 1 .. n - 1 : k > h => j[k] = c[k + 1]
      /\ ~ j[h].used
      /\ \A k \in 1 .. n - 1 : k = h \/ c[k].used \/ c[k + 1].used
  BY DEF IsJoin, AllBut
<1> HIDE DEF n
<1>2. ASSUME NEW k \in 1 .. n - 2 PROVE j[k].used \/ j[k + 1].used
  <2>1. k \in 1 .. n - 1 /\ k + 1 \in 1 .. n - 1 BY <1>1
  <2>2. CASE k + 1 < h
    <3>1. j[k] = c[k] /\ j[k + 1] = c[k + 1] /\ k # h BY <1>1, <2>1, <2>2
    <3> QED BY <1>1, <2>1, <3>1
  <2>3. CASE k + 1 = h
    <3>1. j[k] = c[k] /\ k # h BY <1>1, <2>1, <2>3
    <3>2. c[k].used \/ c[k + 1].used BY <1>1, <2>1, <3>1
    <3> QED BY <2>3, <3>1, <3>2
  <2>4. CASE k >= h
    <3> DEFINE l == k + 1
    <3>1. l \in 1 .. n - 1 /\ l > h /\ l # h BY <1>1, <2>1, <2>4
    <3>2. j[l] = c[l + 1] BY <1>1, <3>1
    <3>3. c[l].used \/ c[l + 1].used BY <1>1, <3>1
    <3>4. CASE k = h BY <1>1, <3>2, <3>3, <3>4
    <3>5. CASE k > h
      <4>1. j[k] = c[l] BY <1>1, <2>1, <3>5
      <4> QED BY <3>2, <3>3, <4>1
    <3> QED BY <1>1, <2>4, <3>4, <3>5
  <2> QED BY <1>1, <2>2, <2>3, <2>4
<1>3. Len(j) - 1 = n - 2 BY <1>1
<1> QED BY <1>2, <1>3 DEF Coalesced

\* Merged with its predecessor, none lies in front of it.
LEMMA NoneInFront ==
  ASSUME NEW c \in Seq(Block), NEW i \in 1 .. Len(c), AllBut(c, {i - 1}), i > 1 => c[i - 1].used
  PROVE  Coalesced(c)
BY DEF AllBut, Coalesced

\* Both together, with what it does to the holders and the sums.
behind(c, i, H) == IF i < Len(c) /\ ~ c[i + 1].used THEN join(c, i, H) ELSE c
healed(c, i, H) ==
    IF i > 1 /\ ~ behind(c, i, H)[i - 1].used THEN join(behind(c, i, H), i - 1, H)
    ELSE behind(c, i, H)
Books(out, b, H, L, u, s) == Served(out, b, H, L) /\ AddsUp(b, u, s)

\* At most two blocks were joined away, and their headers are free space.
Mended(out, m, n, H, L, u, s) ==
    \E d \in 0 .. 2 :
       /\ Len(m) = n - d /\ Len(m) \in Nat
       /\ Books(out, m, H, L, u, s + d * (IF u THEN 0 ELSE H))
       /\ Coalesced(m)

\* Both merges leave no two free blocks side by side.
LEMMA Heals ==
  ASSUME NEW H \in Nat, NEW L \in Nat, NEW out, NEW c, NEW u \in BOOLEAN, NEW s \in Int,
         NEW i \in 1 .. Len(c),
         Books(out, c, H, L, u, s), ~ c[i].used, AllBut(c, {i - 1, i})
  PROVE  Mended(out, healed(c, i, H), Len(c), H, L, u, s)
<1> DEFINE G == IF u THEN 0 ELSE H
           n == behind(c, i, H)
           m == healed(c, i, H)
<1>1. c \in Seq(Block) /\ Served(out, c, H, L) /\ AddsUp(c, u, s) /\ Len(c) \in Nat /\ G \in Nat
  BY DEF Books, Served, Tiled
<1>2. \E d \in 0 .. 1 : /\ Len(n) = Len(c) - d /\ i \in 1 .. Len(n) /\ n \in Seq(Block)
                        /\ Served(out, n, H, L) /\ AddsUp(n, u, s + d * G)
                        /\ AllBut(n, {i - 1}) /\ ~ n[i].used
  <2>1. CASE i < Len(c) /\ ~ c[i + 1].used
    <3>1. n = join(c, i, H) BY <2>1 DEF behind
    <3>2. i \in 1 .. Len(c) - 1 BY <1>1, <2>1
    <3>3. IsJoin(n, c, i, H) BY <1>1, <3>1, <3>2, JoinRelates
    <3> HIDE DEF n, G
    <3>4. Len(n) = Len(c) - 1 /\ n \in Seq(Block) BY <3>3 DEF IsJoin
    <3>5. Served(out, n, H, L) BY <1>1, <2>1, <3>3, Joins
    <3>6. AddsUp(n, u, s + G) BY <1>1, <2>1, <3>3, JoinAdds DEF G
    <3>7. AllBut(n, {i - 1}) /\ ~ n[i].used BY <2>1, <3>3, JoinBehind
    <3>8. s + 1 * G = s + G /\ i \in 1 .. Len(n) BY <1>1, <3>2, <3>4
    <3> QED BY <3>4, <3>5, <3>6, <3>7, <3>8
  <2>2. CASE ~ (i < Len(c) /\ ~ c[i + 1].used)
    <3>1. n = c BY <2>2 DEF behind
    <3>2. AllBut(c, {i - 1}) BY <1>1, <2>2, NoneBehind
    <3> HIDE DEF n, G
    <3>3. s + 0 * G = s BY <1>1
    <3> QED BY <1>1, <3>1, <3>2, <3>3
  <2> QED BY <2>1, <2>2
<1>3. PICK d \in 0 .. 1 : /\ Len(n) = Len(c) - d /\ i \in 1 .. Len(n) /\ n \in Seq(Block)
                          /\ Served(out, n, H, L) /\ AddsUp(n, u, s + d * G)
                          /\ AllBut(n, {i - 1}) /\ ~ n[i].used
  BY <1>2
<1>4. m = IF i > 1 /\ ~ n[i - 1].used THEN join(n, i - 1, H) ELSE n BY DEF healed
<1>5. s + d * G \in Int BY <1>1
<1> HIDE DEF n, m, G
<1>6. \E e \in 0 .. 1 : /\ Len(m) = Len(n) - e /\ Served(out, m, H, L) /\ Coalesced(m)
                        /\ AddsUp(m, u, (s + d * G) + e * G) /\ Len(m) \in Nat
  <2>1. CASE i > 1 /\ ~ n[i - 1].used
    <3> DEFINE h == i - 1
               z == s + d * G
    <3>1. m = join(n, h, H) BY <1>4, <2>1
    <3>2. h \in 1 .. Len(n) - 1 /\ h + 1 = i BY <1>3, <2>1
    <3>3. IsJoin(m, n, h, H) BY <1>3, <3>1, <3>2, JoinRelates
    <3>4. Len(m) = Len(n) - 1 /\ m \in Seq(Block) BY <3>3 DEF IsJoin
    <3>5. ~ n[h].used /\ ~ n[h + 1].used BY <1>3, <2>1, <3>2
    <3>6. Served(out, m, H, L) BY <1>3, <3>3, <3>5, Joins
    <3>7. AddsUp(m, u, z + G)
      <4>1. z \in Int /\ AddsUp(n, u, z) BY <1>3, <1>5
      <4> HIDE DEF z, h
      <4> QED BY <3>3, <3>5, <4>1, JoinAdds DEF G
    <3>8. Coalesced(m)
      <4>1. i \in Nat /\ h = i - 1 /\ AllBut(n, {h}) BY <1>3
      <4> HIDE DEF h
      <4> QED BY <1>3, <3>3, <3>5, <4>1, JoinFront
    <3>9. z + 1 * G = z + G BY <1>1, <1>5
    <3>10. Len(m) \in Nat BY <3>4
    <3> QED BY <3>4, <3>6, <3>7, <3>8, <3>9, <3>10
  <2>2. CASE ~ (i > 1 /\ ~ n[i - 1].used)
    <3> DEFINE z == s + d * G
    <3>1. m = n BY <1>4, <2>2
    <3>2. Coalesced(n) BY <1>3, <2>2, NoneInFront
    <3>3. z + 0 * G = z BY <1>1, <1>5
    <3>4. Len(n) \in Nat BY <1>3
    <3> QED BY <1>3, <3>1, <3>2, <3>3, <3>4
  <2> QED BY <2>1, <2>2
<1>7. PICK e \in 0 .. 1 : /\ Len(m) = Len(n) - e /\ Served(out, m, H, L) /\ Coalesced(m)
                          /\ AddsUp(m, u, (s + d * G) + e * G) /\ Len(m) \in Nat
  BY <1>6
<1>8. d + e \in 0 .. 2 /\ Len(m) = Len(c) - (d + e) BY <1>1, <1>3, <1>7
<1>9. (s + d * G) + e * G = s + (d + e) * G
  <2>1. d = 0 \/ d = 1 OBVIOUS
  <2>2. e = 0 \/ e = 1 OBVIOUS
  <2> QED BY <1>1, <2>1, <2>2
<1>10. Books(out, m, H, L, u, s + (d + e) * G) BY <1>7, <1>9 DEF Books
<1> QED BY <1>7, <1>8, <1>10 DEF Mended, m, G

\* A new range next to those that are out, and the list t of n blocks after
\* it has been handed out.
Fits(r, out, L) == Within(r, L) /\ \A q \in out : q # r /\ Clear(r, q)
Given(r, out, t, n, H, L, u, s) ==
    /\ Books(out \cup {r}, t, H, L, u, s) /\ Coalesced(t) /\ Len(t) = n
    /\ Fits(r, out, L)

\* Taking the i-th block, whole or cut.
LEMMA TakeWhole ==
  ASSUME NEW H \in Nat, NEW m \in Nat, NEW L \in Nat, NEW size \in Nat,
         NEW n \in Nat \ {0}, n <= size,
         NEW out, NEW b, NEW u \in BOOLEAN, NEW s \in Int, NEW i \in 1 .. Len(b),
         Books(out, b, H, L, u, s), Coalesced(b), ~ b[i].used, b[i].size >= size,
         ~ splits(b[i], size, H, m), NEW z, z = IF u THEN s + b[i].size ELSE s - b[i].size
  PROVE  Given(Ranges(b[i].base + H, n), out, taken(b, i, size, H, m), Len(b), H, L, u, z)
<1> DEFINE t == taken(b, i, size, H, m)
<1>1. b \in Seq(Block) /\ Served(out, b, H, L) /\ Tiled(b, H, L) /\ AddsUp(b, u, s)
  BY DEF Books, Served, Tiled
<1>2. IsMark(t, b, i, TRUE) BY <1>1, WholeRelates
<1> HIDE DEF t
<1>3. Tiled(t, H, L) BY <1>1, <1>2, MarkTiles
<1>4. InUse(t) = InUse(b) \cup {t[i]} BY <1>2, WholeUses
<1>5. t[i].base = b[i].base /\ t[i].size = b[i].size /\ Len(t) = Len(b) BY <1>2 DEF IsMark
<1>6. t[i].size >= n
  <2> DEFINE y == b[i].size
  <2>1. y \in Nat /\ y >= size BY <1>1, BlockIs
  <2> HIDE DEF y
  <2>2. y >= n BY <2>1
  <2> QED BY <1>5, <2>2 DEF y
<1> DEFINE r == Ranges(b[i].base + H, n)
<1>7. /\ Served(out \cup {r}, t, H, L) /\ Within(r, L) /\ \A q \in out : q # r /\ Clear(r, q)
  BY <1>1, <1>3, <1>4, <1>5, <1>6, Takes
<1>8. Coalesced(t) BY <1>2, WholeCoalesces
<1>9. AddsUp(t, u, IF u THEN s + b[i].size ELSE s - b[i].size)
  <2>1. b[i].used = ~ TRUE
    <3>1. b[i].used \in BOOLEAN BY <1>1, BlockIs
    <3> QED BY <3>1
  <2>2. AddsUp(t, u, IF u = TRUE THEN s + b[i].size ELSE s - b[i].size)
    BY <1>1, <1>2, <2>1, MarkAdds
  <2> QED BY <2>2
<1> QED BY <1>5, <1>7, <1>8, <1>9 DEF Books, Given, Fits, t

\* Taking a range keeps the books.
LEMMA TakePart ==
  ASSUME NEW H \in Nat, NEW m \in Nat, NEW L \in Nat, NEW size \in Nat,
         NEW n \in Nat \ {0}, n <= size,
         H + m > 0,
         NEW out, NEW b, NEW u \in BOOLEAN, NEW s \in Int, NEW i \in 1 .. Len(b),
         Books(out, b, H, L, u, s), Coalesced(b), ~ b[i].used,
         splits(b[i], size, H, m), NEW z, z = IF u THEN s + size ELSE s - size - H
  PROVE  Given(Ranges(b[i].base + H, n), out, taken(b, i, size, H, m), Len(b) + 1, H, L, u, z)
<1> DEFINE t == taken(b, i, size, H, m)
<1>1. b \in Seq(Block) /\ Served(out, b, H, L) /\ Tiled(b, H, L) /\ AddsUp(b, u, s)
  BY DEF Books, Served, Tiled
<1>2. IsSplit(t, b, i, size, H) BY <1>1, SplitIs
<1> HIDE DEF t
<1>3. Tiled(t, H, L)
  <2> DEFINE y == b[i].size
  <2>1. y \in Nat /\ y >= size + H + m BY <1>1, BlockIs DEF splits
  <2> HIDE DEF y
  <2>2. y > size /\ y >= size + H /\ H + size > 0 BY <2>1
  <2> QED BY <1>1, <1>2, <2>2, SplitTiles DEF y
<1>4. InUse(t) = InUse(b) \cup {t[i]} BY <1>2, SplitUses
<1>5. t[i].base = b[i].base /\ t[i].size = size /\ Len(t) = Len(b) + 1
  BY <1>2 DEF IsSplit, cut_to
<1> DEFINE r == Ranges(b[i].base + H, n)
<1>7. /\ Served(out \cup {r}, t, H, L) /\ Within(r, L) /\ \A q \in out : q # r /\ Clear(r, q)
  BY <1>1, <1>3, <1>4, <1>5, Takes
<1>8. Coalesced(t) BY <1>2, SplitCoalesces
<1>9. AddsUp(t, u, IF u THEN s + size ELSE s - size - H) BY <1>1, <1>2, SplitAdds
<1> QED BY <1>5, <1>7, <1>8, <1>9 DEF Books, Given, Fits, t

\* A block is marked free and joined to its free neighbours.
LEMMA Frees ==
  ASSUME NEW H \in Nat, NEW L \in Nat, NEW out, NEW b, NEW u \in BOOLEAN, NEW s \in Int,
         NEW i \in 1 .. Len(b),
         NEW r \in out, Books(out, b, H, L, u, s), Coalesced(b), b[i].used, b[i].base + H = r.at
  PROVE  LET c == [b EXCEPT ![i].used = FALSE] IN
         Mended(out \ {r}, healed(c, i, H), Len(b), H, L, u, IF u THEN s - b[i].size ELSE s + b[i].size)
<1> DEFINE c == [b EXCEPT ![i].used = FALSE]
           z == IF u THEN s - b[i].size ELSE s + b[i].size
<1>1. b \in Seq(Block) /\ Served(out, b, H, L) /\ AddsUp(b, u, s) BY DEF Books, Served, Tiled
<1>2. IsMark(c, b, i, FALSE) BY <1>1, MarkRelates
<1> HIDE DEF c
<1>3. Served(out \ {r}, c, H, L) BY <1>1, <1>2, Gives
<1>4. AddsUp(c, u, z)
  <2>1. b[i].used = ~ FALSE
    <3>1. b[i].used \in BOOLEAN BY <1>1, BlockIs
    <3> QED BY <3>1
  <2>2. AddsUp(c, u, IF u = FALSE THEN s + b[i].size ELSE s - b[i].size)
    BY <1>1, <1>2, <2>1, MarkAdds
  <2> QED BY <2>2
<1>5. z \in Int
  <2>1. b[i].size \in Nat BY <1>1, BlockIs
  <2> QED BY <2>1
<1>6. Len(c) = Len(b) /\ i \in 1 .. Len(c) /\ ~ c[i].used BY <1>2 DEF IsMark
<1>7. AllBut(c, {i - 1, i}) BY <1>2, FreedAllBut
<1> HIDE DEF z
<1>8. Books(out \ {r}, c, H, L, u, z) BY <1>3, <1>4 DEF Books
<1>9. Mended(out \ {r}, healed(c, i, H), Len(c), H, L, u, z) BY <1>5, <1>6, <1>7, <1>8, Heals
<1> QED BY <1>6, <1>9 DEF c, z

\* Sizes are rounded up.
LEMMA Rounds ==
  ASSUME NEW n \in Nat, NEW a \in Nat \ {0}
  PROVE  round_up(n, a) \in Nat /\ round_up(n, a) >= n
<1> DEFINE x == n + a - 1
           q == x \div a
           e == x % a
<1>1. x \in Nat OBVIOUS
<1> HIDE DEF x
<1>2. q \in Nat /\ e \in 0 .. a - 1 /\ x = a * q + e BY <1>1
<1> HIDE DEF q, e
<1>3. q * a = a * q /\ q * a \in Nat BY <1>2
<1> DEFINE p == q * a
<1>4. round_up(n, a) = p BY DEF round_up, q, x
<1>5. x = n + a - 1 BY DEF x
<1>6. p \in Nat /\ x = p + e BY <1>2, <1>3
<1> HIDE DEF p
<1>7. p >= n BY <1>2, <1>5, <1>6
<1> QED BY <1>4, <1>6, <1>7
-----------------------------------------------------------------------------
(* How many hold something.                                                *)

\* One used block for each range.
LEMMA CountIs ==
  ASSUME NEW H \in Nat, NEW L \in Nat, NEW out, NEW b, Served(out, b, H, L)
  PROVE  LET I == {i \in 1 .. Len(b) : b[i].used} IN
         IsFiniteSet(out) /\ Cardinality(out) = Cardinality(I)
<1> DEFINE I == {i \in 1 .. Len(b) : b[i].used}
           f == [i \in I |-> CHOOSE r \in out : b[i].base + H = r.at]
<1>1. Tiled(b, H, L) /\ b \in Seq(Block) /\ Len(b) \in Nat BY DEF Served, Tiled
<1>2. \A i \in I : b[i] \in InUse(b) BY DEF InUse
<1>3. \A i \in I : f[i] \in out /\ b[i].base + H = f[i].at BY <1>2 DEF Served
<1>4. f \in [I -> out] BY <1>3
<1> HIDE DEF f
<1>5. \A i, j \in I : f[i] = f[j] => i = j
  <2> SUFFICES ASSUME NEW i \in I, NEW j \in I, f[i] = f[j] PROVE i = j OBVIOUS
  <2>1. b[i].base \in Nat /\ b[j].base \in Nat BY <1>1, BlockIs
  <2>2. b[i].base = b[j].base
    <3> DEFINE x == b[i].base
               y == b[j].base
    <3>1. x + H = f[i].at BY <1>3
    <3>2. y + H = f[j].at BY <1>3
    <3>3. x \in Nat /\ y \in Nat BY <2>1
    <3>4. x + H = y + H BY <3>1, <3>2
    <3> HIDE DEF x, y
    <3>5. x = y BY <3>3, <3>4
    <3> QED BY <3>5 DEF x, y
  <2> QED BY <1>1, <2>2, OneAtEach
<1>6. \A r \in out : \E i \in I : f[i] = r
  <2> SUFFICES ASSUME NEW r \in out PROVE \E i \in I : f[i] = r OBVIOUS
  <2>1. PICK x \in InUse(b) : x.base + H = r.at BY DEF Served, HasBlock
  <2>2. PICK i \in 1 .. Len(b) : b[i].used /\ x = b[i] BY <1>1, UsesAre
  <2>3. i \in I /\ f[i].at = r.at /\ f[i] \in out BY <1>3, <2>1, <2>2
  <2> QED BY <2>3 DEF Served
<1>7. f \in Bijection(I, out) BY <1>4, <1>5, <1>6, Fun_IsBij
<1>8. ExistsBijection(I, out) BY <1>7 DEF ExistsBijection
<1>9. IsFiniteSet(I)
  <2>1. IsFiniteSet(1 .. Len(b)) BY <1>1, FS_Interval
  <2>2. I \in SUBSET (1 .. Len(b)) OBVIOUS
  <2> QED BY <2>1, <2>2, FS_Subset
<1> QED BY <1>8, <1>9, FS_Bijection

\* What callers hold, as ranges.
Handles == [ptr : Nat, asked : Nat \ {0}]
range_of(h) == [at |-> h.ptr, len |-> h.asked]
OutOf(g) == {range_of(h) : h \in g}

\* A pointer that was handed out is a header behind a block in use.
LEMMA HandleIs ==
  ASSUME NEW h \in Handles, NEW g \in Handles, range_of(h) = range_of(g)
  PROVE  h = g
<1>1. h.ptr = g.ptr /\ h.asked = g.asked BY DEF range_of
<1> QED BY <1>1 DEF Handles

\* What callers hold, with one range more.
LEMMA OutAdds ==
  ASSUME NEW g, NEW h
  PROVE  OutOf(g \cup {h}) = OutOf(g) \cup {range_of(h)}
BY DEF OutOf

\* ... and with one less.
LEMMA OutLoses ==
  ASSUME NEW g \in SUBSET Handles, NEW h \in g
  PROVE  OutOf(g \ {h}) = OutOf(g) \ {range_of(h)}
<1>1. \A q \in g : range_of(q) = range_of(h) => q = h BY HandleIs
<1> QED BY <1>1 DEF OutOf

\* There are as many handles as ranges.
LEMMA HandlesCount ==
  ASSUME NEW g \in SUBSET Handles, IsFiniteSet(OutOf(g))
  PROVE  IsFiniteSet(g) /\ Cardinality(g) = Cardinality(OutOf(g))
<1> DEFINE O == OutOf(g)
           f == [r \in O |-> [ptr |-> r.at, asked |-> r.len]]
<1>1. \A h \in g : range_of(h) \in O /\ [ptr |-> range_of(h).at, asked |-> range_of(h).len] = h
  <2> SUFFICES ASSUME NEW h \in g
               PROVE range_of(h) \in O /\ [ptr |-> range_of(h).at, asked |-> range_of(h).len] = h
    OBVIOUS
  <2>1. h \in Handles OBVIOUS
  <2> QED BY <2>1 DEF OutOf, range_of, Handles
<1>2. \A r \in O : \E h \in g : r = range_of(h) BY DEF OutOf
<1>3. \A r \in O : \E h \in g : r = range_of(h) /\ f[r] = h BY <1>1, <1>2
<1> HIDE DEF O
<1>4. f \in [O -> g] BY <1>3
<1>5. \A r, q \in O : f[r] = f[q] => r = q BY <1>3
<1>6. \A h \in g : \E r \in O : f[r] = h BY <1>1
<1> HIDE DEF f
<1>7. f \in Bijection(O, g) BY <1>4, <1>5, <1>6, Fun_IsBij
<1>8. ExistsBijection(O, g) BY <1>7 DEF ExistsBijection
<1>9. IsFiniteSet(O) BY DEF O
<1> QED BY <1>8, <1>9, FS_Bijection DEF O
-----------------------------------------------------------------------------
(* The kernel heap.                                                        *)

Stats == [used_size : Int, free_size : Int, total_blocks : Int, used_blocks : Int]

\* The heap b with counters s, when callers hold g.
KGood(b, s, g) ==
    /\ s \in Stats /\ g \in SUBSET Handles
    /\ Books(OutOf(g), b, HEADER, HEAP_SIZE, FALSE, s.free_size) /\ Coalesced(b)
    /\ s.used_size + s.free_size + HEADER * s.total_blocks = HEAP_SIZE
    /\ s.total_blocks = Len(b)
    /\ s.used_blocks = Cardinality(g)

\* After a free there is at most one free block on either side, so the loops
\* of merge_free_blocks do at most one turn each.
LEMMA OneAfter ==
  ASSUME NEW a \in {0, 1}, NEW c, NEW i
  PROVE  LET f[n \in 0 .. a] == IF n = 0 THEN c ELSE join(f[n - 1], i, HEADER) IN
         f[a] = IF a = 0 THEN c ELSE join(c, i, HEADER)
<1> DEFINE Is(f) == f = [n \in 0 .. a |-> IF n = 0 THEN c ELSE join(f[n - 1], i, HEADER)]
           g == [n \in 0 .. a |-> IF n = 0 THEN c ELSE join(c, i, HEADER)]
           f == CHOOSE h : Is(h)
<1>1. Is(g)
  <2> DEFINE e == [n \in 0 .. a |-> IF n = 0 THEN c ELSE join(g[n - 1], i, HEADER)]
  <2>1. \A n \in 0 .. a : n = 0 \/ n = 1 OBVIOUS
  <2>2. g[0] = c OBVIOUS
  <2>3. \A n \in 0 .. a : g[n] = e[n] BY <2>1, <2>2
  <2>4. g = e BY <2>3
  <2> QED BY <2>4
<1>2. Is(f) BY <1>1
<1> HIDE DEF f
<1>3. f = [n \in 0 .. a |-> IF n = 0 THEN c ELSE join(f[n - 1], i, HEADER)] BY <1>2
<1>4. 0 \in 0 .. a /\ a \in 0 .. a OBVIOUS
<1>5. f[0] = c BY <1>3, <1>4
<1>6. f[a] = IF a = 0 THEN c ELSE join(f[a - 1], i, HEADER) BY <1>3, <1>4
<1>7. a = 1 => f[a - 1] = c BY <1>5
<1>8. f[a] = IF a = 0 THEN c ELSE join(c, i, HEADER) BY <1>6, <1>7
<1> QED BY <1>8 DEF f
joined_front(a, c, i) ==
    LET f[n \in 0 .. a] == IF n = 0 THEN c ELSE join(f[n - 1], i - n, HEADER) IN f[a]

\* With no two free neighbours there is at most one free block in front.
LEMMA OneFront ==
  ASSUME NEW a \in {0, 1}, NEW c, NEW i
  PROVE  joined_front(a, c, i) = IF a = 0 THEN c ELSE join(c, i - 1, HEADER)
<1> DEFINE Is(f) == f = [n \in 0 .. a |-> IF n = 0 THEN c ELSE join(f[n - 1], i - n, HEADER)]
           g == [n \in 0 .. a |-> IF n = 0 THEN c ELSE join(c, i - 1, HEADER)]
           f == CHOOSE h : Is(h)
<1>1. Is(g)
  <2> DEFINE e == [n \in 0 .. a |-> IF n = 0 THEN c ELSE join(g[n - 1], i - n, HEADER)]
  <2>1. \A n \in 0 .. a : n = 0 \/ n = 1 OBVIOUS
  <2>2. g[0] = c OBVIOUS
  <2>3. \A n \in 0 .. a : g[n] = e[n] BY <2>1, <2>2
  <2>4. g = e BY <2>3
  <2> QED BY <2>4
<1>2. Is(f) BY <1>1
<1> HIDE DEF f
<1>3. f = [n \in 0 .. a |-> IF n = 0 THEN c ELSE join(f[n - 1], i - n, HEADER)] BY <1>2
<1>4. 0 \in 0 .. a /\ a \in 0 .. a OBVIOUS
<1>5. f[0] = c BY <1>3, <1>4
<1>6. f[a] = IF a = 0 THEN c ELSE join(f[a - 1], i - a, HEADER) BY <1>3, <1>4
<1>7. a = 1 => f[a - 1] = c BY <1>5
<1>8. f[a] = IF a = 0 THEN c ELSE join(c, i - 1, HEADER) BY <1>6, <1>7
<1> QED BY <1>8 DEF joined_front, f

\* The merge loops of free join at most one block on either side.
LEMMA MergeIs ==
  ASSUME NEW c \in Seq(Block), NEW i \in 1 .. Len(c), AllBut(c, {i - 1, i})
  PROVE  merge_free_blocks(c, i) = healed(c, i, HEADER)
<1> DEFINE n == Len(c)
           A == {j \in i + 1 .. n : \A q \in i + 1 .. j : ~ c[q].used}
           B == {j \in 1 .. i - 1 : \A q \in j .. i - 1 : ~ c[q].used}
           a == Cardinality(A)
           b == Cardinality(B)
           x == IF a = 0 THEN c ELSE join(c, i, HEADER)
<1>1. n \in Nat /\ i \in 1 .. n /\ HEADER \in Nat BY KHeapAssumption
<1>2. \A k \in 1 .. n - 1 : k \in {i - 1, i} \/ c[k].used \/ c[k + 1].used BY DEF AllBut
<1> HIDE DEF n
<1>3. a = IF i < n /\ ~ c[i + 1].used THEN 1 ELSE 0
  <2>1. CASE i < n /\ ~ c[i + 1].used
    <3>1. i + 1 \in A BY <1>1, <2>1
    <3>2. ASSUME NEW j \in A, j # i + 1 PROVE FALSE
      <4>1. i + 1 \in i + 1 .. j /\ i + 2 \in i + 1 .. j /\ i + 1 \in 1 .. n - 1 BY <1>1, <3>2
      <4>2. ~ c[i + 1].used /\ ~ c[i + 2].used BY <3>2, <4>1
      <4>3. i + 1 \notin {i - 1, i} /\ (i + 1) + 1 = i + 2 BY <1>1
      <4> QED BY <1>2, <4>1, <4>2, <4>3
    <3> HIDE DEF A
    <3>3. A = {i + 1} BY <3>1, <3>2
    <3> QED BY <2>1, <3>3, FS_Singleton
  <2>2. CASE ~ (i < n /\ ~ c[i + 1].used)
    <3>1. ASSUME NEW j \in A PROVE FALSE
      <4>1. i + 1 \in i + 1 .. j /\ i < n BY <1>1, <3>1
      <4> QED BY <2>2, <3>1, <4>1
    <3> HIDE DEF A
    <3>2. A = {} BY <3>1
    <3> QED BY <2>2, <3>2, FS_EmptySet
  <2> QED BY <2>1, <2>2
<1>4. b = IF i > 1 /\ ~ c[i - 1].used THEN 1 ELSE 0
  <2>1. CASE i > 1 /\ ~ c[i - 1].used
    <3>1. i - 1 \in B BY <1>1, <2>1
    <3>2. ASSUME NEW j \in B, j # i - 1 PROVE FALSE
      <4>1. i - 1 \in j .. i - 1 /\ i - 2 \in j .. i - 1 /\ i - 2 \in 1 .. n - 1 BY <1>1, <3>2
      <4>2. ~ c[i - 1].used /\ ~ c[i - 2].used BY <3>2, <4>1
      <4>3. i - 2 \notin {i - 1, i} /\ (i - 2) + 1 = i - 1 BY <1>1
      <4> QED BY <1>2, <4>1, <4>2, <4>3
    <3> HIDE DEF B
    <3>3. B = {i - 1} BY <3>1, <3>2
    <3> QED BY <2>1, <3>3, FS_Singleton
  <2>2. CASE ~ (i > 1 /\ ~ c[i - 1].used)
    <3>1. ASSUME NEW j \in B PROVE FALSE
      <4>1. i - 1 \in j .. i - 1 /\ i > 1 BY <1>1, <3>1
      <4> QED BY <2>2, <3>1, <4>1
    <3> HIDE DEF B
    <3>2. B = {} BY <3>1
    <3> QED BY <2>2, <3>2, FS_EmptySet
  <2> QED BY <2>1, <2>2
<1>5. a \in {0, 1} /\ b \in {0, 1} BY <1>3, <1>4
<1>6. x = behind(c, i, HEADER) BY <1>3 DEF behind, n
<1>7. i > 1 => x[i - 1] = c[i - 1]
  <2>1. CASE a = 0 BY <2>1
  <2>2. CASE a # 0
    <3> DEFINE j == join(c, i, HEADER)
    <3>1. i \in 1 .. Len(c) - 1 BY <1>1, <1>3, <2>2 DEF n
    <3>2. IsJoin(j, c, i, HEADER) BY <1>1, <3>1, JoinRelates
    <3> HIDE DEF j
    <3>3. i > 1 => i - 1 \in 1 .. Len(c) - 1 /\ i - 1 < i BY <3>1
    <3>4. i > 1 => j[i - 1] = c[i - 1] BY <3>2, <3>3 DEF IsJoin
    <3> QED BY <2>2, <3>4 DEF j
  <2> QED BY <2>1, <2>2
<1> DEFINE f == CHOOSE f : f = [k \in 0 .. a |-> IF k = 0 THEN c ELSE join(f[k - 1], i, HEADER)]
<1>8. merge_free_blocks(c, i) = joined_front(b, f[a], i)
  BY DEF merge_free_blocks, joined_front, n
<1> HIDE DEF A, B, a, b
<1>9. f[a] = x BY <1>5, OneAfter
<1> HIDE DEF f, x
<1>10. merge_free_blocks(c, i) = joined_front(b, x, i) BY <1>8, <1>9
<1>11. joined_front(b, x, i) = IF b = 0 THEN x ELSE join(x, i - 1, HEADER) BY <1>5, OneFront
<1>12. healed(c, i, HEADER) = IF i > 1 /\ ~ x[i - 1].used THEN join(x, i - 1, HEADER) ELSE x
  BY <1>6 DEF healed
<1>13. (b = 0) <=> ~ (i > 1 /\ ~ x[i - 1].used) BY <1>4, <1>7
<1> QED BY <1>10, <1>11, <1>12, <1>13

\* kmalloc takes a block: the books stay right and the caller gets room.
LEMMA KTake ==
  ASSUME NEW b, NEW s, NEW g, KGood(b, s, g), NEW asked \in Nat \ {0},
         NEW size \in Nat, asked <= size,
         NEW i \in 1 .. Len(b), ~ b[i].used, b[i].size >= size
  PROVE  LET h == [ptr |-> b[i].base + HEADER, asked |-> asked] IN
         /\ h \notin g /\ h.ptr \in Nat
         /\ KGood(taken(b, i, size, HEADER, SPLIT), counted(s, b[i], size), g \cup {h})
         /\ Fits(range_of(h), OutOf(g), HEAP_SIZE)
<1> DEFINE h == [ptr |-> b[i].base + HEADER, asked |-> asked]
           t == taken(b, i, size, HEADER, SPLIT)
           x == b[i]
           cut == splits(x, size, HEADER, SPLIT)
           w == IF cut THEN size ELSE x.size
           e == IF cut THEN HEADER ELSE 0
           o == IF cut THEN 1 ELSE 0
           z == counted(s, x, size)
           G == g \cup {h}
<1>1. HEADER \in Nat /\ HEADER > 0 /\ SPLIT \in Nat /\ HEAP_SIZE \in Nat /\ HEADER + SPLIT > 0
  BY KHeapAssumption
<1>2. /\ s \in Stats /\ g \in SUBSET Handles
      /\ Books(OutOf(g), b, HEADER, HEAP_SIZE, FALSE, s.free_size) /\ Coalesced(b)
      /\ s.used_size + s.free_size + HEADER * s.total_blocks = HEAP_SIZE
      /\ s.total_blocks = Len(b)
      /\ s.used_blocks = Cardinality(g)
  BY DEF KGood
<1>3. /\ s.used_size \in Int /\ s.free_size \in Int /\ s.total_blocks \in Int /\ s.used_blocks \in Int
  BY <1>2 DEF Stats
<1>4. b \in Seq(Block) /\ x \in Block /\ x.base \in Nat /\ x.size \in Nat /\ Len(b) \in Nat
  BY <1>2, BlockIs DEF Books, Served, Tiled
<1>5. /\ h \in Handles /\ range_of(h) = Ranges(x.base + HEADER, asked)
  BY <1>1, <1>4 DEF Handles, range_of, Ranges
<1>6. w \in Nat /\ e \in Nat /\ o \in Nat /\ HEADER * o = e
  <2>1. HEADER * 0 = 0 /\ HEADER * 1 = HEADER BY <1>1
  <2> QED BY <1>1, <1>4, <2>1
<1>7. /\ z \in Stats /\ z.used_size = s.used_size + w /\ z.free_size = s.free_size - w - e
      /\ z.total_blocks = s.total_blocks + o /\ z.used_blocks = s.used_blocks + 1
  <2>1. z = [used_size    |-> s.used_size + w, free_size    |-> s.free_size - w - e,
             total_blocks |-> s.total_blocks + o, used_blocks  |-> s.used_blocks + 1]
    BY DEF counted, cuts
  <2>2. /\ s.used_size + w \in Int /\ s.free_size - w - e \in Int
        /\ s.total_blocks + o \in Int /\ s.used_blocks + 1 \in Int
    <3> DEFINE v == s.used_size
               f == s.free_size
               n == s.total_blocks
               y == s.used_blocks
    <3>1. v \in Int /\ f \in Int /\ n \in Int /\ y \in Int BY <1>3
    <3> HIDE DEF v, f, n, y, w, e, o
    <3>2. v + w \in Int /\ f - w - e \in Int /\ n + o \in Int /\ y + 1 \in Int BY <1>6, <3>1
    <3> QED BY <3>2 DEF v, f, n, y
  <2> HIDE DEF z, w, e, o
  <2> QED BY <2>1, <2>2 DEF Stats
<1>8. /\ Books(OutOf(g) \cup {Ranges(x.base + HEADER, asked)}, t, HEADER, HEAP_SIZE, FALSE, s.free_size - w - e)
      /\ Coalesced(t) /\ Len(t) = Len(b) + o
      /\ Fits(Ranges(x.base + HEADER, asked), OutOf(g), HEAP_SIZE)
  <2> DEFINE O == OutOf(g)
             f == s.free_size
             r == Ranges(b[i].base + HEADER, asked)
  <2>0. f \in Int /\ Books(O, b, HEADER, HEAP_SIZE, FALSE, f) BY <1>2, <1>3
  <2>1. CASE cut
    <3> HIDE DEF O, f
    <3>1. f - size - HEADER = IF FALSE THEN f + size ELSE f - size - HEADER OBVIOUS
    <3>2. Given(r, O, t, Len(b) + 1, HEADER, HEAP_SIZE, FALSE, f - size - HEADER)
      BY <1>1, <1>2, <2>0, <2>1, <3>1, TakePart
    <3> QED BY <2>1, <3>2 DEF O, f, Given
  <2>2. CASE ~ cut
    <3> HIDE DEF O, f
    <3>1. f - b[i].size = IF FALSE THEN f + b[i].size ELSE f - b[i].size OBVIOUS
    <3>3. Given(r, O, t, Len(b), HEADER, HEAP_SIZE, FALSE, f - b[i].size)
      BY <1>1, <1>2, <2>0, <2>2, <3>1, TakeWhole
    <3>2. f - b[i].size = f - b[i].size - 0 /\ Len(b) = Len(b) + 0 BY <1>4, <2>0
    <3> QED BY <2>2, <3>2, <3>3 DEF O, f, Given
  <2> QED BY <2>1, <2>2
<1>9. OutOf(G) = OutOf(g) \cup {range_of(h)} BY OutAdds
<1>10. h \notin g
  <2> SUFFICES ASSUME h \in g PROVE FALSE OBVIOUS
  <2>1. range_of(h) \in OutOf(g) BY DEF OutOf
  <2> HIDE DEF h
  <2> QED BY <1>5, <1>8, <2>1 DEF Fits
<1>11. IsFiniteSet(g)
  <2>1. IsFiniteSet(OutOf(g)) BY <1>1, <1>2, CountIs DEF Books
  <2> QED BY <1>2, <2>1, HandlesCount
<1>12. Cardinality(G) = Cardinality(g) + 1
  <2> HIDE DEF h
  <2> QED BY <1>10, <1>11, FS_AddElement
<1>13. h.ptr \in Nat BY <1>1, <1>4
<1>14. G \in SUBSET Handles BY <1>2, <1>5
<1>15. z.used_size + z.free_size + HEADER * z.total_blocks = HEAP_SIZE
  <2> DEFINE v == s.used_size
             f == s.free_size
             n == s.total_blocks
             p == HEADER * n
  <2>1. v \in Int /\ f \in Int /\ n \in Int /\ v + f + p = HEAP_SIZE BY <1>2, <1>3
  <2>2. z.used_size = v + w /\ z.free_size = f - w - e /\ z.total_blocks = n + o BY <1>7
  <2> HIDE DEF v, f, n, z, w, e, o
  <2>3. HEADER * (n + o) = p + e BY <1>1, <1>6, <2>1
  <2>4. p \in Int BY <1>1, <2>1
  <2> HIDE DEF p
  <2>5. (v + w) + (f - w - e) + (p + e) = HEAP_SIZE BY <1>1, <1>6, <2>1, <2>4
  <2> QED BY <2>2, <2>3, <2>5
<1> HIDE DEF h, z, t, w, e, o, x, G
<1>16. Books(OutOf(G), t, HEADER, HEAP_SIZE, FALSE, z.free_size) BY <1>5, <1>7, <1>8, <1>9
<1>17. z.total_blocks = Len(t) /\ z.used_blocks = Cardinality(G) BY <1>2, <1>7, <1>8, <1>12
<1>18. KGood(t, z, G) BY <1>7, <1>8, <1>14, <1>15, <1>16, <1>17 DEF KGood
<1>19. Fits(range_of(h), OutOf(g), HEAP_SIZE) BY <1>5, <1>8
<1> QED BY <1>10, <1>13, <1>18, <1>19 DEF h, t, x, z, G

\* kfree gives one back and merges it with its neighbours.
LEMMA KFree ==
  ASSUME NEW b, NEW s, NEW g, KGood(b, s, g), NEW h \in g, NEW k, k.heap = b, k.stats = s
  PROVE  KGood(kfree(k, h.ptr).heap, kfree(k, h.ptr).stats, g \ {h})
<1> DEFINE i == block_at(b, h.ptr - HEADER)
           c == [b EXCEPT ![i].used = FALSE]
           m == merge_free_blocks(c, i)
           r == range_of(h)
           G == g \ {h}
           y == b[i].size
           v == s.used_size
           f == s.free_size
           n == s.total_blocks
           w == s.used_blocks
<1>1. HEADER \in Nat /\ HEADER > 0 /\ SPLIT \in Nat /\ HEAP_SIZE \in Nat BY KHeapAssumption
<1>2. /\ s \in Stats /\ g \in SUBSET Handles
      /\ Books(OutOf(g), b, HEADER, HEAP_SIZE, FALSE, f) /\ Coalesced(b)
      /\ v + f + HEADER * n = HEAP_SIZE
      /\ n = Len(b)
      /\ w = Cardinality(g)
  BY DEF KGood
<1>3. /\ v \in Int /\ f \in Int /\ n \in Int /\ w \in Int BY <1>2 DEF Stats
<1>4. r \in OutOf(g) /\ r.at = h.ptr BY DEF OutOf, range_of
<1>5. Served(OutOf(g), b, HEADER, HEAP_SIZE) /\ b \in Seq(Block) /\ Len(b) \in Nat
  BY <1>2 DEF Books, Served, Tiled
<1>6. i \in 1 .. Len(b) /\ b[i].used /\ b[i].base + HEADER = r.at
  <2> HIDE DEF r
  <2> QED BY <1>1, <1>4, <1>5, Finds
<1> HIDE DEF i
<1>7. y \in Nat BY <1>5, <1>6, BlockIs
<1>8. IsMark(c, b, i, FALSE) BY <1>5, <1>6, MarkRelates
<1>9. c[i].size = y /\ c \in Seq(Block) /\ i \in 1 .. Len(c) /\ Len(c) = Len(b)
  BY <1>6, <1>8 DEF IsMark
<1>10. AllBut(c, {i - 1, i}) BY <1>2, <1>8, FreedAllBut
<1>11. m = healed(c, i, HEADER) BY <1>9, <1>10, MergeIs
<1>12. Mended(OutOf(g) \ {r}, m, Len(b), HEADER, HEAP_SIZE, FALSE, f + y)
  <2> DEFINE O == OutOf(g)
  <2>1. Books(O, b, HEADER, HEAP_SIZE, FALSE, f) /\ r \in O BY <1>2, <1>4
  <2>2. f + y = IF FALSE THEN f - y ELSE f + y OBVIOUS
  <2> HIDE DEF O, r, f
  <2>3. Mended(O \ {r}, healed(c, i, HEADER), Len(b), HEADER, HEAP_SIZE, FALSE, IF FALSE THEN f - y ELSE f + y)
    BY <1>1, <1>2, <1>3, <1>6, <2>1, Frees
  <2> HIDE DEF c, y
  <2> QED BY <1>11, <2>2, <2>3 DEF O
<1>13. PICK d \in 0 .. 2 : /\ Len(m) = Len(b) - d
                           /\ Books(OutOf(g) \ {r}, m, HEADER, HEAP_SIZE, FALSE, (f + y) + d * HEADER)
                           /\ Coalesced(m)
  BY <1>12 DEF Mended
<1> DEFINE z == kfree(k, h.ptr)
           j == Len(c) - Len(m)
<1>14. /\ z.heap = m
       /\ z.stats = [used_size    |-> v - c[i].size, free_size    |-> f + c[i].size + j * HEADER,
                     total_blocks |-> n - j, used_blocks  |-> w - 1]
  BY <1>6 DEF kfree, i
<1> HIDE DEF c, m, y, v, f, n, w, z, r, i
<1>15. j = d BY <1>5, <1>9, <1>13
<1> HIDE DEF j
<1>16. v - y \in Int /\ f + y + d * HEADER \in Int /\ n - d \in Int /\ w - 1 \in Int
  BY <1>1, <1>3, <1>7
<1>17. /\ z.stats \in Stats /\ z.stats.used_size = v - y /\ z.stats.free_size = f + y + d * HEADER
       /\ z.stats.total_blocks = n - d /\ z.stats.used_blocks = w - 1
  BY <1>9, <1>14, <1>15, <1>16 DEF Stats
<1>18. OutOf(G) = OutOf(g) \ {r} BY <1>2, OutLoses DEF r
<1>19. Cardinality(G) = w - 1
  <2>1. IsFiniteSet(OutOf(g)) BY <1>1, <1>5, CountIs
  <2>2. IsFiniteSet(g) BY <1>2, <2>1, HandlesCount
  <2> QED BY <1>2, <2>2, FS_RemoveElement
<1>20. (v - y) + (f + y + d * HEADER) + HEADER * (n - d) = HEAP_SIZE
  <2>1. d = 0 \/ d = 1 \/ d = 2 OBVIOUS
  <2> DEFINE p == HEADER * n
  <2>2. p \in Int /\ v + f + p = HEAP_SIZE BY <1>1, <1>2, <1>3
  <2>3. HEADER * (n - d) = p - d * HEADER BY <1>1, <1>3, <2>1
  <2> DEFINE q == d * HEADER
  <2>4. q \in Int BY <1>1
  <2> HIDE DEF p, q
  <2>5. (v - y) + (f + y + q) + (p - q) = HEAP_SIZE BY <1>1, <1>3, <1>7, <2>2, <2>4
  <2> QED BY <2>3, <2>5 DEF q
<1>21. n - d = Len(m) BY <1>2, <1>13
<1>22. G \in SUBSET Handles BY <1>2
<1> HIDE DEF G
<1>23. KGood(m, z.stats, G) BY <1>13, <1>17, <1>18, <1>19, <1>20, <1>21, <1>22 DEF KGood
<1> QED BY <1>14, <1>23 DEF z, G

\* kmalloc as a whole: a block from the list, or a refusal.
LEMMA KMalloc ==
  ASSUME NEW b, NEW s, NEW g, KGood(b, s, g), NEW asked \in Nat
  PROVE  LET m == kmalloc([heap |-> b, stats |-> s, ptr |-> -1], asked)
             h == [ptr |-> m.ptr, asked |-> asked]
         IN \/ m.ptr = -1 /\ m.heap = b /\ m.stats = s
            \/ /\ asked > 0 /\ m.ptr \in Nat /\ h \notin g
               /\ KGood(m.heap, m.stats, g \cup {h})
               /\ Fits(range_of(h), OutOf(g), HEAP_SIZE)
<1> DEFINE k == [heap |-> b, stats |-> s, ptr |-> -1]
           size == round_up(asked, ALIGN)
           i == first_fit(b, size)
           m == kmalloc(k, asked)
<1>1. k.heap = b /\ k.stats = s /\ [k EXCEPT !.ptr = -1] = k OBVIOUS
<1>2. CASE asked = 0 \/ i = 0
  <2>1. m = k BY <1>1, <1>2 DEF kmalloc
  <2> QED BY <2>1
<1>3. CASE asked # 0 /\ i # 0
  <2>1. m = [heap |-> taken(b, i, size, HEADER, SPLIT), stats |-> counted(s, b[i], size), ptr |-> b[i].base + HEADER]
    BY <1>3 DEF kmalloc
  <2>2. size \in Nat /\ asked <= size BY KHeapAssumption, Rounds
  <2>3. b \in Seq(Block) BY DEF KGood, Books, Served, Tiled
  <2> HIDE DEF size
  <2>4. i \in 1 .. Len(b) /\ ~ b[i].used /\ b[i].size >= size BY <1>3, <2>2, <2>3, FirstFit
  <2>5. asked \in Nat \ {0} BY <1>3
  <2> HIDE DEF i, m
  <2> DEFINE h == [ptr |-> b[i].base + HEADER, asked |-> asked]
  <2>6. /\ h \notin g /\ h.ptr \in Nat
        /\ KGood(taken(b, i, size, HEADER, SPLIT), counted(s, b[i], size), g \cup {h})
        /\ Fits(range_of(h), OutOf(g), HEAP_SIZE)
    BY <2>2, <2>4, <2>5, KTake
  <2>7. m.ptr = h.ptr /\ [ptr |-> m.ptr, asked |-> asked] = h BY <2>1
  <2>8. m.heap = taken(b, i, size, HEADER, SPLIT) /\ m.stats = counted(s, b[i], size) BY <2>1
  <2> HIDE DEF h
  <2> QED BY <2>5, <2>6, <2>7, <2>8 DEF m
<1> QED BY <1>2, <1>3

\* What a step of an allocator does to the ranges o that are out.
Steps(o, p, L) ==
    \/ p = o
    \/ \E r \in p : Within(r, L) /\ (\A q \in o : Clear(r, q)) /\ p = o \cup {r}
    \/ \E r \in o : p = o \ {r}
    \/ \E r \in o, q \in p : /\ Within(q, L)
                             /\ \A x \in o : Clear(q, x) \/ (x = r /\ q.at = r.at)
                             /\ p = (o \ {r}) \cup {q}

\* A step that hands out a range is a step of the allocator.
LEMMA StepTakes ==
  ASSUME NEW g, NEW h, NEW L, Fits(range_of(h), OutOf(g), L)
  PROVE  Steps(OutOf(g), OutOf(g \cup {h}), L)
<1> DEFINE r == range_of(h)
<1>1. OutOf(g \cup {h}) = OutOf(g) \cup {r} BY OutAdds
<1> HIDE DEF r
<1>2. Within(r, L) /\ \A q \in OutOf(g) : Clear(r, q) BY DEF Fits, r
<1> QED BY <1>1, <1>2 DEF Steps

\* So is one that takes a range back.
LEMMA StepGives ==
  ASSUME NEW g \in SUBSET Handles, NEW h \in g, NEW L
  PROVE  Steps(OutOf(g), OutOf(g \ {h}), L)
<1>1. OutOf(g \ {h}) = OutOf(g) \ {range_of(h)} BY OutLoses
<1>2. range_of(h) \in OutOf(g) BY DEF OutOf
<1> QED BY <1>1, <1>2 DEF Steps

\* A new range is taken, then the old one given back.
LEMMA StepMoves ==
  ASSUME NEW g \in SUBSET Handles, NEW h \in g, NEW n, n # h,
         NEW L, Fits(range_of(n), OutOf(g), L)
  PROVE  Steps(OutOf(g), OutOf((g \ {h}) \cup {n}), L)
<1> DEFINE r == range_of(h)
           q == range_of(n)
<1>1. OutOf(g \ {h}) = OutOf(g) \ {r} /\ r \in OutOf(g)
  <2>1. range_of(h) \in OutOf(g) BY DEF OutOf
  <2> QED BY <2>1, OutLoses
<1>2. OutOf((g \ {h}) \cup {n}) = OutOf(g \ {h}) \cup {q} BY OutAdds
<1> HIDE DEF r, q
<1>3. Within(q, L) /\ \A x \in OutOf(g) : Clear(q, x) BY DEF Fits, q
<1> QED BY <1>1, <1>2, <1>3 DEF Steps

\* A range grows or shrinks where it is: realloc in its block.
LEMMA InPlace ==
  ASSUME NEW H \in Nat, NEW L \in Nat, NEW b, NEW g \in SUBSET Handles, NEW h \in g,
         NEW asked \in Nat \ {0},
         Served(OutOf(g), b, H, L), b[block_at(b, h.ptr - H)].size >= asked
  PROVE  LET n == [h EXCEPT !.asked = asked]
             G == (g \ {h}) \cup {n}
         IN /\ Served(OutOf(G), b, H, L) /\ G \in SUBSET Handles /\ Cardinality(G) = Cardinality(g)
            /\ Steps(OutOf(g), OutOf(G), L)
<1> DEFINE n == [h EXCEPT !.asked = asked]
           G == (g \ {h}) \cup {n}
           r == range_of(h)
           q == Ranges(r.at, asked)
           i == block_at(b, h.ptr - H)
           O == OutOf(g)
<1>1. n \in Handles /\ n.ptr = h.ptr /\ n.asked = asked
  <2>1. h \in Handles OBVIOUS
  <2> QED BY <2>1 DEF Handles
<1>2. r \in O /\ r.at = h.ptr /\ range_of(n) = q
  <2>1. r \in O /\ r.at = h.ptr BY DEF OutOf, range_of
  <2> QED BY <1>1, <2>1 DEF range_of, Ranges
<1> HIDE DEF n
<1>3. OutOf(G) = (O \ {r}) \cup {q}
  <2>1. OutOf(G) = OutOf(g \ {h}) \cup {q} BY <1>2, OutAdds
  <2>2. OutOf(g \ {h}) = O \ {r} BY OutLoses
  <2> QED BY <2>1, <2>2
<1>4. i \in 1 .. Len(b) /\ b[i].used /\ b[i].base + H = r.at
  <2> HIDE DEF r
  <2> QED BY <1>2, Finds
<1> HIDE DEF r, i, O
<1>5. b[i].size >= asked BY DEF i
<1>6. Served(O, b, H, L) BY DEF O
<1>8. q.at = r.at /\ q = Ranges(r.at, asked) BY DEF Ranges
<1> HIDE DEF q
<1>7. /\ Served((O \ {r}) \cup {q}, b, H, L)
      /\ Within(q, L) /\ \A o \in O : o # r => Clear(q, o)
  BY <1>2, <1>4, <1>5, <1>6, <1>8, Resizes
<1>9. Steps(O, (O \ {r}) \cup {q}, L) BY <1>2, <1>7, <1>8 DEF Steps
<1>10. IsFiniteSet(g)
  <2>1. IsFiniteSet(OutOf(g)) BY CountIs
  <2> QED BY <2>1, HandlesCount
<1>11. n \notin g \ {h}
  <2> SUFFICES ASSUME n \in g, n # h PROVE FALSE OBVIOUS
  <2>1. range_of(n) \in OutOf(g) BY DEF OutOf
  <2>2. range_of(n).at = r.at BY <1>2, <1>8
  <2>3. range_of(n) = r BY <1>2, <1>6, <2>1, <2>2 DEF Served, O
  <2> QED BY <2>3, HandleIs DEF r
<1>12. Cardinality(G) = Cardinality(g)
  <2> DEFINE S == g \ {h}
  <2>1. IsFiniteSet(S) /\ Cardinality(S) = Cardinality(g) - 1 BY <1>10, FS_RemoveElement
  <2>2. Cardinality(S \cup {n}) = Cardinality(S) + 1
    <3>1. n \notin S BY <1>11
    <3> HIDE DEF S
    <3> QED BY <2>1, <3>1, FS_AddElement
  <2>3. Cardinality(g) \in Nat BY <1>10, FS_CardinalityType
  <2> QED BY <2>1, <2>2, <2>3
<1>13. G \in SUBSET Handles BY <1>1
<1> QED BY <1>3, <1>7, <1>9, <1>12, <1>13 DEF O, n

KInv == KGood(heap, stats, held)

\* Every step of the kernel heap keeps its invariant and is allowed.
LEMMA KStep ==
  ASSUME KInv, [KHeapNext]_kvars
  PROVE  KInv' /\ Steps(OutOf(held), OutOf(held'), HEAP_SIZE)
<1>1. KGood(heap, stats, held) /\ held \in SUBSET Handles BY DEF KInv, KGood
<1>2. HEADER \in Nat /\ HEAP_SIZE \in Nat BY KHeapAssumption
<1>3. CASE UNCHANGED kvars
  <2>1. heap' = heap /\ stats' = stats /\ held' = held BY <1>3 DEF kvars
  <2> QED BY <1>1, <2>1 DEF KInv, Steps
<1>4. ASSUME NEW n \in Requests, alloc(n)
      PROVE KInv' /\ Steps(OutOf(held), OutOf(held'), HEAP_SIZE)
  <2> DEFINE k == kmalloc([heap |-> heap, stats |-> stats, ptr |-> -1], n)
             h == [ptr |-> k.ptr, asked |-> n]
  <2>1. /\ heap' = k.heap /\ stats' = k.stats
        /\ held' = IF k.ptr = -1 THEN held ELSE held \cup {h}
    BY <1>4 DEF alloc, becomes, now
  <2>2. n \in Nat BY KHeapAssumption
  <2>3. \/ k.ptr = -1 /\ k.heap = heap /\ k.stats = stats
        \/ /\ n > 0 /\ k.ptr \in Nat /\ h \notin held
           /\ KGood(k.heap, k.stats, held \cup {h})
           /\ Fits(range_of(h), OutOf(held), HEAP_SIZE)
    BY <1>1, <2>2, KMalloc
  <2> HIDE DEF k
  <2>4. CASE k.ptr = -1 /\ k.heap = heap /\ k.stats = stats
    <3>1. heap' = heap /\ stats' = stats /\ held' = held BY <2>1, <2>4
    <3> QED BY <1>1, <3>1 DEF KInv, Steps
  <2>5. CASE /\ n > 0 /\ k.ptr \in Nat /\ h \notin held
             /\ KGood(k.heap, k.stats, held \cup {h})
             /\ Fits(range_of(h), OutOf(held), HEAP_SIZE)
    <3>1. held' = held \cup {h} BY <2>1, <2>5
    <3> HIDE DEF h
    <3>2. Steps(OutOf(held), OutOf(held \cup {h}), HEAP_SIZE) BY <2>5, StepTakes
    <3> QED BY <2>1, <2>5, <3>1, <3>2 DEF KInv
  <2> QED BY <2>3, <2>4, <2>5
<1>5. ASSUME NEW h \in held, release(h)
      PROVE KInv' /\ Steps(OutOf(held), OutOf(held'), HEAP_SIZE)
  <2> DEFINE k == [heap |-> heap, stats |-> stats, ptr |-> -1]
  <2>1. /\ heap' = kfree(k, h.ptr).heap /\ stats' = kfree(k, h.ptr).stats /\ held' = held \ {h}
    BY <1>5 DEF release, becomes, now
  <2>2. k.heap = heap /\ k.stats = stats OBVIOUS
  <2> HIDE DEF k
  <2>3. KGood(kfree(k, h.ptr).heap, kfree(k, h.ptr).stats, held \ {h}) BY <1>1, <2>2, KFree
  <2>4. Steps(OutOf(held), OutOf(held \ {h}), HEAP_SIZE) BY <1>1, StepGives
  <2> QED BY <2>1, <2>3, <2>4 DEF KInv
<1>6. ASSUME NEW h \in held, NEW n \in Requests, krealloc(h, n)
      PROVE  KInv' /\ Steps(OutOf(held), OutOf(held'), HEAP_SIZE)
  <2> DEFINE k == kmalloc([heap |-> heap, stats |-> stats, ptr |-> -1], n)
             q == [ptr |-> k.ptr, asked |-> n]
  <2>1. n \in Nat \ {0} BY <1>6, KHeapAssumption DEF krealloc
  <2>2. CASE n <= block_size(h.ptr)
    <3> DEFINE e == [h EXCEPT !.asked = n]
               G == (held \ {h}) \cup {e}
    <3>1. heap' = heap /\ stats' = stats /\ held' = G BY <1>6, <2>2 DEF krealloc
    <3>2. heap[block_at(heap, h.ptr - HEADER)].size >= n
      <4> DEFINE i == block_at(heap, h.ptr - HEADER)
      <4>1. i \in 1 .. Len(heap) /\ heap \in Seq(Block)
        <5>1. Served(OutOf(held), heap, HEADER, HEAP_SIZE) BY <1>1 DEF KGood, Books
        <5>2. range_of(h) \in OutOf(held) /\ range_of(h).at = h.ptr BY DEF OutOf, range_of
        <5>3. block_at(heap, range_of(h).at - HEADER) \in 1 .. Len(heap)
          BY <1>2, <5>1, <5>2, Finds
        <5> QED BY <5>1, <5>2, <5>3 DEF Served, Tiled
      <4>2. heap[i].size \in Nat BY <4>1, BlockIs
      <4> DEFINE z == heap[i].size
      <4>3. n <= z BY <2>2 DEF block_size
      <4>4. z \in Nat BY <4>2
      <4> HIDE DEF z
      <4>5. z >= n BY <2>1, <4>3, <4>4
      <4> QED BY <4>5 DEF z
    <3>3. Served(OutOf(held), heap, HEADER, HEAP_SIZE) BY <1>1 DEF KGood, Books
    <3>4. /\ Served(OutOf(G), heap, HEADER, HEAP_SIZE) /\ G \in SUBSET Handles /\ Cardinality(G) = Cardinality(held)
          /\ Steps(OutOf(held), OutOf(G), HEAP_SIZE)
      BY <1>1, <1>2, <2>1, <3>2, <3>3, InPlace
    <3> HIDE DEF G
    <3>5. KGood(heap, stats, G) BY <1>1, <3>4 DEF KGood, Books
    <3> QED BY <3>1, <3>4, <3>5 DEF KInv
  <2>3. CASE ~ (n <= block_size(h.ptr)) /\ k.ptr = -1
    <3>1. heap' = heap /\ stats' = stats /\ held' = held BY <1>6, <2>3 DEF krealloc, now, kvars
    <3> QED BY <1>1, <3>1 DEF KInv, Steps
  <2>4. CASE ~ (n <= block_size(h.ptr)) /\ k.ptr # -1
    <3>1. /\ heap' = kfree(k, h.ptr).heap /\ stats' = kfree(k, h.ptr).stats
          /\ held' = (held \ {h}) \cup {q}
      BY <1>6, <2>4 DEF krealloc, now, becomes
    <3>2. /\ q \notin held /\ KGood(k.heap, k.stats, held \cup {q})
          /\ Fits(range_of(q), OutOf(held), HEAP_SIZE)
      BY <1>1, <2>1, <2>4, KMalloc
    <3> HIDE DEF k, q
    <3>3. h \in held \cup {q} OBVIOUS
    <3>4. KGood(kfree(k, h.ptr).heap, kfree(k, h.ptr).stats, (held \cup {q}) \ {h})
      BY <3>2, <3>3, KFree
    <3>5. (held \cup {q}) \ {h} = (held \ {h}) \cup {q} /\ q # h BY <3>2
    <3>6. Steps(OutOf(held), OutOf((held \ {h}) \cup {q}), HEAP_SIZE)
      BY <1>1, <3>2, <3>5, StepMoves
    <3> QED BY <3>1, <3>4, <3>5, <3>6 DEF KInv
  <2> QED BY <2>2, <2>3, <2>4
<1> QED BY <1>3, <1>4, <1>5, <1>6 DEF KHeapNext

\* A fresh memory is one free block.
LEMMA OneBlock ==
  ASSUME NEW H \in Nat, NEW L \in Nat, NEW n \in Nat, H + n = L, L > 0, NEW u \in BOOLEAN,
         NEW b, b = <<[base |-> 0, size |-> n, used |-> FALSE]>>
  PROVE  Books({}, b, H, L, u, IF u THEN 0 ELSE n) /\ Coalesced(b) /\ Len(b) = 1 /\ b # <<>>
<1> DEFINE x == [base |-> 0, size |-> n, used |-> FALSE]
           s == IF u THEN 0 ELSE n
<1>1. x \in Block /\ x.base = 0 /\ x.size = n /\ x.used = FALSE BY DEF Block
<1>2. b = <<x>> OBVIOUS
<1> HIDE DEF x
<1>3. b \in Seq(Block) /\ Len(b) = 1 /\ b[1] = x
  <2>1. <<x>> \in Seq(Block) /\ Len(<<x>>) = 1 /\ <<x>>[1] = x BY <1>1
  <2> QED BY <1>2, <2>1
<1>4. \A i \in 1 .. Len(b) : i = 1 BY <1>3
<1>5. Tiled(b, H, L)
  <2>1. 0 + H + n = L BY <1>1
  <2>2. H + n > 0 BY <1>1
  <2>3. b # <<>> BY <1>3
  <2> QED BY <1>1, <1>3, <1>4, <2>1, <2>2, <2>3 DEF Tiled, Tiles
<1>6. InUse(b) = {} BY <1>1, <1>3, <1>4 DEF InUse
<1>7. Served({}, b, H, L) BY <1>5, <1>6 DEF Served
<1>8. AddsUp(b, u, s)
  <2> DEFINE f == [k \in 0 .. 1 |-> IF k = 0 THEN 0 ELSE s]
  <2>1. s \in Int OBVIOUS
  <2> HIDE DEF s
  <2>2. f \in [0 .. 1 -> Int] /\ f[0] = 0 /\ f[1] = s BY <2>1
  <2>3. part_of(b[1], u) = s BY <1>1, <1>3 DEF part_of, s
  <2>4. \A k \in 1 .. 1 : k = 1 /\ k - 1 = 0 OBVIOUS
  <2> HIDE DEF f
  <2>5. f[1] = f[0] + part_of(b[1], u)
    <3>1. 0 + s = s BY <2>1
    <3> QED BY <2>2, <2>3, <3>1
  <2>6. Running(f, b, u, s) BY <1>3, <2>2, <2>4, <2>5 DEF Running
  <2> QED BY <2>6 DEF AddsUp
<1>9. Coalesced(b) BY <1>3 DEF Coalesced
<1> QED BY <1>3, <1>7, <1>8, <1>9 DEF Books

\* The heap starts as one free block.
LEMMA KStart == ASSUME KHeapInit PROVE KInv /\ OutOf(held) = {}
<1> DEFINE n == HEAP_SIZE - HEADER
<1>1. HEADER \in Nat /\ HEAP_SIZE \in Nat /\ n \in Nat /\ HEADER + n = HEAP_SIZE /\ HEAP_SIZE > 0
      /\ 0 + n + HEADER * 1 = HEAP_SIZE
  BY KHeapAssumption
<1>2. heap = <<[base |-> 0, size |-> n, used |-> FALSE]>> /\ held = {} BY DEF KHeapInit
<1>3. /\ stats.used_size = 0 /\ stats.free_size = n /\ stats.total_blocks = 1 /\ stats.used_blocks = 0
      /\ stats \in Stats
  BY <1>1 DEF KHeapInit, Stats
<1> HIDE DEF n
<1>4. /\ Books({}, heap, HEADER, HEAP_SIZE, FALSE, IF FALSE THEN 0 ELSE n) /\ Coalesced(heap) /\ Len(heap) = 1
  BY <1>1, <1>2, OneBlock
<1>5. OutOf(held) = {} BY <1>2 DEF OutOf
<1>6. Cardinality(held) = 0 BY <1>2, FS_EmptySet
<1>7. held \in SUBSET Handles BY <1>2
<1> QED BY <1>1, <1>3, <1>4, <1>5, <1>6, <1>7 DEF KInv, KGood
-----------------------------------------------------------------------------
(* The kernel's arena of virtual addresses: no headers.                    *)

Counts == [used : Int, free : Int, regions : Int, used_regions : Int]
AGood(b, s, g) ==
    /\ s \in Counts
    /\ Books(g, b, 0, ARENA_PAGES, TRUE, s.used) /\ Coalesced(b)
    /\ s.used + s.free = ARENA_PAGES
    /\ s.regions = Len(b)
    /\ s.used_regions = Cardinality(g)

\* Neighbours always touch, so a region is joined whenever both are free.
LEMMA MergesIs ==
  ASSUME NEW L \in Nat, NEW b, Tiled(b, 0, L), NEW i \in Int
  PROVE  merges(b, i) <=> i >= 1 /\ i < Len(b) /\ ~ b[i].used /\ ~ b[i + 1].used
<1> SUFFICES ASSUME i >= 1, i < Len(b), ~ b[i].used, ~ b[i + 1].used
             PROVE  b[i].base + b[i].size = b[i + 1].base
  BY DEF merges
<1>1. Len(b) \in Nat /\ b \in Seq(Block) BY DEF Tiled
<1>2. i \in 1 .. Len(b) /\ i # Len(b) BY <1>1
<1>3. b[i].base + 0 + b[i].size = b[i + 1].base BY <1>2 DEF Tiled, Tiles
<1>4. b[i].base \in Nat /\ b[i].size \in Nat BY <1>1, <1>2, BlockIs
<1> DEFINE x == b[i].base
           y == b[i].size
<1>5. x \in Nat /\ y \in Nat /\ x + 0 + y = b[i + 1].base BY <1>3, <1>4
<1> HIDE DEF x, y
<1>6. x + 0 + y = x + y BY <1>5
<1> QED BY <1>5, <1>6 DEF x, y

\* vmm_arena_free merges with the next region and then with the previous one.
LEMMA TwoMerges ==
  ASSUME NEW L \in Nat, NEW c, Tiled(c, 0, L), NEW i \in 1 .. Len(c), ~ c[i].used
  PROVE  merge_with_next(merge_with_next(c, i), i - 1) = healed(c, i, 0)
<1> DEFINE n == behind(c, i, 0)
<1>1. Len(c) \in Nat /\ c \in Seq(Block) /\ i \in Int /\ i >= 1 /\ 0 \in Nat BY DEF Tiled
<1>2. merges(c, i) <=> i < Len(c) /\ ~ c[i + 1].used BY <1>1, MergesIs
<1>3. merge_with_next(c, i) = n BY <1>2 DEF merge_with_next, behind
<1>4. Tiled(n, 0, L) /\ ~ n[i].used /\ i <= Len(n) /\ Len(n) \in Nat
  <2>1. CASE i < Len(c) /\ ~ c[i + 1].used
    <3>1. n = join(c, i, 0) BY <2>1 DEF behind
    <3>2. i \in 1 .. Len(c) - 1 BY <1>1, <2>1
    <3>3. IsJoin(n, c, i, 0) BY <1>1, <3>1, <3>2, JoinRelates
    <3> HIDE DEF n
    <3>4. Tiled(n, 0, L) BY <1>1, <3>3, JoinTiles
    <3>5. Len(n) = Len(c) - 1 /\ n[i].used = c[i].used BY <3>3 DEF IsJoin
    <3> QED BY <1>1, <3>2, <3>4, <3>5
  <2>2. CASE ~ (i < Len(c) /\ ~ c[i + 1].used)
    <3>1. n = c BY <2>2 DEF behind
    <3> QED BY <1>1, <3>1
  <2> QED BY <2>1, <2>2
<1>5. healed(c, i, 0) = IF i > 1 /\ ~ n[i - 1].used THEN join(n, i - 1, 0) ELSE n BY DEF healed
<1> HIDE DEF n
<1> DEFINE h == i - 1
<1>6. h \in Int /\ h + 1 = i /\ (h >= 1 <=> i > 1) /\ h < Len(n) BY <1>1, <1>4
<1> HIDE DEF h
<1>7. merges(n, h) <=> h >= 1 /\ h < Len(n) /\ ~ n[h].used /\ ~ n[h + 1].used
  BY <1>4, <1>6, MergesIs
<1>8. merges(n, h) <=> i > 1 /\ ~ n[h].used BY <1>4, <1>6, <1>7
<1>9. merge_with_next(n, h) = IF i > 1 /\ ~ n[h].used THEN join(n, h, 0) ELSE n
  BY <1>8 DEF merge_with_next
<1> QED BY <1>3, <1>5, <1>9 DEF h

\* An allocation in the virtual arena.
LEMMA ATake ==
  ASSUME NEW b, NEW s, NEW g, AGood(b, s, g), NEW n \in Nat \ {0},
         NEW i \in 1 .. Len(b), ~ b[i].used, b[i].size >= n
  PROVE  LET r == [at |-> b[i].base, len |-> n]
             t == [used |-> s.used + n, free |-> s.free - n,
                   regions |-> s.regions + (IF b[i].size > n THEN 1 ELSE 0),
                   used_regions |-> s.used_regions + 1]
         IN AGood(taken(b, i, n, 0, 1), t, g \cup {r}) /\ Fits(r, g, ARENA_PAGES)
<1> DEFINE L == ARENA_PAGES
           r == [at |-> b[i].base, len |-> n]
           t == taken(b, i, n, 0, 1)
           cut == b[i].size > n
           o == IF cut THEN 1 ELSE 0
           u == s.used
           f == s.free
           p == s.regions
           q == s.used_regions
           z == [used |-> u + n, free |-> f - n, regions |-> p + o, used_regions |-> q + 1]
           G == g \cup {r}
<1>1. L \in Nat /\ L > 0 /\ 0 \in Nat /\ 1 \in Nat BY VmmArenaAssumption
<1>2. /\ Books(g, b, 0, L, TRUE, u) /\ Coalesced(b) /\ u + f = L /\ p = Len(b) /\ q = Cardinality(g)
      /\ u \in Int /\ f \in Int /\ p \in Int /\ q \in Int
  BY DEF AGood, Counts
<1>3. b \in Seq(Block) /\ b[i].base \in Nat /\ b[i].size \in Nat /\ Len(b) \in Nat
      /\ Served(g, b, 0, L)
  BY <1>2, BlockIs DEF Books, Served, Tiled
<1>4. r = Ranges(b[i].base + 0, n)
  <2>1. b[i].base + 0 = b[i].base BY <1>3
  <2> QED BY <2>1 DEF Ranges
<1>5. splits(b[i], n, 0, 1) <=> cut
  <2> DEFINE y == b[i].size
  <2>1. y \in Nat /\ (splits(b[i], n, 0, 1) <=> y >= n + 0 + 1) BY <1>3 DEF splits
  <2> HIDE DEF y
  <2>2. y >= n + 0 + 1 <=> y > n BY <2>1
  <2> QED BY <2>1, <2>2 DEF y
<1>6. Given(r, g, t, Len(b) + o, 0, L, TRUE, u + n)
  <2>1. CASE cut
    <3>1. u + n = IF TRUE THEN u + n ELSE u - n - 0 OBVIOUS
    <3>2. n <= n /\ 0 + 1 > 0 /\ n \in Nat OBVIOUS
    <3> HIDE DEF u, r, t
    <3>3. Given(Ranges(b[i].base + 0, n), g, taken(b, i, n, 0, 1), Len(b) + 1, 0, L, TRUE, u + n)
      BY <1>1, <1>2, <1>5, <2>1, <3>1, <3>2, TakePart
    <3> QED BY <1>4, <2>1, <3>3 DEF t
  <2>2. CASE ~ cut
    <3>0. b[i].size = n
      <4> DEFINE y == b[i].size
      <4>1. y \in Nat /\ y >= n /\ ~ (y > n) BY <1>3, <2>2
      <4> HIDE DEF y
      <4>2. y = n BY <4>1
      <4> QED BY <4>2 DEF y
    <3>1. u + n = IF TRUE THEN u + b[i].size ELSE u - b[i].size BY <3>0
    <3>2. n <= n /\ n \in Nat /\ Len(b) + 0 = Len(b) BY <1>3
    <3> HIDE DEF u, r, t
    <3>3. Given(Ranges(b[i].base + 0, n), g, taken(b, i, n, 0, 1), Len(b), 0, L, TRUE, u + n)
      BY <1>1, <1>2, <1>5, <2>2, <3>1, <3>2, TakeWhole
    <3> QED BY <1>4, <2>2, <3>2, <3>3 DEF t
  <2> QED BY <2>1, <2>2
<1>7. o \in Int OBVIOUS
<1> HIDE DEF u, f, p, q, o, r, t, L
<1>8. u + n \in Int /\ f - n \in Int /\ p + o \in Int /\ q + 1 \in Int /\ (u + n) + (f - n) = L
  BY <1>1, <1>2, <1>7
<1>9. /\ z \in Counts /\ z.used = u + n /\ z.free = f - n /\ z.regions = p + o /\ z.used_regions = q + 1
  BY <1>8 DEF Counts
<1>10. IsFiniteSet(g) BY <1>1, <1>3, CountIs
<1>11. r \notin g BY <1>6 DEF Given, Fits
<1>12. Cardinality(G) = q + 1 BY <1>2, <1>10, <1>11, FS_AddElement
<1> HIDE DEF z, G
<1>13. AGood(t, z, G) BY <1>2, <1>6, <1>8, <1>9, <1>12 DEF AGood, Given, G, L
<1> QED BY <1>6, <1>13 DEF Given, r, t, z, u, f, p, q, o, G, L

\* A free in the virtual arena.
LEMMA AFree ==
  ASSUME NEW b, NEW s, NEW g, AGood(b, s, g), NEW r \in g
  PROVE  LET i == SelectInSeq(b, LAMBDA x : x.base = r.at /\ x.used)
             c == [b EXCEPT ![i].used = FALSE]
             m == merge_with_next(merge_with_next(c, i), i - 1)
             t == [used |-> s.used - b[i].size, free |-> s.free + b[i].size,
                   regions |-> s.regions - (Len(c) - Len(m)), used_regions |-> s.used_regions - 1]
         IN AGood(m, t, g \ {r})
<1> DEFINE L == ARENA_PAGES
           I == {j \in 1 .. Len(b) : b[j].base = r.at /\ b[j].used}
           i == SelectInSeq(b, LAMBDA x : x.base = r.at /\ x.used)
           c == [b EXCEPT ![i].used = FALSE]
           m == merge_with_next(merge_with_next(c, i), i - 1)
           y == b[i].size
           d == Len(c) - Len(m)
           u == s.used
           f == s.free
           p == s.regions
           q == s.used_regions
           z == [used |-> u - y, free |-> f + y, regions |-> p - d, used_regions |-> q - 1]
           G == g \ {r}
<1>1. L \in Nat /\ L > 0 /\ 0 \in Nat BY VmmArenaAssumption
<1>2. /\ Books(g, b, 0, L, TRUE, u) /\ Coalesced(b) /\ u + f = L /\ p = Len(b) /\ q = Cardinality(g)
      /\ u \in Int /\ f \in Int /\ p \in Int /\ q \in Int
  BY DEF AGood, Counts
<1>3. b \in Seq(Block) /\ Len(b) \in Nat /\ Served(g, b, 0, L) /\ Tiled(b, 0, L)
  BY <1>2 DEF Books, Served, Tiled
<1>4. i \in 1 .. Len(b) /\ b[i].base = r.at /\ b[i].used
  <2>1. i = IF I # {} THEN Min(I) ELSE 0 BY DEF SelectInSeq
  <2>2. \E j \in 1 .. Len(b) : b[j].base = r.at /\ b[j].used
    <3> DEFINE k == block_at(b, r.at - 0)
    <3>1. k \in 1 .. Len(b) /\ b[k].used /\ b[k].base + 0 = r.at BY <1>1, <1>3, Finds
    <3> HIDE DEF k
    <3>2. b[k].base \in Nat BY <1>3, <3>1, BlockIs
    <3>3. b[k].base = r.at BY <3>1, <3>2
    <3> QED BY <3>1, <3>3
  <2>3. I # {} /\ I \in SUBSET Nat BY <2>2
  <2> HIDE DEF I, i
  <2>4. i \in I BY <2>1, <2>3, LeastIs
  <2> QED BY <2>4 DEF I
<1> HIDE DEF i, I
<1>5. y \in Nat /\ b[i].base + 0 = r.at
  <2>1. b[i].size \in Nat /\ b[i].base \in Nat BY <1>3, <1>4, BlockIs
  <2> QED BY <1>4, <2>1
<1>6. IsMark(c, b, i, FALSE) BY <1>3, <1>4, MarkRelates
<1>7. Tiled(c, 0, L) /\ i \in 1 .. Len(c) /\ ~ c[i].used /\ Len(c) = Len(b)
  <2>1. Tiled(c, 0, L) BY <1>1, <1>3, <1>6, MarkTiles
  <2> QED BY <1>4, <1>6, <2>1 DEF IsMark
<1>8. m = healed(c, i, 0) BY <1>1, <1>7, TwoMerges
<1>9. Mended(G, m, Len(b), 0, L, TRUE, u - y)
  <2>1. u - y = IF TRUE THEN u - b[i].size ELSE u + b[i].size OBVIOUS
  <2> HIDE DEF u
  <2>2. Mended(g \ {r}, healed(c, i, 0), Len(b), 0, L, TRUE, IF TRUE THEN u - b[i].size ELSE u + b[i].size)
    BY <1>1, <1>2, <1>4, <1>5, Frees
  <2> HIDE DEF c, m, y
  <2> QED BY <1>8, <2>1, <2>2
<1>10. PICK e \in 0 .. 2 : /\ Len(m) = Len(b) - e /\ Len(m) \in Nat
                           /\ Books(G, m, 0, L, TRUE, (u - y) + e * 0) /\ Coalesced(m)
  <2> HIDE DEF m, y, u, G
  <2> QED BY <1>9 DEF Mended
<1> HIDE DEF c, m, y, u, f, p, q, L
<1>11. /\ (u - y) + e * 0 = u - y /\ u - y \in Int /\ f + y \in Int /\ q - 1 \in Int
       /\ d \in Int /\ p - d \in Int /\ p - d = Len(m) /\ (u - y) + (f + y) = L
  BY <1>1, <1>2, <1>3, <1>5, <1>7, <1>10
<1> HIDE DEF d
<1>12. z \in Counts /\ z.used = u - y /\ z.free = f + y /\ z.regions = p - d /\ z.used_regions = q - 1
  BY <1>11 DEF Counts
<1>13. IsFiniteSet(g) BY <1>1, <1>3, CountIs
<1>14. Cardinality(G) = q - 1 BY <1>2, <1>13, FS_RemoveElement
<1> HIDE DEF z, G
<1>15. AGood(m, z, G) BY <1>10, <1>11, <1>12, <1>14 DEF AGood, L
<1> QED BY <1>15 DEF i, c, m, z, y, d, u, f, p, q, G

AInv == AGood(arena, counts, leases)

\* Every step of the arena keeps its invariant and is allowed.
LEMMA AStep ==
  ASSUME AInv, [VmmArenaNext]_avars
  PROVE  AInv' /\ Steps(leases, leases', ARENA_PAGES)
<1>1. AGood(arena, counts, leases) BY DEF AInv
<1>2. CASE UNCHANGED avars
  <2>1. arena' = arena /\ counts' = counts /\ leases' = leases BY <1>2 DEF avars
  <2> QED BY <1>1, <2>1 DEF AInv, Steps
<1>3. ASSUME NEW n \in PageCounts, vmm_alloc(n)
      PROVE AInv' /\ Steps(leases, leases', ARENA_PAGES)
  <2> DEFINE i == first_fit(arena, n)
             r == [at |-> arena[i].base, len |-> n]
             t == [used |-> counts.used + n, free |-> counts.free - n,
                   regions |-> counts.regions + (IF arena[i].size > n THEN 1 ELSE 0),
                   used_regions |-> counts.used_regions + 1]
  <2>1. /\ n > 0 /\ i > 0 /\ arena' = taken(arena, i, n, 0, 1) /\ counts' = t /\ leases' = leases \cup {r}
    BY <1>3 DEF vmm_alloc
  <2>2. n \in Nat /\ n \in Nat \ {0} BY <2>1, VmmArenaAssumption
  <2>3. arena \in Seq(Block) BY <1>1 DEF AGood, Books, Served, Tiled
  <2>4. i # 0 BY <2>1
  <2>5. i \in 1 .. Len(arena) /\ ~ arena[i].used /\ arena[i].size >= n
    BY <2>2, <2>3, <2>4, FirstFit
  <2> HIDE DEF i
  <2>6. AGood(taken(arena, i, n, 0, 1), t, leases \cup {r}) /\ Fits(r, leases, ARENA_PAGES)
    BY <1>1, <2>2, <2>5, ATake
  <2> HIDE DEF t, r
  <2>7. Steps(leases, leases \cup {r}, ARENA_PAGES) BY <2>6 DEF Steps, Fits
  <2> QED BY <2>1, <2>6, <2>7 DEF AInv
<1>4. ASSUME NEW r \in leases, vmm_free(r) PROVE AInv' /\ Steps(leases, leases', ARENA_PAGES)
  <2> DEFINE i == SelectInSeq(arena, LAMBDA x : x.base = r.at /\ x.used)
             c == [arena EXCEPT ![i].used = FALSE]
             m == merge_with_next(merge_with_next(c, i), i - 1)
             t == [used |-> counts.used - arena[i].size, free |-> counts.free + arena[i].size,
                   regions |-> counts.regions - (Len(c) - Len(m)), used_regions |-> counts.used_regions - 1]
  <2>1. arena' = m /\ counts' = t /\ leases' = leases \ {r} BY <1>4 DEF vmm_free
  <2>2. AGood(m, t, leases \ {r}) BY <1>1, AFree
  <2> HIDE DEF m, t
  <2>3. Steps(leases, leases \ {r}, ARENA_PAGES) BY DEF Steps
  <2> QED BY <2>1, <2>2, <2>3 DEF AInv
<1> QED BY <1>2, <1>3, <1>4 DEF VmmArenaNext

\* The arena starts as one free region.
LEMMA AStart == ASSUME VmmArenaInit PROVE AInv /\ leases = {}
<1> DEFINE n == ARENA_PAGES
<1>1. n \in Nat /\ 0 \in Nat /\ n > 0 /\ 0 + n = n BY VmmArenaAssumption
<1>2. arena = <<[base |-> 0, size |-> n, used |-> FALSE]>> /\ leases = {} BY DEF VmmArenaInit
<1>3. /\ counts.used = 0 /\ counts.free = n /\ counts.regions = 1 /\ counts.used_regions = 0
      /\ counts \in Counts
  BY <1>1 DEF VmmArenaInit, Counts
<1> HIDE DEF n
<1>4. /\ Books({}, arena, 0, n, TRUE, IF TRUE THEN 0 ELSE n) /\ Coalesced(arena) /\ Len(arena) = 1
  BY <1>1, <1>2, OneBlock
<1>5. Cardinality(leases) = 0 BY <1>2, FS_EmptySet
<1> QED BY <1>1, <1>2, <1>3, <1>4, <1>5 DEF AInv, AGood, n
-----------------------------------------------------------------------------
(* malloc of the C library: the sweep of free.                             *)

\* The loop has come to block s.at: in front of it no two free blocks lie
\* side by side, and n of the list's first N blocks are behind it.
States == [list : Seq(Block), at : Nat]
Swept(s, n, N, O) ==
    /\ s \in States /\ s.at >= 1 /\ Len(s.list) - s.at = N - 1 - n
    /\ \E z \in Int : Books(O, s.list, BLOCK, ARENA_SIZE, TRUE, z)
    /\ \A k \in 1 .. s.at - 1 : s.list[k].used \/ s.list[k + 1].used

\* One turn of the coalescing loop of free.
LEMMA SweepTurn ==
  ASSUME NEW s, NEW n \in Nat, NEW N \in Nat, NEW O, Swept(s, n, N, O), n < N - 1
  PROVE  Swept(sweep_turn(s), n + 1, N, O)
<1> DEFINE b == s.list
           i == s.at
           t == sweep_turn(s)
<1>1. BLOCK \in Nat /\ ARENA_SIZE \in Nat /\ TRUE \in BOOLEAN BY LibcHeapAssumption
<1>2. /\ b \in Seq(Block) /\ i \in Nat /\ i >= 1 /\ Len(b) - i = N - 1 - n /\ Len(b) \in Nat
      /\ \A k \in 1 .. i - 1 : b[k].used \/ b[k + 1].used
  BY DEF Swept, States
<1>3. PICK z \in Int : Books(O, b, BLOCK, ARENA_SIZE, TRUE, z) BY DEF Swept
<1>4. i \in 1 .. Len(b) - 1 BY <1>2
<1>5. CASE ~ b[i].used /\ ~ b[i + 1].used
  <2> DEFINE j == join(b, i, BLOCK)
  <2>1. t = [list |-> j, at |-> i] BY <1>5 DEF sweep_turn
  <2> HIDE DEF b, i
  <2>2. IsJoin(j, b, i, BLOCK) BY <1>1, <1>2, <1>4, JoinRelates
  <2> HIDE DEF j, t
  <2>3. /\ Len(j) = Len(b) - 1 /\ j \in Seq(Block) /\ j[i].used = b[i].used
        /\ \A k \in 1 .. Len(b) - 1 : k < i => j[k] = b[k]
    BY <2>2 DEF IsJoin
  <2>4. Books(O, j, BLOCK, ARENA_SIZE, TRUE, z + 0)
    <3>1. Served(O, j, BLOCK, ARENA_SIZE) BY <1>1, <1>3, <1>5, <2>2, Joins DEF Books
    <3>2. AddsUp(j, TRUE, z + (IF TRUE THEN 0 ELSE BLOCK))
      BY <1>1, <1>3, <1>5, <2>2, JoinAdds DEF Books
    <3> QED BY <3>1, <3>2 DEF Books
  <2>5. z + 0 \in Int OBVIOUS
  <2>6. ASSUME NEW k \in 1 .. i - 1 PROVE j[k].used \/ j[k + 1].used
    <3>1. k \in 1 .. Len(b) - 1 /\ k + 1 \in 1 .. Len(b) - 1 /\ k < i /\ (k + 1 < i \/ k + 1 = i)
      BY <1>2, <1>4
    <3>2. j[k] = b[k] /\ j[k + 1].used = b[k + 1].used BY <2>3, <3>1
    <3> QED BY <1>2, <3>2
  <2>7. Len(j) - i = N - 1 - (n + 1) BY <1>2, <2>3
  <2>8. t \in States /\ t.list = j /\ t.at = i BY <1>2, <2>1, <2>3 DEF States
  <2>9. \E y \in Int : Books(O, j, BLOCK, ARENA_SIZE, TRUE, y) BY <2>4, <2>5
  <2> QED BY <1>2, <2>6, <2>7, <2>8, <2>9 DEF Swept, t
<1>6. CASE ~ (~ b[i].used /\ ~ b[i + 1].used)
  <2>1. t = [list |-> b, at |-> i + 1] BY <1>6 DEF sweep_turn
  <2> HIDE DEF b, i, t
  <2>2. t \in States /\ t.list = b /\ t.at = i + 1 BY <1>2, <2>1 DEF States
  <2>3. Len(b) - (i + 1) = N - 1 - (n + 1) /\ (i + 1) - 1 = i /\ i + 1 >= 1 BY <1>2
  <2>4. \A k \in 1 .. i : k \in 1 .. i - 1 \/ k = i BY <1>2
  <2>5. \A k \in 1 .. i : b[k].used \/ b[k + 1].used BY <1>2, <1>6, <2>4
  <2> QED BY <1>3, <2>2, <2>3, <2>5 DEF Swept, t
<1> QED BY <1>5, <1>6

\* The whole loop leaves the same ranges in use.
LEMMA SweepIs ==
  ASSUME NEW c, NEW O, NEW z \in Int, Books(O, c, BLOCK, ARENA_SIZE, TRUE, z)
  PROVE  /\ Coalesced(sweep(c)) /\ sweep(c) # <<>>
         /\ \E y \in Int : Books(O, sweep(c), BLOCK, ARENA_SIZE, TRUE, y)
<1> DEFINE N == Len(c)
           n == N - 1
           s0 == [list |-> c, at |-> 1]
           Trace(f, m) == /\ f \in [0 .. m -> States] /\ f[0] = s0
                          /\ \A k \in 1 .. m : f[k] = sweep_turn(f[k - 1])
                          /\ \A k \in 0 .. m : Swept(f[k], k, N, O)
           Is(f) == f = [k \in 0 .. n |-> IF k = 0 THEN s0 ELSE sweep_turn(f[k - 1])]
           g == CHOOSE f : Is(f)
<1>1. c \in Seq(Block) /\ c # <<>> BY DEF Books, Served, Tiled, Tiles
<1>2. N \in Nat /\ N >= 1 BY <1>1
<1>3. Swept(s0, 0, N, O)
  <2>1. s0 \in States /\ s0.list = c /\ s0.at = 1 BY <1>1 DEF States
  <2>2. Len(c) - 1 = N - 1 - 0 BY <1>2
  <2>3. \A k \in 1 .. s0.at - 1 : FALSE BY <2>1
  <2>4. \E y \in Int : Books(O, s0.list, BLOCK, ARENA_SIZE, TRUE, y) BY <2>1
  <2>5. s0.at >= 1 /\ Len(s0.list) - s0.at = N - 1 - 0 BY <2>1, <2>2
  <2> HIDE DEF s0, N
  <2> QED BY <2>1, <2>3, <2>4, <2>5 DEF Swept
<1> HIDE DEF s0, N
<1>4. n \in Nat BY <1>2
<1> HIDE DEF n
<1>5. \A m \in 0 .. n : \E f : Trace(f, m)
  <2> DEFINE B == {m \in 0 .. n : ~ \E f : Trace(f, m)}
  <2> SUFFICES ASSUME B # {} PROVE FALSE OBVIOUS
  <2>1. B \in SUBSET Nat OBVIOUS
  <2>2. PICK m \in B : \A k \in B : m <= k BY <2>1, LeastNumber
  <2>3. m # 0
    <3> SUFFICES Trace([k \in 0 .. 0 |-> s0], 0) OBVIOUS
    <3>1. s0 \in States BY <1>3 DEF Swept
    <3>2. \A k \in 0 .. 0 : k = 0 OBVIOUS
    <3> QED BY <1>3, <3>1, <3>2
  <2> DEFINE h == m - 1
  <2>4. h \in 0 .. n /\ h \notin B /\ h + 1 = m /\ m \in 0 .. n
    <3>1. m \in 0 .. n OBVIOUS
    <3>2. h \in 0 .. n /\ h + 1 = m /\ ~ (m <= h) BY <1>4, <2>3, <3>1
    <3> HIDE DEF h, B
    <3> QED BY <2>2, <3>1, <3>2
  <2>5. PICK f : Trace(f, h) BY <2>4
  <2> DEFINE e == sweep_turn(f[h])
             w == [k \in 0 .. m |-> IF k = m THEN e ELSE f[k]]
  <2>6. Swept(e, m, N, O)
    <3>1. Swept(f[h], h, N, O) BY <2>4, <2>5
    <3>2. h \in Nat /\ h < N - 1 BY <1>4, <2>4 DEF n
    <3> HIDE DEF h
    <3>3. Swept(e, h + 1, N, O) BY <1>2, <3>1, <3>2, SweepTurn
    <3> QED BY <2>4, <3>3
  <2> HIDE DEF h, B
  <2>7. w \in [0 .. m -> States]
    <3>1. e \in States BY <2>6 DEF Swept
    <3>2. \A k \in 0 .. m : k = m \/ k \in 0 .. h BY <2>4
    <3>3. \A k \in 0 .. h : f[k] \in States BY <2>5
    <3> HIDE DEF e
    <3> QED BY <3>1, <3>2, <3>3
  <2>8. \A k \in 0 .. h : w[k] = f[k] BY <2>4
  <2>9. w[0] = s0 BY <2>4, <2>5, <2>8
  <2>10. w[m] = e BY <2>4
  <2> HIDE DEF w
  <2>11. ASSUME NEW k \in 1 .. m PROVE w[k] = sweep_turn(w[k - 1])
    <3>1. CASE k = m
      <4>1. k - 1 = h /\ h \in 0 .. h BY <2>4, <3>1
      <4> QED BY <2>8, <2>10, <3>1, <4>1
    <3>2. CASE k # m
      <4>1. k \in 1 .. h /\ k \in 0 .. h /\ k - 1 \in 0 .. h BY <2>4, <3>2
      <4> QED BY <2>5, <2>8, <4>1
    <3> QED BY <3>1, <3>2
  <2>12. \A k \in 0 .. m : Swept(w[k], k, N, O)
    <3>1. \A k \in 0 .. m : k = m \/ k \in 0 .. h BY <2>4
    <3> QED BY <2>5, <2>6, <2>8, <2>10, <3>1
  <2>13. Trace(w, m) BY <2>7, <2>9, <2>11, <2>12
  <2>14. ~ \E x : Trace(x, m) BY <2>2 DEF B
  <2> QED BY <2>13, <2>14
<1>6. PICK f : Trace(f, n)
  <2>1. n \in 0 .. n BY <1>4
  <2> HIDE DEF Trace
  <2> QED BY <1>5, <2>1
<1>7. Is(f)
  <2> DEFINE e == [k \in 0 .. n |-> IF k = 0 THEN s0 ELSE sweep_turn(f[k - 1])]
  <2>1. \A k \in 0 .. n : k = 0 \/ k \in 1 .. n BY <1>4
  <2>2. \A k \in 0 .. n : f[k] = e[k] BY <1>6, <2>1
  <2>3. f = e BY <1>6, <2>2
  <2> QED BY <2>3
<1>8. Is(g) BY <1>7
<1> HIDE DEF g
<1>9. g[n] = f[n]
  <2> DEFINE B == {k \in 0 .. n : g[k] # f[k]}
  <2> SUFFICES ASSUME B # {} PROVE FALSE BY <1>4
  <2>1. B \in SUBSET Nat OBVIOUS
  <2>2. PICK k \in B : \A l \in B : k <= l BY <2>1, LeastNumber
  <2>3. g[0] = s0 /\ f[0] = s0 BY <1>4, <1>6, <1>8
  <2>4. k \in 1 .. n /\ k - 1 \in 0 .. n /\ k - 1 \notin B BY <1>4, <2>2, <2>3
  <2>5. g[k - 1] = f[k - 1] BY <2>4
  <2>6. f[k] = sweep_turn(f[k - 1]) BY <1>6, <2>4
  <2>7. g[k] = sweep_turn(g[k - 1])
    <3>1. k \in 0 .. n /\ k # 0 BY <2>4
    <3> QED BY <1>8, <3>1
  <2> QED BY <2>2, <2>5, <2>6, <2>7
<1>10. sweep(c) = g[n].list BY DEF sweep, g, n, N, s0
<1>11. Swept(f[n], n, N, O) BY <1>4, <1>6
<1> DEFINE t == f[n]
           b == t.list
<1>12. /\ t \in States /\ Len(b) - t.at = N - 1 - n
       /\ \E y \in Int : Books(O, b, BLOCK, ARENA_SIZE, TRUE, y)
       /\ \A k \in 1 .. t.at - 1 : b[k].used \/ b[k + 1].used
  BY <1>11 DEF Swept
<1>13. b \in Seq(Block) /\ t.at \in Nat BY <1>12 DEF States
<1> HIDE DEF t
<1>14. t.at = Len(b)
  <2>1. N - 1 - n = 0 BY <1>2 DEF n
  <2>2. Len(b) \in Nat BY <1>13
  <2> QED BY <1>12, <1>13, <2>1, <2>2
<1>15. b # <<>> BY <1>12 DEF Books, Served, Tiled, Tiles
<1>16. Coalesced(b) BY <1>12, <1>14 DEF Coalesced
<1>17. sweep(c) = b BY <1>9, <1>10 DEF t
<1> QED BY <1>12, <1>15, <1>16, <1>17

-----------------------------------------------------------------------------
(* malloc, calloc, free, realloc.                                          *)

LGood(b, g) ==
    /\ g \in SUBSET Handles
    /\ \/ b = <<>> /\ g = {}
       \/ \E s \in Int : Books(OutOf(g), b, BLOCK, ARENA_SIZE, TRUE, s) /\ Coalesced(b)

\* What can be asked for: a size, or a product that calloc accepts.  Rounding
\* it up must stay within a size_t, true of every size but the last few.
Askable == {n \in Nat : n <= SIZE_MAX /\ (n \in Sizes \/ \E c, d \in Sizes : n = c * d)}
NoWrap == \A n \in Askable : round_up(n, MALLOC_ALIGNMENT) <= SIZE_MAX

\* A number below the modulus is its own remainder.
LEMMA SmallMod ==
  ASSUME NEW x \in Nat, NEW m \in Nat, x <= m
  PROVE  x % (m + 1) = x
<1> DEFINE d == m + 1
           q == x \div d
           r == x % d
<1>1. d \in Nat \ {0} /\ x < d OBVIOUS
<1> HIDE DEF d
<1>2. q \in Nat /\ r \in 0 .. d - 1 /\ x = d * q + r BY <1>1
<1> HIDE DEF q, r
<1>3. q = 0
  <2> SUFFICES ASSUME q >= 1 PROVE FALSE BY <1>2
  <2>1. d * q >= d
    <3>1. PICK p \in Nat : q = p + 1
      <4>1. q - 1 \in Nat /\ q = (q - 1) + 1 BY <1>2
      <4> QED BY <4>1
    <3>2. d * q = d * p + d /\ d * p \in Nat BY <1>1, <3>1
    <3> DEFINE v == d * p
    <3> HIDE DEF v
    <3> QED BY <1>1, <3>2 DEF v
  <2> DEFINE v == d * q
  <2>2. v \in Nat /\ v >= d /\ x = v + r BY <1>1, <1>2, <2>1
  <2> HIDE DEF v
  <2> QED BY <1>1, <1>2, <2>2
<1>4. d * 0 = 0 BY <1>1
<1>5. x = r BY <1>2, <1>3, <1>4
<1> QED BY <1>5 DEF r, d

\* malloc of the user library takes a block, or refuses.
LEMMA LMalloc ==
  ASSUME NEW b, NEW g, LGood(b, g),
         NEW asked \in Nat, round_up(asked, MALLOC_ALIGNMENT) <= SIZE_MAX,
         NEW mapped \in BOOLEAN
  PROVE  LET m == malloc(b, asked, mapped)
             h == [ptr |-> m.ptr, asked |-> asked]
         IN \/ m.ptr = -1 /\ LGood(m.list, g)
            \/ /\ asked > 0 /\ m.ptr \in Nat /\ h \notin g /\ LGood(m.list, g \cup {h})
               /\ Fits(range_of(h), OutOf(g), ARENA_SIZE)
<1> DEFINE a == IF asked = 0 THEN b ELSE heap_init(b, mapped)
           size == align_size(asked)
           i == first_fit(a, size)
           m == malloc(b, asked, mapped)
           L == ARENA_SIZE
           H == BLOCK
           A == MALLOC_ALIGNMENT
<1>1. H \in Nat /\ H > 0 /\ L \in Nat /\ L > H /\ SIZE_MAX \in Nat /\ A \in Nat \ {0} /\ A \in Nat /\ H + A > 0
      /\ TRUE \in BOOLEAN
  BY LibcHeapAssumption
<1>2. LGood(a, g)
  <2>1. CASE a = b BY <2>1
  <2>2. CASE a # b
    <3> DEFINE n == L - H
    <3>1. b = <<>> /\ a = <<[base |-> 0, size |-> n, used |-> FALSE]>> BY <2>2 DEF heap_init
    <3>2. g = {}
      <4> SUFFICES ASSUME NEW s \in Int, Books(OutOf(g), b, H, L, TRUE, s)
                   PROVE FALSE BY DEF LGood
      <4> QED BY <3>1 DEF Books, Served, Tiled, Tiles
    <3>3. n \in Nat /\ H + n = L /\ L > 0 BY <1>1
    <3> HIDE DEF n, a
    <3>4. Books({}, a, H, L, TRUE, IF TRUE THEN 0 ELSE n) /\ Coalesced(a)
      BY <1>1, <3>1, <3>3, OneBlock
    <3>5. OutOf(g) = {} BY <3>2 DEF OutOf
    <3>6. 0 \in Int OBVIOUS
    <3> QED BY <3>2, <3>4, <3>5, <3>6 DEF LGood
  <2> QED BY <2>1, <2>2
<1>3. CASE asked = 0 \/ i = 0
  <2>1. m = [list |-> a, ptr |-> -1] BY <1>3 DEF malloc
  <2> HIDE DEF a, m
  <2>2. m.list = a /\ m.ptr = -1 BY <2>1
  <2> QED BY <1>2, <2>2 DEF m
<1>4. CASE asked # 0 /\ i # 0
  <2>1. m = [list |-> taken(a, i, size, H, A), ptr |-> a[i].base + H]
    BY <1>4 DEF malloc, split_block
  <2>2. size \in Nat /\ asked <= size
    <3> DEFINE w == round_up(asked, A)
    <3>1. w \in Nat /\ w >= asked /\ w <= SIZE_MAX BY <1>1, Rounds
    <3>2. size = w % (SIZE_MAX + 1) BY DEF align_size
    <3> HIDE DEF w
    <3>3. w % (SIZE_MAX + 1) = w BY <1>1, <3>1, SmallMod
    <3> QED BY <3>1, <3>2, <3>3
  <2> HIDE DEF size
  <2>3. asked \in Nat \ {0} BY <1>4
  <2>4. a # <<>>
    <3> SUFFICES ASSUME a = <<>> PROVE FALSE OBVIOUS
    <3>1. <<>> \in Seq(Block) /\ Len(<<>>) = 0 OBVIOUS
    <3> HIDE DEF a
    <3>2. i \in 1 .. Len(<<>>) BY <1>4, <2>2, <3>1, FirstFit
    <3> QED BY <3>1, <3>2
  <2> DEFINE O == OutOf(g)
  <2>5. PICK s \in Int : Books(O, a, H, L, TRUE, s) /\ Coalesced(a) BY <1>2, <2>4 DEF LGood
  <2>6. a \in Seq(Block) BY <2>5 DEF Books, Served, Tiled
  <2> HIDE DEF a
  <2>7. i \in 1 .. Len(a) /\ ~ a[i].used /\ a[i].size >= size BY <1>4, <2>2, <2>6, FirstFit
  <2> HIDE DEF i, m
  <2> DEFINE h == [ptr |-> a[i].base + H, asked |-> asked]
             r == Ranges(a[i].base + H, asked)
             t == taken(a, i, size, H, A)
             y == a[i].size
  <2>8. y \in Nat /\ a[i].base \in Nat BY <2>6, <2>7, BlockIs
  <2>9. h \in Handles /\ range_of(h) = r /\ h.ptr \in Nat
    BY <1>1, <2>3, <2>8 DEF Handles, range_of, Ranges
  <2>10. \E z \in Int : Given(r, O, t, Len(t), H, L, TRUE, z)
    <3>1. CASE splits(a[i], size, H, A)
      <4>1. s + size = IF TRUE THEN s + size ELSE s - size - H OBVIOUS
      <4> HIDE DEF O, H, A, L
      <4>2. Given(r, O, t, Len(a) + 1, H, L, TRUE, s + size)
        BY <1>1, <2>2, <2>3, <2>5, <2>7, <3>1, <4>1, TakePart
      <4>3. Given(r, O, t, Len(t), H, L, TRUE, s + size) BY <4>2 DEF Given
      <4>4. s + size \in Int BY <2>2
      <4> QED BY <4>3, <4>4
    <3>2. CASE ~ splits(a[i], size, H, A)
      <4>1. s + a[i].size = IF TRUE THEN s + a[i].size ELSE s - a[i].size OBVIOUS
      <4> HIDE DEF O, H, A, L
      <4>2. Given(r, O, t, Len(a), H, L, TRUE, s + a[i].size)
        BY <1>1, <2>2, <2>3, <2>5, <2>7, <3>2, <4>1, TakeWhole
      <4>3. Given(r, O, t, Len(t), H, L, TRUE, s + y) BY <4>2 DEF Given
      <4> HIDE DEF y, r, t
      <4>4. s + y \in Int BY <2>8
      <4> QED BY <4>3, <4>4
    <3> QED BY <3>1, <3>2
  <2>11. PICK z \in Int : Given(r, O, t, Len(t), H, L, TRUE, z) BY <2>10
  <2>12. m.list = t /\ m.ptr = h.ptr /\ [ptr |-> m.ptr, asked |-> asked] = h BY <2>1
  <2> HIDE DEF h, r, t
  <2>13. h \notin g
    <3> SUFFICES ASSUME h \in g PROVE FALSE OBVIOUS
    <3>1. r \in O BY <2>9 DEF OutOf
    <3> QED BY <2>11, <3>1 DEF Given, Fits
  <2>14. OutOf(g \cup {h}) = O \cup {r} BY <2>9, OutAdds
  <2>15. LGood(t, g \cup {h}) BY <1>2, <2>9, <2>11, <2>14 DEF LGood, Given
  <2>16. Fits(range_of(h), OutOf(g), L) BY <2>9, <2>11 DEF Given
  <2> QED BY <2>3, <2>9, <2>12, <2>13, <2>15, <2>16 DEF m
<1> QED BY <1>3, <1>4

\* free of the user library, with its sweep.
LEMMA LFree ==
  ASSUME NEW b, NEW g, LGood(b, g), NEW h \in g
  PROVE  LGood(free(b, h.ptr), g \ {h}) /\ free(b, h.ptr) # <<>>
<1> DEFINE L == ARENA_SIZE
           H == BLOCK
           O == OutOf(g)
           r == range_of(h)
           i == block_at(b, h.ptr - H)
           c == [b EXCEPT ![i].used = FALSE]
           G == g \ {h}
<1>1. H \in Nat /\ L \in Nat /\ TRUE \in BOOLEAN BY LibcHeapAssumption
<1>2. g \in SUBSET Handles BY DEF LGood
<1>3. PICK s \in Int : Books(O, b, H, L, TRUE, s) /\ Coalesced(b) BY DEF LGood
<1>4. b \in Seq(Block) /\ Served(O, b, H, L) BY <1>3 DEF Books, Served, Tiled
<1>5. r \in O /\ r.at = h.ptr BY DEF OutOf, range_of
<1>6. i \in 1 .. Len(b) /\ b[i].used /\ b[i].base + H = r.at
  <2> HIDE DEF r, O, H
  <2>1. LET k == block_at(b, r.at - H) IN k \in 1 .. Len(b) /\ b[k].used /\ b[k].base + H = r.at
    BY <1>1, <1>4, <1>5, Finds
  <2> QED BY <1>5, <2>1
<1>7. OutOf(G) = O \ {r} BY <1>2, OutLoses
<1>8. free(b, h.ptr) = sweep(c) BY DEF free
<1> HIDE DEF i, r, O
<1>9. IsMark(c, b, i, FALSE) BY <1>4, <1>6, MarkRelates
<1> HIDE DEF c
<1>10. Served(O \ {r}, c, H, L) BY <1>1, <1>4, <1>5, <1>6, <1>9, Gives
<1> DEFINE y == b[i].size
<1>11. y \in Nat BY <1>4, <1>6, BlockIs
<1>12. AddsUp(c, TRUE, s - y)
  <2>1. b[i].used = ~ FALSE
    <3>1. b[i].used \in BOOLEAN BY <1>4, <1>6, BlockIs
    <3> QED BY <1>6, <3>1
  <2>2. AddsUp(c, TRUE, IF TRUE = FALSE THEN s + b[i].size ELSE s - b[i].size)
    BY <1>1, <1>3, <1>9, <2>1, MarkAdds DEF Books
  <2> QED BY <2>2
<1> HIDE DEF y
<1>13. s - y \in Int BY <1>11
<1>14. Books(O \ {r}, c, H, L, TRUE, s - y) BY <1>10, <1>12 DEF Books
<1>15. /\ Coalesced(sweep(c)) /\ sweep(c) # <<>>
       /\ \E z \in Int : Books(O \ {r}, sweep(c), H, L, TRUE, z)
  BY <1>13, <1>14, SweepIs
<1>16. G \in SUBSET Handles BY <1>2
<1> HIDE DEF G
<1>17. LGood(sweep(c), G) BY <1>7, <1>15, <1>16 DEF LGood
<1> QED BY <1>8, <1>15, <1>17 DEF G

\* A product that calloc accepts is the product.
LEMMA TotalFits ==
  ASSUME NEW c \in Nat, NEW n \in Nat, calloc_total(c, n) >= 0
  PROVE  calloc_total(c, n) = c * n /\ c * n \in Nat /\ c * n <= SIZE_MAX
<1> DEFINE M == SIZE_MAX
           p == c * n
<1>1. M \in Nat /\ p \in Nat BY LibcHeapAssumption
<1>2. p <= M /\ calloc_total(c, n) = p % (M + 1)
  <2>1. CASE n = 0
    <3>1. p = 0 BY <2>1
    <3>2. calloc_total(c, n) = p % (M + 1) BY <2>1 DEF calloc_total
    <3> HIDE DEF p, M
    <3> QED BY <1>1, <3>1, <3>2
  <2>2. CASE n # 0
    <3> DEFINE q == M \div n
               e == M % n
    <3>1. n \in Nat \ {0} BY <2>2
    <3>2. ~ (c > q) /\ calloc_total(c, n) = p % (M + 1)
      <4>1. calloc_total(c, n) = IF c > q THEN -1 ELSE p % (M + 1) BY <2>2 DEF calloc_total
      <4>2. ~ (-1 >= 0) OBVIOUS
      <4> HIDE DEF p, M, q
      <4> QED BY <4>1, <4>2
    <3> HIDE DEF M
    <3>3. q \in Nat /\ e \in Nat /\ M = n * q + e BY <1>1, <3>1
    <3> HIDE DEF q, e
    <3>4. PICK d \in Nat : q = c + d
      <4>1. q - c \in Nat /\ q = c + (q - c) BY <3>2, <3>3
      <4> QED BY <4>1
    <3>5. n * q = p + n * d /\ n * d \in Nat /\ n * q \in Nat BY <3>1, <3>4
    <3> DEFINE x == n * q
               y == n * d
    <3>6. x \in Nat /\ y \in Nat /\ x = p + y /\ M = x + e BY <3>3, <3>5
    <3> HIDE DEF p, x, y
    <3>7. p <= M BY <1>1, <3>3, <3>6
    <3> QED BY <3>2, <3>7
  <2> QED BY <2>1, <2>2
<1> HIDE DEF p, M
<1>3. p % (M + 1) = p BY <1>1, <1>2, SmallMod
<1> QED BY <1>1, <1>2, <1>3 DEF p, M

LInv == LGood(blocks, owned)

\* malloc, calloc and realloc hand out a range that was free.
LEMMA LTakes ==
  ASSUME LInv, NEW asked \in Nat, round_up(asked, MALLOC_ALIGNMENT) <= SIZE_MAX,
         NEW mapped \in BOOLEAN,
         blocks' = malloc(blocks, asked, mapped).list,
         owned' = owned \cup got(malloc(blocks, asked, mapped).ptr, asked)
  PROVE  LInv' /\ Steps(OutOf(owned), OutOf(owned'), ARENA_SIZE)
<1> DEFINE m == malloc(blocks, asked, mapped)
           h == [ptr |-> m.ptr, asked |-> asked]
<1>1. LGood(blocks, owned) BY DEF LInv
<1>2. \/ m.ptr = -1 /\ LGood(m.list, owned)
      \/ /\ asked > 0 /\ m.ptr \in Nat /\ h \notin owned /\ LGood(m.list, owned \cup {h})
         /\ Fits(range_of(h), OutOf(owned), ARENA_SIZE)
  BY <1>1, LMalloc
<1>3. blocks' = m.list /\ owned' = owned \cup got(m.ptr, asked) OBVIOUS
<1> HIDE DEF m
<1>4. CASE m.ptr = -1 /\ LGood(m.list, owned)
  <2>1. owned' = owned BY <1>3, <1>4 DEF got
  <2> QED BY <1>3, <1>4, <2>1 DEF LInv, Steps
<1>5. CASE /\ asked > 0 /\ m.ptr \in Nat /\ h \notin owned /\ LGood(m.list, owned \cup {h})
           /\ Fits(range_of(h), OutOf(owned), ARENA_SIZE)
  <2>1. m.ptr # -1 BY <1>5
  <2>2. owned' = owned \cup {h} BY <1>3, <2>1 DEF got
  <2> HIDE DEF h
  <2>3. Steps(OutOf(owned), OutOf(owned \cup {h}), ARENA_SIZE) BY <1>5, StepTakes
  <2> QED BY <1>3, <1>5, <2>2, <2>3 DEF LInv
<1> QED BY <1>2, <1>4, <1>5

\* Every step of the user heap keeps its invariant and is allowed.
LEMMA LStep ==
  ASSUME NoWrap, LInv, [LibcHeapNext]_lvars
  PROVE  LInv' /\ Steps(OutOf(owned), OutOf(owned'), ARENA_SIZE)
<1>1. LGood(blocks, owned) /\ owned \in SUBSET Handles BY DEF LInv, LGood
<1>2. BLOCK \in Nat /\ ARENA_SIZE \in Nat /\ SIZE_MAX \in Nat BY LibcHeapAssumption
<1>3. \A n \in Sizes : n \in Nat /\ n <= SIZE_MAX /\ n \in Askable
  BY LibcHeapAssumption DEF Askable
<1>4. CASE UNCHANGED lvars
  <2>1. blocks' = blocks /\ owned' = owned BY <1>4 DEF lvars
  <2> QED BY <1>1, <2>1 DEF LInv, Steps
<1>5. ASSUME NEW n \in Sizes, call_malloc(n)
      PROVE LInv' /\ Steps(OutOf(owned), OutOf(owned'), ARENA_SIZE)
  <2>1. PICK mapped \in BOOLEAN : /\ blocks' = malloc(blocks, n, mapped).list
                                  /\ owned' = owned \cup got(malloc(blocks, n, mapped).ptr, n)
    BY <1>5 DEF call_malloc
  <2>2. n \in Nat /\ round_up(n, MALLOC_ALIGNMENT) <= SIZE_MAX BY <1>3 DEF NoWrap
  <2> QED BY <2>1, <2>2, LTakes
<1>6. ASSUME NEW c \in Sizes, NEW n \in Sizes, calloc(c, n)
      PROVE  LInv' /\ Steps(OutOf(owned), OutOf(owned'), ARENA_SIZE)
  <2> DEFINE t == calloc_total(c, n)
  <2>1. PICK mapped \in BOOLEAN : /\ t >= 0
                                  /\ blocks' = malloc(blocks, t, mapped).list
                                  /\ owned' = owned \cup got(malloc(blocks, t, mapped).ptr, c * n)
    BY <1>6 DEF calloc
  <2>2. c \in Nat /\ n \in Nat BY <1>3
  <2>3. t = c * n /\ t \in Nat /\ t <= SIZE_MAX BY <2>1, <2>2, TotalFits
  <2> HIDE DEF t
  <2>4. t \in Askable BY <2>3 DEF Askable
  <2>5. round_up(t, MALLOC_ALIGNMENT) <= SIZE_MAX BY <2>4 DEF NoWrap
  <2>6. owned' = owned \cup got(malloc(blocks, t, mapped).ptr, t) BY <2>1, <2>3
  <2> QED BY <2>1, <2>3, <2>5, <2>6, LTakes
<1>7. ASSUME NEW h \in owned, call_free(h)
      PROVE LInv' /\ Steps(OutOf(owned), OutOf(owned'), ARENA_SIZE)
  <2>1. blocks' = free(blocks, h.ptr) /\ owned' = owned \ {h} BY <1>7 DEF call_free
  <2>2. LGood(free(blocks, h.ptr), owned \ {h}) BY <1>1, LFree
  <2>3. Steps(OutOf(owned), OutOf(owned \ {h}), ARENA_SIZE) BY <1>1, StepGives
  <2> QED BY <2>1, <2>2, <2>3 DEF LInv
<1>8. ASSUME NEW h \in owned, NEW n \in Sizes, realloc(h, n)
      PROVE  LInv' /\ Steps(OutOf(owned), OutOf(owned'), ARENA_SIZE)
  <2> DEFINE m == malloc(blocks, n, TRUE)
             q == [ptr |-> m.ptr, asked |-> n]
             y == blocks[block_at(blocks, h.ptr - BLOCK)].size
  <2>1. n \in Nat \ {0} BY <1>3, <1>8 DEF realloc
  <2>2. CASE y >= n
    <3> DEFINE e == [h EXCEPT !.asked = n]
               G == (owned \ {h}) \cup {e}
    <3>1. blocks' = blocks /\ owned' = G BY <1>8, <2>2 DEF realloc
    <3>2. PICK s \in Int : Books(OutOf(owned), blocks, BLOCK, ARENA_SIZE, TRUE, s) /\ Coalesced(blocks)
      BY <1>1 DEF LGood
    <3>3. Served(OutOf(owned), blocks, BLOCK, ARENA_SIZE) BY <3>2 DEF Books
    <3>4. /\ Served(OutOf(G), blocks, BLOCK, ARENA_SIZE) /\ G \in SUBSET Handles
          /\ Steps(OutOf(owned), OutOf(G), ARENA_SIZE)
      BY <1>1, <1>2, <2>1, <2>2, <3>3, InPlace
    <3> HIDE DEF G
    <3>5. LGood(blocks, G) BY <3>2, <3>4 DEF LGood, Books
    <3> QED BY <3>1, <3>4, <3>5 DEF LInv
  <2>3. CASE ~ (y >= n) /\ m.ptr = -1
    <3>1. blocks' = blocks /\ owned' = owned BY <1>8, <2>3 DEF realloc, lvars
    <3> QED BY <1>1, <3>1 DEF LInv, Steps
  <2>4. CASE ~ (y >= n) /\ m.ptr # -1
    <3>1. blocks' = free(m.list, h.ptr) /\ owned' = (owned \ {h}) \cup {q}
      BY <1>8, <2>4 DEF realloc, got
    <3>2. /\ q \notin owned /\ LGood(m.list, owned \cup {q})
          /\ Fits(range_of(q), OutOf(owned), ARENA_SIZE)
      <4>1. n \in Nat /\ round_up(n, MALLOC_ALIGNMENT) <= SIZE_MAX /\ TRUE \in BOOLEAN
        BY <1>3 DEF NoWrap
      <4> QED BY <1>1, <2>4, <4>1, LMalloc
    <3> HIDE DEF m, q
    <3>3. h \in owned \cup {q} OBVIOUS
    <3>4. LGood(free(m.list, h.ptr), (owned \cup {q}) \ {h}) BY <3>2, <3>3, LFree
    <3>5. (owned \cup {q}) \ {h} = (owned \ {h}) \cup {q} /\ q # h BY <3>2
    <3>6. Steps(OutOf(owned), OutOf((owned \ {h}) \cup {q}), ARENA_SIZE)
      BY <1>1, <3>2, <3>5, StepMoves
    <3> QED BY <3>1, <3>4, <3>5, <3>6 DEF LInv
  <2> QED BY <2>2, <2>3, <2>4
<1> QED BY <1>4, <1>5, <1>6, <1>7, <1>8 DEF LibcHeapNext
-----------------------------------------------------------------------------
(* The properties follow.                                                  *)

\* Every handle has its block in the list.
LEMMA HandleBlock ==
  ASSUME NEW H \in Nat, NEW L \in Nat, NEW b,
         NEW g \in SUBSET Handles, Served(OutOf(g), b, H, L)
  PROVE  /\ \A h \in g : \E i \in 1 .. Len(b) : b[i].used /\ b[i].base + H = h.ptr /\ b[i].size >= h.asked
         /\ Cardinality(g) = Cardinality({i \in 1 .. Len(b) : b[i].used})
<1>1. ASSUME NEW h \in g
      PROVE  \E i \in 1 .. Len(b) : b[i].used /\ b[i].base + H = h.ptr /\ b[i].size >= h.asked
  <2> DEFINE r == range_of(h)
  <2>1. r \in OutOf(g) /\ r.at = h.ptr /\ r.len = h.asked BY DEF OutOf, range_of
  <2> HIDE DEF r
  <2>2. LET k == block_at(b, r.at - H) IN
        k \in 1 .. Len(b) /\ b[k].used /\ b[k].base + H = r.at /\ b[k].size >= r.len
    BY <2>1, Finds
  <2> QED BY <2>1, <2>2
<1>2. Cardinality(g) = Cardinality({i \in 1 .. Len(b) : b[i].used})
  <2>1. IsFiniteSet(OutOf(g)) /\ Cardinality(OutOf(g)) = Cardinality({i \in 1 .. Len(b) : b[i].used})
    BY CountIs
  <2> QED BY <2>1, HandlesCount
<1> QED BY <1>1, <1>2

\* The invariant of the kernel heap says what the run checks.
LEMMA KSound == ASSUME KInv PROVE HeapTiled /\ HeapCoalesced /\ HeapStats
<1>1. HEADER \in Nat /\ HEAP_SIZE \in Nat BY KHeapAssumption
<1>2. /\ held \in SUBSET Handles /\ Served(OutOf(held), heap, HEADER, HEAP_SIZE) /\ Coalesced(heap)
      /\ AddsUp(heap, FALSE, stats.free_size) /\ Tiles(heap, HEADER, HEAP_SIZE) /\ heap \in Seq(Block)
  BY DEF KInv, KGood, Books, Served, Tiled
<1>3. HeapTiled BY <1>1, <1>2, HandleBlock DEF HeapTiled
<1>4. total_size(heap, FALSE) = stats.free_size BY <1>2, TotalIs
<1>5. HeapStats BY <1>4 DEF HeapStats, KInv, KGood
<1> QED BY <1>2, <1>3, <1>5 DEF HeapCoalesced

\* That of the user heap does.
LEMMA LSound == ASSUME LInv PROVE ArenaTiled
<1>1. BLOCK \in Nat /\ ARENA_SIZE \in Nat BY LibcHeapAssumption
<1>2. owned \in SUBSET Handles BY DEF LInv, LGood
<1>3. CASE blocks = <<>> /\ owned = {}
  <2>1. {i \in 1 .. Len(blocks) : blocks[i].used} = {}
    <3>1. Len(blocks) = 0 BY <1>3
    <3> QED BY <3>1
  <2> QED BY <1>3, <2>1 DEF ArenaTiled
<1>4. CASE \E s \in Int : Books(OutOf(owned), blocks, BLOCK, ARENA_SIZE, TRUE, s) /\ Coalesced(blocks)
  <2>1. /\ Served(OutOf(owned), blocks, BLOCK, ARENA_SIZE) /\ Coalesced(blocks)
        /\ Tiles(blocks, BLOCK, ARENA_SIZE)
    BY <1>4 DEF Books, Served, Tiled
  <2> QED BY <1>1, <1>2, <2>1, HandleBlock DEF ArenaTiled
<1> QED BY <1>3, <1>4 DEF LInv, LGood

\* That of the virtual arena does.
LEMMA ASound == ASSUME AInv PROVE ArenaWhole /\ ArenaCounts
<1>1. ARENA_PAGES \in Nat /\ 0 \in Nat BY VmmArenaAssumption
<1>2. /\ Served(leases, arena, 0, ARENA_PAGES) /\ Coalesced(arena)
      /\ AddsUp(arena, TRUE, counts.used) /\ Tiles(arena, 0, ARENA_PAGES) /\ arena \in Seq(Block)
  BY DEF AInv, AGood, Books, Served, Tiled
<1>3. total_size(arena, TRUE) = counts.used BY <1>2, TotalIs
<1>4. Cardinality(leases) = Cardinality({i \in 1 .. Len(arena) : arena[i].used})
  BY <1>1, <1>2, CountIs
<1>5. ArenaCounts BY <1>3, <1>4 DEF ArenaCounts, AInv, AGood
<1> QED BY <1>2, <1>5 DEF ArenaWhole

\* A step of the ranges is a step of an allocator.
LEMMA KPromises ==
  ASSUME Steps(OutOf(held), OutOf(held'), HEAP_SIZE)
  PROVE  [KHeapPromise!Next]_HeapOut
<1>1. HeapOut = OutOf(held) /\ HeapOut' = OutOf(held') BY DEF HeapOut, OutOf, range_of
<1>2. Steps(HeapOut, HeapOut', HEAP_SIZE) BY <1>1
<1> QED
  BY <1>2 DEF Steps, Within, Clear, KHeapPromise!Next, KHeapPromise!Take, KHeapPromise!Give,
                   KHeapPromise!Move, KHeapPromise!Apart, KHeapPromise!Inside

LibcOut == {[at |-> h.ptr, len |-> h.asked] : h \in owned}

\* The ranges of the user heap are kept apart.
LEMMA LPromises ==
  ASSUME Steps(OutOf(owned), OutOf(owned'), ARENA_SIZE)
  PROVE  [LibcPromise!Next]_LibcOut
<1>1. LibcOut = OutOf(owned) /\ LibcOut' = OutOf(owned') BY DEF LibcOut, OutOf, range_of
<1>2. Steps(LibcOut, LibcOut', ARENA_SIZE) BY <1>1
<1> QED
  BY <1>2
    DEF LibcOut, Steps, Within, Clear, LibcPromise!Next, LibcPromise!Take, LibcPromise!Give,
                   LibcPromise!Move, LibcPromise!Apart, LibcPromise!Inside

\* Those of the virtual arena are.
LEMMA APromises ==
  ASSUME Steps(leases, leases', ARENA_PAGES)
  PROVE  [ArenaPromise!Next]_leases
BY DEF Steps, Within, Clear, ArenaPromise!Next, ArenaPromise!Take, ArenaPromise!Give,
       ArenaPromise!Move, ArenaPromise!Apart, ArenaPromise!Inside

\* The user heap starts without blocks: the first malloc sets it up.
LEMMA LStart == ASSUME LibcHeapInit PROVE LInv /\ LibcOut = {}
<1>1. blocks = <<>> /\ owned = {} BY DEF LibcHeapInit
<1> QED BY <1>1 DEF LInv, LGood, LibcOut

\* The three heaps (kheap.c, the malloc of the user library, the virtual arena
\* of vmm.c): after any sequence of allocations and frees their blocks tile the
\* arena, no two ranges that callers hold overlap, free neighbours are merged,
\* and the counters say what is in the lists.  Sizes near the top of the
\* integers are left out, where rounding up would wrap.
THEOREM HeapsAreSound ==
  ASSUME NoWrap
  PROVE  KHeapSpec /\ LibcHeapSpec /\ VmmArenaSpec => []HeapsSound
<1>1. KHeapInit => KInv BY KStart
<1>2. KInv /\ [KHeapNext]_kvars => KInv' BY KStep
<1>3. LibcHeapInit => LInv BY LStart
<1>4. LInv /\ [LibcHeapNext]_lvars => LInv' BY LStep
<1>5. VmmArenaInit => AInv BY AStart
<1>6. AInv /\ [VmmArenaNext]_avars => AInv' BY AStep
<1>7. KInv /\ LInv /\ AInv => HeapsSound BY KSound, LSound, ASound DEF HeapsSound
<1> QED
  BY <1>1, <1>2, <1>3, <1>4, <1>5, <1>6, <1>7, PTL DEF KHeapSpec, LibcHeapSpec, VmmArenaSpec

\* Each of the three heaps is an allocator: a step hands out one range that
\* nobody holds and that lies in its memory, takes back one that is held, moves
\* one (realloc), or changes nothing that callers see.  kmalloc, malloc and
\* vmm_alloc implement the module Allocator.
THEOREM HeapsDoAllocate ==
  ASSUME NoWrap
  PROVE  KHeapSpec /\ LibcHeapSpec /\ VmmArenaSpec => HeapsAllocate
<1>1. KHeapInit => KInv /\ KHeapPromise!Init
  <2>1. HeapOut = OutOf(held) BY DEF HeapOut, OutOf, range_of
  <2> QED BY <2>1, KStart DEF KHeapPromise!Init
<1>2. KInv /\ [KHeapNext]_kvars => KInv' /\ [KHeapPromise!Next]_HeapOut BY KStep, KPromises
<1>3. LibcHeapInit => LInv /\ LibcPromise!Init BY LStart DEF LibcPromise!Init, LibcOut
<1>4. LInv /\ [LibcHeapNext]_lvars => LInv' /\ [LibcPromise!Next]_LibcOut BY LStep, LPromises
<1>5. VmmArenaInit => AInv /\ ArenaPromise!Init BY AStart DEF ArenaPromise!Init
<1>6. AInv /\ [VmmArenaNext]_avars => AInv' /\ [ArenaPromise!Next]_leases BY AStep, APromises
<1>7. KHeapSpec => KHeapAllocates
  BY <1>1, <1>2, PTL DEF KHeapSpec, KHeapAllocates, KHeapPromise!Spec
<1>8. LibcHeapSpec => LibcAllocates
  BY <1>3, <1>4, PTL DEF LibcHeapSpec, LibcAllocates, LibcPromise!Spec, LibcOut
<1>9. VmmArenaSpec => ArenaAllocates
  BY <1>5, <1>6, PTL DEF VmmArenaSpec, ArenaAllocates, ArenaPromise!Spec
<1> QED BY <1>7, <1>8, <1>9 DEF HeapsAllocate
==============================================================================
