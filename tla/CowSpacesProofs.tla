--------------------------- MODULE CowSpacesProofs ---------------------------
(***************************************************************************)
(* What copy-on-write rests on, proved for any number of address spaces,   *)
(* frames and pages: types, region lists against page tables, and counts   *)
(* against page table entries.  CowMemoryProofs goes on from here.         *)
(***************************************************************************)
EXTENDS CowSpaces, FiniteSetTheorems, TLAPS

-----------------------------------------------------------------------------
(* Page table entries that hold a frame, and how many there are.           *)

maps(F, f) == {e \in Spaces \X Pages : F[e[1]][e[2]] = f}

\* A set of pages is finite: physical memory and address space are bounded.
LEMMA PagesFinite == ASSUME NEW D \in SUBSET Pages
                     PROVE IsFiniteSet(D) /\ Cardinality(D) \in Nat
<1>1. IsFiniteSet(Pages) BY PagesAssumption, FS_Interval DEF Pages
<1> QED BY <1>1, FS_Subset, FS_CardinalityType

\* Finitely many page table entries hold a frame.
LEMMA MapsFinite == ASSUME NEW F, NEW f
                    PROVE IsFiniteSet(maps(F, f)) /\ Cardinality(maps(F, f)) \in Nat
<1>1. IsFiniteSet(Pages) BY PagesFinite
<1>2. IsFiniteSet(Spaces \X Pages) BY <1>1, FS_Product, SpacesAssumption
<1> QED BY <1>2, FS_Subset, FS_CardinalityType DEF maps

\* The entries of the pages D of one space are as many as the pages.
LEMMA Pairs == ASSUME NEW s \in Spaces, NEW D \in SUBSET Pages
  PROVE IsFiniteSet({s} \X D) /\ Cardinality({s} \X D) = Cardinality(D)
<1>1. IsFiniteSet(D) /\ Cardinality(D) \in Nat BY PagesFinite
<1>2. IsFiniteSet({s}) /\ Cardinality({s}) = 1 BY FS_Singleton
<1>3. /\ IsFiniteSet({s} \X D)
         /\ Cardinality({s} \X D) = Cardinality({s}) * Cardinality(D) BY <1>1, <1>2, FS_Product
<1> QED BY <1>1, <1>2, <1>3

\* Entries for f are cleared, those of the pages D of s among them: as many
\* fewer hold f.
LEMMA Cleared ==
  ASSUME NEW F, NEW G, NEW f, NEW s \in Spaces, NEW D \in SUBSET Pages,
         \A v \in D : F[s][v] = f /\ G[s][v] # f,
         \A u \in Spaces, v \in Pages : G[u][v] = f => F[u][v] = f
  PROVE  Cardinality(maps(G, f)) <= Cardinality(maps(F, f)) - Cardinality(D)
<1> DEFINE B == {s} \X D
<1>1. IsFiniteSet(B) /\ Cardinality(B) = Cardinality(D) BY Pairs
<1>2. maps(F, f) \cap B = B BY DEF maps
<1> HIDE DEF B
<1>0. IsFiniteSet(maps(F, f)) BY MapsFinite
<1>6. /\ IsFiniteSet(maps(F, f) \ B)
      /\ Cardinality(maps(F, f) \ B) = Cardinality(maps(F, f)) - Cardinality(maps(F, f) \cap B)
  BY <1>0, FS_Difference
<1>3. /\ IsFiniteSet(maps(F, f) \ B)
      /\ Cardinality(maps(F, f) \ B) = Cardinality(maps(F, f)) - Cardinality(D)
  BY <1>1, <1>2, <1>6
<1> USE DEF B
<1>4. maps(G, f) \subseteq maps(F, f) \ B BY DEF maps
<1>5. Cardinality(maps(G, f)) <= Cardinality(maps(F, f) \ B) BY <1>3, <1>4, FS_Subset
<1> QED BY <1>3, <1>5

\* Entries for f come only at the pages D of d: at most as many more hold f.
LEMMA Added ==
  ASSUME NEW F, NEW G, NEW f, NEW d \in Spaces, NEW D \in SUBSET Pages,
         \A u \in Spaces, v \in Pages : G[u][v] = f => F[u][v] = f \/ (u = d /\ v \in D)
  PROVE  Cardinality(maps(G, f)) <= Cardinality(maps(F, f)) + Cardinality(D)
<1> DEFINE B == {d} \X D
<1>1. IsFiniteSet(B) /\ Cardinality(B) = Cardinality(D) BY Pairs
<1>2. /\ IsFiniteSet(maps(F, f) \cup B)
      /\ Cardinality(maps(F, f) \cup B) = Cardinality(maps(F, f)) + Cardinality(B) - Cardinality(maps(F, f) \cap B)
  BY <1>1, MapsFinite, FS_Union
<1>3. Cardinality(maps(F, f) \cap B) \in Nat BY MapsFinite, FS_Intersection, FS_CardinalityType
<1>4. maps(G, f) \subseteq maps(F, f) \cup B BY DEF maps
<1>5. Cardinality(maps(G, f)) <= Cardinality(maps(F, f) \cup B) BY <1>2, <1>4, FS_Subset
<1>6. Cardinality(B) \in Nat /\ Cardinality(maps(F, f)) \in Nat /\ Cardinality(maps(F, f) \cup B) \in Nat /\ Cardinality(maps(G, f)) \in Nat
  BY <1>1, <1>2, MapsFinite, FS_CardinalityType
<1> QED BY <1>1, <1>2, <1>3, <1>5, <1>6

\* From F to G, exactly the entries of the pages D of s that held f are gone.
Lost(F, G, f, s, D) ==
    /\ \A v \in D : F[s][v] = f /\ G[s][v] # f
    /\ \A u \in Spaces, v \in Pages : G[u][v] = f => F[u][v] = f
    /\ \A u \in Spaces, v \in Pages : F[u][v] = f => G[u][v] = f \/ (u = s /\ v \in D)

\* As many entries fewer as D has pages.
LEMMA ClearedExactly ==
  ASSUME NEW F, NEW G, NEW f, NEW s \in Spaces, NEW D \in SUBSET Pages, Lost(F, G, f, s, D)
  PROVE  Cardinality(maps(G, f)) = Cardinality(maps(F, f)) - Cardinality(D)
<1> DEFINE B == {s} \X D
<1>1. IsFiniteSet(B) /\ Cardinality(B) = Cardinality(D) BY Pairs
<1>2. maps(F, f) \cap B = B BY DEF maps, Lost
<1>3. maps(G, f) = maps(F, f) \ B BY DEF maps, Lost
<1> HIDE DEF B
<1>4. IsFiniteSet(maps(F, f)) BY MapsFinite
<1>5. Cardinality(maps(F, f) \ B) = Cardinality(maps(F, f)) - Cardinality(maps(F, f) \cap B)
  BY <1>4, FS_Difference
<1> QED BY <1>1, <1>2, <1>3, <1>5

\* From F to G, the pages D of d, which had nothing of f, have come to hold f.
Gained(F, G, f, d, D) ==
    /\ \A v \in Pages : F[d][v] # f
    /\ \A u \in Spaces, v \in Pages : G[u][v] = f => F[u][v] = f \/ (u = d /\ v \in D)
    /\ \A u \in Spaces, v \in Pages : F[u][v] = f => G[u][v] = f
    /\ \A v \in D : G[d][v] = f

\* As many entries more as D has pages.
LEMMA AddedExactly ==
  ASSUME NEW F, NEW G, NEW f, NEW d \in Spaces, NEW D \in SUBSET Pages, Gained(F, G, f, d, D)
  PROVE  Cardinality(maps(G, f)) = Cardinality(maps(F, f)) + Cardinality(D)
<1> DEFINE B == {d} \X D
<1>1. IsFiniteSet(B) /\ Cardinality(B) = Cardinality(D) BY Pairs
<1>2. maps(F, f) \cap B = {} BY DEF maps, Gained
<1>3. maps(G, f) = maps(F, f) \cup B BY DEF maps, Gained
<1> HIDE DEF B
<1>4. Cardinality(maps(F, f) \cup B) = Cardinality(maps(F, f)) + Cardinality(B) - Cardinality(maps(F, f) \cap B)
  BY <1>1, MapsFinite, FS_Union
<1>5. Cardinality(maps(F, f) \cap B) = 0 BY <1>2, FS_EmptySet
<1>6. Cardinality(maps(F, f)) \in Nat /\ Cardinality(B) \in Nat
  BY <1>1, MapsFinite, FS_CardinalityType
<1> QED BY <1>1, <1>3, <1>4, <1>5, <1>6

-----------------------------------------------------------------------------
(* Region lists.                                                           *)

\* An element between two sequences, as insert puts it.
LEMMA Joined ==
  ASSUME NEW S, NEW a \in Seq(S), NEW c \in Seq(S), NEW r \in S
  PROVE  /\ a \o <<r>> \o c \in Seq(S)
         /\ Len(a \o <<r>> \o c) = Len(a) + 1 + Len(c)
         /\ \A i \in 1 .. Len(a) : (a \o <<r>> \o c)[i] = a[i]
         /\ (a \o <<r>> \o c)[Len(a) + 1] = r
         /\ \A i \in 1 .. Len(c) : (a \o <<r>> \o c)[Len(a) + 1 + i] = c[i]
<1>1. /\ a \o <<r>> \in Seq(S) /\ Len(a \o <<r>>) = Len(a) + 1
      /\ \A i \in 1 .. Len(a) : (a \o <<r>>)[i] = a[i]
      /\ (a \o <<r>>)[Len(a) + 1] = r
  OBVIOUS
<1> DEFINE b == a \o <<r>>
<1> HIDE DEF b
<1>2. /\ b \o c \in Seq(S) /\ Len(b \o c) = Len(b) + Len(c)
      /\ \A i \in 1 .. Len(b) : (b \o c)[i] = b[i]
      /\ \A i \in 1 .. Len(c) : (b \o c)[Len(b) + i] = c[i]
  BY <1>1 DEF b
<1> QED BY <1>1, <1>2 DEF b

Below(rs, b) == {i \in 1 .. Len(rs) : rs[i].base < b}

\* How many regions start below b.
LEMMA BelowType == ASSUME NEW rs \in Seq(Region), NEW b
                   PROVE IsFiniteSet(Below(rs, b)) /\ Cardinality(Below(rs, b)) \in 0 .. Len(rs)
<1>1. IsFiniteSet(1 .. Len(rs)) /\ Cardinality(1 .. Len(rs)) = Len(rs)
  BY FS_Interval, Len(rs) \in Nat
<1> QED BY <1>1, FS_Subset, FS_CardinalityType DEF Below

\* insert puts r behind the regions that start below it and moves the others
\* up.
LEMMA InsertAt ==
  ASSUME NEW rs \in Seq(Region), NEW r \in Region
  PROVE  LET n == Cardinality(Below(rs, r.base)) IN
         /\ n \in 0 .. Len(rs)
         /\ insert(rs, r) \in Seq(Region)
         /\ Len(insert(rs, r)) = Len(rs) + 1
         /\ \A i \in 1 .. n : insert(rs, r)[i] = rs[i]
         /\ insert(rs, r)[n + 1] = r
         /\ \A i \in n + 2 .. Len(rs) + 1 : insert(rs, r)[i] = rs[i - 1]
<1> DEFINE n == Cardinality(Below(rs, r.base))
<1>1. n \in 0 .. Len(rs) BY BelowType
<1>2. insert(rs, r) = SubSeq(rs, 1, n) \o << r >> \o SubSeq(rs, n + 1, Len(rs))
  BY DEF insert, Below
<1> HIDE DEF n
<1>3. /\ SubSeq(rs, 1, n) \in Seq(Region) /\ Len(SubSeq(rs, 1, n)) = n
      /\ \A i \in 1 .. n : SubSeq(rs, 1, n)[i] = rs[i]
  BY <1>1
<1>4. /\ SubSeq(rs, n + 1, Len(rs)) \in Seq(Region) /\ Len(SubSeq(rs, n + 1, Len(rs))) = Len(rs) - n
      /\ \A i \in 1 .. Len(rs) - n : SubSeq(rs, n + 1, Len(rs))[i] = rs[n + i]
  BY <1>1
<1> DEFINE a == SubSeq(rs, 1, n) c == SubSeq(rs, n + 1, Len(rs))
<1> HIDE DEF a, c
<1>5. /\ a \in Seq(Region) /\ Len(a) = n /\ c \in Seq(Region) /\ Len(c) = Len(rs) - n
  BY <1>3, <1>4 DEF a, c
<1>8. /\ a \o <<r>> \o c \in Seq(Region)
      /\ Len(a \o <<r>> \o c) = Len(rs) + 1
      /\ \A i \in 1 .. n : (a \o <<r>> \o c)[i] = a[i]
      /\ (a \o <<r>> \o c)[n + 1] = r
      /\ \A i \in 1 .. Len(rs) - n : (a \o <<r>> \o c)[n + 1 + i] = c[i]
  BY <1>1, <1>5, Joined
<1>6. \A i \in n + 2 .. Len(rs) + 1 : (a \o <<r>> \o c)[i] = rs[i - 1]
  <2> TAKE i \in n + 2 .. Len(rs) + 1
  <2>1. i - n - 1 \in 1 .. Len(rs) - n /\ n + 1 + (i - n - 1) = i /\ n + (i - n - 1) = i - 1
    BY <1>1
  <2>2. (a \o <<r>> \o c)[n + 1 + (i - n - 1)] = c[i - n - 1]  BY <1>8, <2>1
  <2>3. c[i - n - 1] = rs[n + (i - n - 1)]  BY <1>4, <2>1 DEF c
  <2> QED BY <2>1, <2>2, <2>3
<1>7. \A i \in 1 .. n : a[i] = rs[i] BY <1>3 DEF a
<1> QED BY <1>1, <1>2, <1>8, <1>6, <1>7 DEF a, c, n
Sorted(rs) == \A i, j \in 1 .. Len(rs) : i < j => rs[i].base + rs[i].size <= rs[j].base
Listed(rs) == {rs[i] : i \in 1 .. Len(rs)}

\* Base and size of a region are positive numbers.
LEMMA RegionNat ==
  ASSUME NEW r \in Region
  PROVE  r.base \in Nat \ {0} /\ r.size \in Nat \ {0} /\ r.base \in Pages
  BY PagesAssumption DEF Region, Pages

\* The same for every region of a list.
LEMMA RegionsNat ==
  ASSUME NEW rs \in Seq(Region)
  PROVE  \A i \in 1 .. Len(rs) : rs[i] \in Region /\ rs[i].base \in Nat \ {0} /\ rs[i].size \in Nat \ {0}
<1>1. \A i \in 1 .. Len(rs) : rs[i] \in Region OBVIOUS
<1> QED BY <1>1, RegionNat

\* What a concatenation holds where.
LEMMA Concat ==
  ASSUME NEW S, NEW a \in Seq(S), NEW c \in Seq(S)
  PROVE  /\ a \o c \in Seq(S) /\ Len(a \o c) = Len(a) + Len(c)
         /\ \A k \in 1 .. Len(a) : (a \o c)[k] = a[k]
         /\ \A k \in 1 .. Len(c) : (a \o c)[Len(a) + k] = c[k]
  OBVIOUS

\* Of two regions that share no page, one ends before the other starts.
LEMMA Disjoint ==
  ASSUME NEW p \in Region, NEW r \in Region, covers(p) \cap covers(r) = {}
  PROVE  IF p.base < r.base THEN p.base + p.size <= r.base ELSE r.base + r.size <= p.base
<1>1. p.base \in Nat /\ p.size \in Nat \ {0} /\ r.base \in Nat /\ r.size \in Nat \ {0}
  BY RegionNat
<1>2. ~ (r.base \in covers(p) /\ r.base \in covers(r)) /\ ~ (p.base \in covers(p) /\ p.base \in covers(r))
  OBVIOUS
<1> DEFINE pb == p.base ps == p.size rb == r.base rz == r.size
<1>3. covers(p) = pb .. pb + ps - 1 /\ covers(r) = rb .. rb + rz - 1 BY DEF covers
<1> HIDE DEF pb, ps, rb, rz
<1>4. pb \in Nat /\ ps \in Nat \ {0} /\ rb \in Nat /\ rz \in Nat \ {0}
  BY <1>1 DEF pb, ps, rb, rz
<1>5. ~ (rb \in covers(p) /\ rb \in covers(r)) /\ ~ (pb \in covers(p) /\ pb \in covers(r))
  BY <1>2 DEF pb, rb
<1>6. IF pb < rb THEN pb + ps <= rb ELSE rb + rz <= pb
  BY <1>3, <1>4, <1>5
<1> QED BY <1>6 DEF pb, ps, rb, rz

\* In a sorted list, the regions that start below b come first.
LEMMA BelowIsPrefix ==
  ASSUME NEW rs \in Seq(Region), Sorted(rs), NEW b \in Nat
  PROVE  LET n == Cardinality(Below(rs, b)) IN \A i \in 1 .. Len(rs) : rs[i].base < b <=> i <= n
<1> DEFINE B == Below(rs, b) n == Cardinality(B)
<1>1. IsFiniteSet(B) /\ n \in 0 .. Len(rs)  BY BelowType
<1>2. \A i \in 1 .. Len(rs) : rs[i] \in Region /\ rs[i].base \in Nat /\ rs[i].size \in Nat
  BY RegionsNat
<1>3. ASSUME NEW i \in B PROVE i <= n
  <2>1. 1 .. i \subseteq B
    BY <1>2 DEF Sorted, Below
  <2>2. Cardinality(1 .. i) = i BY FS_Interval DEF Below
  <2> QED BY <1>1, <2>1, <2>2, FS_Subset
<1>4. B \subseteq 1 .. n BY <1>3, <1>1 DEF Below
<1>5. IsFiniteSet(1 .. n) /\ Cardinality(1 .. n) = n BY <1>1, FS_Interval
<1>6. B = 1 .. n  BY <1>1, <1>4, <1>5, FS_Subset
<1> QED BY <1>6, <1>1 DEF Below

\* insert keeps a list sorted and adds r to it, if r shares no page with the
\* others.
LEMMA InsertSorted ==
  ASSUME NEW rs \in Seq(Region), Sorted(rs), NEW r \in Region,
         \A i \in 1 .. Len(rs) : covers(rs[i]) \cap covers(r) = {}
  PROVE  /\ insert(rs, r) \in Seq(Region) /\ Sorted(insert(rs, r))
         /\ Listed(insert(rs, r)) = Listed(rs) \cup {r}
<1> DEFINE n == Cardinality(Below(rs, r.base)) q == insert(rs, r)
<1>1. /\ n \in 0 .. Len(rs)
      /\ q \in Seq(Region)
      /\ Len(q) = Len(rs) + 1
      /\ \A i \in 1 .. n : q[i] = rs[i]
      /\ q[n + 1] = r
      /\ \A i \in n + 2 .. Len(rs) + 1 : q[i] = rs[i - 1]
  BY InsertAt
<1>2. /\ \A i \in 1 .. Len(rs) : rs[i].base \in Nat /\ rs[i].size \in Nat \ {0}
      /\ r.base \in Nat /\ r.size \in Nat \ {0}
      /\ \A i \in 1 .. Len(rs) : rs[i] \in Region
  BY RegionsNat, RegionNat
<1>3. \A i \in 1 .. Len(rs) : rs[i].base < r.base <=> i <= n
  BY <1>2, BelowIsPrefix
<1> HIDE DEF n, q
<1>4. \A i \in 1 .. Len(rs) : IF i <= n THEN rs[i].base + rs[i].size <= r.base
                               ELSE r.base + r.size <= rs[i].base
  <2> TAKE i \in 1 .. Len(rs)
  <2>1. IF rs[i].base < r.base THEN rs[i].base + rs[i].size <= r.base ELSE r.base + r.size <= rs[i].base
    BY <1>2, Disjoint
  <2> QED BY <2>1, <1>3
<1>5. \A i \in 1 .. Len(rs) + 1 : \/ i \in 1 .. n \/ i = n + 1 \/ (i \in n + 2 .. Len(rs) + 1 /\ i - 1 \in n + 1 .. Len(rs))
  BY <1>1
<1>6. Sorted(q)
  <2> SUFFICES ASSUME NEW i \in 1 .. Len(rs) + 1, NEW j \in 1 .. Len(rs) + 1, i < j
               PROVE  q[i].base + q[i].size <= q[j].base
    BY <1>1 DEF Sorted
  <2>1. CASE i \in 1 .. n /\ j \in 1 .. n
    <3>1. q[i] = rs[i] /\ q[j] = rs[j] /\ i \in 1 .. Len(rs) /\ j \in 1 .. Len(rs)
      BY <2>1, <1>1
    <3> QED BY <3>1 DEF Sorted
  <2>2. CASE i \in 1 .. n /\ j = n + 1
    BY <2>2, <1>1, <1>4
  <2>3. CASE i \in 1 .. n /\ j \in n + 2 .. Len(rs) + 1
    <3>1. q[i] = rs[i] /\ q[j] = rs[j - 1] /\ i \in 1 .. Len(rs) /\ j - 1 \in 1 .. Len(rs) /\ i < j - 1
      BY <2>3, <1>1
    <3> QED BY <3>1 DEF Sorted
  <2>4. CASE i = n + 1 /\ j \in n + 2 .. Len(rs) + 1
    <3>1. q[i] = r /\ q[j] = rs[j - 1] /\ j - 1 \in 1 .. Len(rs) /\ ~(j - 1 <= n)
      BY <2>4, <1>1
    <3> QED BY <3>1, <1>4
  <2>5. CASE i \in n + 2 .. Len(rs) + 1 /\ j \in n + 2 .. Len(rs) + 1
    <3>1. q[i] = rs[i - 1] /\ q[j] = rs[j - 1] /\ j - 1 \in 1 .. Len(rs) /\ i - 1 \in 1 .. Len(rs) /\ i - 1 < j - 1
      BY <2>5, <1>1
    <3> QED BY <3>1 DEF Sorted
  <2> QED BY <1>1, <1>5, <2>1, <2>2, <2>3, <2>4, <2>5
<1>7. Listed(q) = Listed(rs) \cup {r}
  <2>1. ASSUME NEW i \in 1 .. Len(rs) + 1 PROVE q[i] \in Listed(rs) \cup {r}
    <3>1. CASE i \in 1 .. n
      <4>1. q[i] = rs[i] /\ i \in 1 .. Len(rs) BY <3>1, <1>1
      <4> QED BY <4>1 DEF Listed
    <3>2. CASE i = n + 1
      <4>1. q[i] = r BY <3>2, <1>1
      <4> QED BY <4>1
    <3>3. CASE i \in n + 2 .. Len(rs) + 1 /\ i - 1 \in n + 1 .. Len(rs)
      <4>1. q[i] = rs[i - 1] /\ i - 1 \in 1 .. Len(rs) BY <3>3, <1>1
      <4> QED BY <4>1 DEF Listed
    <3> QED BY <1>5, <3>1, <3>2, <3>3
  <2>2. ASSUME NEW i \in 1 .. Len(rs) PROVE rs[i] \in Listed(q)
    <3>1. CASE i <= n  BY <3>1, <1>1 DEF Listed
    <3>2. CASE i > n
      <4>1. i + 1 \in n + 2 .. Len(rs) + 1 /\ (i + 1) - 1 = i /\ i + 1 \in 1 .. Len(q)
        BY <3>2, <1>1
      <4>2. q[i + 1] = rs[i] BY <4>1, <1>1
      <4> QED BY <4>1, <4>2 DEF Listed
    <3> QED BY <3>1, <3>2, <1>1
  <2>3. n + 1 \in 1 .. Len(q) /\ q[n + 1] = r  BY <1>1
  <2>4. Listed(q) \subseteq Listed(rs) \cup {r}
    BY <2>1, <1>1 DEF Listed
  <2>5. r \in Listed(q) BY <2>3 DEF Listed
  <2>6. Listed(rs) \subseteq Listed(q) BY <2>2 DEF Listed
  <2> QED BY <2>4, <2>5, <2>6
<1> QED BY <1>1, <1>6, <1>7 DEF q

\* vmm_space_free takes the i-th region out.
LEMMA RemoveSorted ==
  ASSUME NEW rs \in Seq(Region), Sorted(rs), NEW i \in 1 .. Len(rs)
  PROVE  LET q == SubSeq(rs, 1, i - 1) \o SubSeq(rs, i + 1, Len(rs)) IN
         /\ q \in Seq(Region) /\ Sorted(q)
         /\ Listed(q) = Listed(rs) \ {rs[i]}
<1> DEFINE a == SubSeq(rs, 1, i - 1) c == SubSeq(rs, i + 1, Len(rs)) q == a \o c
<1>1. /\ a \in Seq(Region) /\ Len(a) = i - 1 /\ \A k \in 1 .. i - 1 : a[k] = rs[k]
  OBVIOUS
<1>2. /\ c \in Seq(Region) /\ Len(c) = Len(rs) - i /\ \A k \in 1 .. Len(rs) - i : c[k] = rs[i + k]
  OBVIOUS
<1> HIDE DEF a, c
<1>3. /\ q \in Seq(Region) /\ Len(q) = Len(rs) - 1
      /\ \A k \in 1 .. i - 1 : q[k] = a[k]
      /\ \A k \in 1 .. Len(rs) - i : q[i - 1 + k] = c[k]
  <2>1. /\ q \in Seq(Region) /\ Len(q) = Len(a) + Len(c)
        /\ \A k \in 1 .. Len(a) : q[k] = a[k]
        /\ \A k \in 1 .. Len(c) : q[Len(a) + k] = c[k]
    <3>1. a \in Seq(Region) /\ c \in Seq(Region) BY <1>1, <1>2
    <3> QED BY ONLY <3>1, Concat
  <2> HIDE DEF q
  <2> QED BY <2>1, <1>1, <1>2
<1> HIDE DEF q
<1>4. \A k \in 1 .. Len(rs) - 1 : q[k] = IF k < i THEN rs[k] ELSE rs[k + 1]
  <2> TAKE k \in 1 .. Len(rs) - 1
  <2>1. CASE k < i BY <2>1, <1>1, <1>3
  <2>2. CASE k >= i
    <3>1. k - i + 1 \in 1 .. Len(rs) - i /\ i - 1 + (k - i + 1) = k /\ i + (k - i + 1) = k + 1
      BY <2>2
    <3>2. q[i - 1 + (k - i + 1)] = c[k - i + 1] BY <3>1, <1>3
    <3>3. c[k - i + 1] = rs[i + (k - i + 1)] BY <3>1, <1>2
    <3> QED BY <3>1, <3>2, <3>3, <2>2
  <2> QED BY <2>1, <2>2
<1>5. Sorted(q)
  <2> SUFFICES ASSUME NEW j \in 1 .. Len(rs) - 1, NEW k \in 1 .. Len(rs) - 1, j < k
               PROVE  q[j].base + q[j].size <= q[k].base
    BY <1>3 DEF Sorted
  <2>1. CASE k < i
    <3>1. j < i /\ q[j] = rs[j] /\ q[k] = rs[k] BY <1>4, <2>1
    <3> QED BY <3>1 DEF Sorted
  <2>2. CASE ~(k < i) /\ j < i
    <3>1. q[j] = rs[j] /\ q[k] = rs[k + 1] /\ j < k + 1 /\ k + 1 \in 1 .. Len(rs) BY <1>4, <2>2
    <3> QED BY <3>1 DEF Sorted
  <2>3. CASE ~(k < i) /\ ~(j < i)
    <3>1. q[j] = rs[j + 1] /\ q[k] = rs[k + 1] /\ j + 1 < k + 1 /\ k + 1 \in 1 .. Len(rs) /\ j + 1 \in 1 .. Len(rs)
      BY <1>4, <2>3
    <3> QED BY <3>1 DEF Sorted
  <2> QED BY <2>1, <2>2, <2>3
<1>6. \A k \in 1 .. Len(rs) : k # i => rs[k] # rs[i]
  <2>1. \A k \in 1 .. Len(rs) : rs[k].base \in Nat /\ rs[k].size \in Nat \ {0}
    BY RegionsNat
  <2> TAKE k \in 1 .. Len(rs)
  <2>2. CASE k < i
    <3>1. rs[k].base + rs[k].size <= rs[i].base BY <2>2 DEF Sorted
    <3>2. rs[k].base # rs[i].base BY <3>1, <2>1
    <3> QED BY <3>2
  <2>3. CASE i < k
    <3>1. rs[i].base + rs[i].size <= rs[k].base BY <2>3 DEF Sorted
    <3>2. rs[k].base # rs[i].base BY <3>1, <2>1
    <3> QED BY <3>2
  <2> QED BY <2>2, <2>3
<1>7. \A k \in 1 .. Len(rs) : k # i => \E j \in 1 .. Len(q) : q[j] = rs[k]
  <2> TAKE k \in 1 .. Len(rs)
  <2>1. CASE k < i BY <2>1, <1>3, <1>4
  <2>2. CASE k > i
    <3>1. k - 1 \in 1 .. Len(rs) - 1 /\ ~(k - 1 < i) /\ (k - 1) + 1 = k BY <2>2
    <3>2. q[k - 1] = rs[k] BY <3>1, <1>4
    <3> QED BY <3>1, <3>2, <1>3
  <2> QED BY <2>1, <2>2
<1>8. \A j \in 1 .. Len(q) : \E k \in 1 .. Len(rs) : k # i /\ q[j] = rs[k]
  <2> TAKE j \in 1 .. Len(q)
  <2>0. j \in 1 .. Len(rs) - 1 BY <1>3
  <2>1. CASE j < i BY <2>0, <2>1, <1>4
  <2>2. CASE ~(j < i)
    <3>1. q[j] = rs[j + 1] /\ j + 1 \in 1 .. Len(rs) /\ j + 1 # i BY <2>0, <2>2, <1>4
    <3> QED BY <3>1
  <2> QED BY <2>1, <2>2
<1>9. Listed(q) = Listed(rs) \ {rs[i]}
  <2>1. Listed(q) \subseteq Listed(rs) \ {rs[i]}  BY <1>6, <1>8 DEF Listed
  <2>2. Listed(rs) \ {rs[i]} \subseteq Listed(q)
    <3> SUFFICES ASSUME NEW k \in 1 .. Len(rs), rs[k] # rs[i] PROVE rs[k] \in Listed(q)
      BY DEF Listed
    <3>1. PICK j \in 1 .. Len(q) : q[j] = rs[k] BY <1>7
    <3> QED BY <3>1 DEF Listed
  <2> QED BY <2>1, <2>2
<1> QED BY <1>3, <1>5, <1>9 DEF q, a, c

-----------------------------------------------------------------------------
(* Types.                                                                  *)

\* A function on the indices of a sequence is a sequence of the same length.
LEMMA Mapped ==
  ASSUME NEW S, NEW T, NEW q \in Seq(S), NEW g \in [1 .. Len(q) -> T]
  PROVE  g \in Seq(T) /\ Len(g) = Len(q)
  OBVIOUS

\* One region of a list replaced, or none where the index is not in the list.
LEMMA Changed ==
  ASSUME NEW q \in Seq(Region), NEW i, NEW r, i \in 1 .. Len(q) => r \in Region
  PROVE  /\ [q EXCEPT ![i] = r] \in Seq(Region)
         /\ Len([q EXCEPT ![i] = r]) = Len(q)
         /\ \A j \in 1 .. Len(q) : [q EXCEPT ![i] = r][j] = IF j = i THEN r ELSE q[j]
<1>1. q \in [1 .. Len(q) -> Region] OBVIOUS
<1>2. [q EXCEPT ![i] = r] \in [1 .. Len(q) -> Region]
  <2>1. CASE i \in 1 .. Len(q) BY <1>1, <2>1
  <2>2. CASE i \notin 1 .. Len(q) 
    <3>1. [q EXCEPT ![i] = r] = q BY <1>1, <2>2
    <3> QED BY <1>1, <3>1
  <2> QED BY <2>1, <2>2
<1>3. \A j \in 1 .. Len(q) : [q EXCEPT ![i] = r][j] = IF j = i THEN r ELSE q[j] BY <1>1
<1> DEFINE p == [q EXCEPT ![i] = r]
<1> HIDE DEF p
<1>4. p \in Seq(Region) /\ Len(p) = Len(q) BY <1>2, Mapped DEF p
<1> QED BY <1>3, <1>4 DEF p

\* as_cow moves no region.
LEMMA AsCow ==
  ASSUME NEW r \in Region
  PROVE  /\ as_cow(r) \in Region /\ as_cow(r).base = r.base /\ as_cow(r).size = r.size
         /\ as_cow(r).mmio = r.mmio /\ covers(as_cow(r)) = covers(r) /\ as_cow(r).cow
  BY DEF as_cow, Region, covers

\* The references dropped are a number.
LEMMA DropsNat ==
  ASSUME NEW s, NEW vs \in SUBSET Pages, NEW f
  PROVE  drops(s, vs, f) \in Nat
<1>1. {v \in vs : frame[s][v] = f} \in SUBSET Pages OBVIOUS
<1> QED BY <1>1, PagesFinite DEF drops

\* Releasing frames keeps bitmap and counts well-typed: counts saturate at
\* zero.
LEMMA ReleaseType ==
  ASSUME TypeOK, NEW s, NEW vs \in SUBSET Pages, release(s, vs)
  PROVE  used' \subseteq AllFrames /\ rc' \in [AllFrames -> Nat]
<1>1. \A f \in AllFrames : drops(s, vs, f) \in Nat  BY DropsNat
<1> QED BY <1>1 DEF release, rc_after, TypeOK

\* Owned pages are pages.
LEMMA OwnedPages == \A s, I : owned(s, I) \in SUBSET Pages
  BY DEF owned

\* vmm_space_alloc keeps the types.
LEMMA AllocType ==
  ASSUME TypeOK, NEW s \in Spaces, NEW b \in Pages, NEW n \in 1 .. REGION_PAGES,
         NEW w \in BOOLEAN,
         vmm_space_alloc(s, b, n, w)
  PROVE  TypeOK'
<1> DEFINE r == [base |-> b, size |-> n, write |-> w, cow |-> FALSE, mmio |-> FALSE]
<1>1. r \in Region /\ b .. b + n - 1 \subseteq Pages
  BY PagesAssumption DEF vmm_space_alloc, is_vaddr_range_free, Region, Pages
<1> HIDE DEF r
<1>2. insert(regions[s], r) \in Seq(Region)
  BY <1>1, InsertAt DEF TypeOK
<1>3. regions' = [regions EXCEPT ![s] = insert(regions[s], r)] BY DEF vmm_space_alloc, r, TypeOK
<1>4. regions' \in [Spaces -> Seq(Region)] BY <1>2, <1>3 DEF TypeOK
<1>5. PICK g \in [b .. b + n - 1 -> Frames \ used] :
          /\ used' = used \cup {g[v] : v \in DOMAIN g}
          /\ rc' = [f \in AllFrames |-> IF \E v \in DOMAIN g : g[v] = f THEN 1 ELSE rc[f]]
          /\ frame' = [frame EXCEPT ![s] = [v \in Pages |-> IF v \in DOMAIN g THEN g[v] ELSE frame[s][v]]]
          /\ wbit' = [wbit EXCEPT ![s] = [v \in Pages |-> IF v \in DOMAIN g THEN w ELSE wbit[s][v]]]
  BY DEF vmm_space_alloc, TypeOK
<1>6. used' \subseteq AllFrames /\ rc' \in [AllFrames -> Nat]
  BY <1>5 DEF TypeOK, AllFrames
<1>7. frame' \in [Spaces -> [Pages -> AllFrames \cup {NULL}]]
  BY <1>5 DEF TypeOK, AllFrames
<1>8. wbit' \in [Spaces -> [Pages -> BOOLEAN]]
  BY <1>5 DEF TypeOK
<1>9. wants' \in [Spaces -> SUBSET Pages] /\ live' \subseteq Spaces /\ panicked' \in BOOLEAN /\ data' \in [AllFrames -> Values]
  BY <1>1 DEF TypeOK, vmm_space_alloc
<1> QED BY <1>4, <1>6, <1>7, <1>8, <1>9 DEF TypeOK

\* vmm_space_free keeps the types.
LEMMA FreeType ==
  ASSUME TypeOK, NEW s \in Spaces, NEW i \in Pages, vmm_space_free(s, i)
  PROVE  TypeOK'
<1>1. used' \subseteq AllFrames /\ rc' \in [AllFrames -> Nat]
  BY ReleaseType, OwnedPages DEF vmm_space_free
<1>2. regions' \in [Spaces -> Seq(Region)]
  <2>1. regions[s] \in Seq(Region) /\ i \in 1 .. Len(regions[s]) BY DEF vmm_space_free, TypeOK
  <2> DEFINE q == regions[s]
  <2> HIDE DEF q
  <2>2. SubSeq(q, 1, i - 1) \in Seq(Region) /\ SubSeq(q, i + 1, Len(q)) \in Seq(Region)
    BY <2>1 DEF q
  <2>3. SubSeq(q, 1, i - 1) \o SubSeq(q, i + 1, Len(q)) \in Seq(Region)
    BY ONLY <2>2, Concat
  <2>4. regions' = [regions EXCEPT ![s] = SubSeq(q, 1, i - 1) \o SubSeq(q, i + 1, Len(q))]
    BY DEF q, vmm_space_free, TypeOK
  <2> QED BY <2>3, <2>4 DEF TypeOK
<1>3. frame' \in [Spaces -> [Pages -> AllFrames \cup {NULL}]]
  BY DEF TypeOK, vmm_space_free
<1>4. wbit' \in [Spaces -> [Pages -> BOOLEAN]]
  BY DEF TypeOK, vmm_space_free
<1>5. wants' \in [Spaces -> SUBSET Pages] /\ live' \subseteq Spaces /\ panicked' \in BOOLEAN /\ data' \in [AllFrames -> Values]
  BY DEF TypeOK, vmm_space_free
<1> QED BY <1>1, <1>2, <1>3, <1>4, <1>5 DEF TypeOK

\* vmm_clone_space keeps the types.
LEMMA CloneType ==
  ASSUME TypeOK, NEW s \in Spaces, NEW d \in Spaces, vmm_clone_space(s, d)
  PROVE  TypeOK'
<1>1. rc' \in [AllFrames -> Nat]
  <2>1. \A f \in AllFrames : drops(s, Pages, f) \in Nat BY DropsNat
  <2> QED BY <2>1 DEF TypeOK, vmm_clone_space, rc_shared
<1>2. regions' \in [Spaces -> Seq(Region)]
  <2> DEFINE q == regions[s] c == [i \in 1 .. Len(q) |-> as_cow(q[i])]
  <2>1. q \in Seq(Region) BY DEF TypeOK
  <2> HIDE DEF q
  <2>2. c \in [1 .. Len(q) -> Region] BY <2>1, AsCow
  <2>3. c \in Seq(Region) BY <2>1, <2>2, Mapped
  <2>4. regions' = [regions EXCEPT ![s] = c, ![d] = c] BY DEF vmm_clone_space, q
  <2> HIDE DEF c
  <2> QED BY <2>3, <2>4 DEF TypeOK
<1>3. frame' \in [Spaces -> [Pages -> AllFrames \cup {NULL}]]
  BY DEF TypeOK, vmm_clone_space
<1>4. wbit' \in [Spaces -> [Pages -> BOOLEAN]]
  BY DEF TypeOK, vmm_clone_space, no_bits, bits_shared
<1>5. wants' \in [Spaces -> SUBSET Pages] /\ live' \subseteq Spaces /\ panicked' \in BOOLEAN /\ data' \in [AllFrames -> Values] /\ used' \subseteq AllFrames
  BY DEF TypeOK, vmm_clone_space
<1> QED BY <1>1, <1>2, <1>3, <1>4, <1>5 DEF TypeOK

\* A clone that fails keeps the types.
LEMMA CloneFailsType ==
  ASSUME TypeOK, NEW s \in Spaces, NEW k \in Pages, vmm_clone_space_fails(s, k)
  PROVE  TypeOK'
<1> DEFINE back == owned(s, 1 .. k)
           kept == {v \in Pages \ back : \E i \in 1 .. k : v \in covers(regions[s][i])}
<1>1. /\ rc' = [f \in AllFrames |-> rc[f] + drops(s, kept, f)]
      /\ used' = {f \in used : drops(s, back, f) = 0 \/ rc'[f] # 0}
      /\ k \in 1 .. Len(regions[s]) - 1
      /\ wbit' = [wbit EXCEPT ![s] = [v \in Pages |-> @[v] /\ v \notin back \cup kept]]
      /\ regions' = [regions EXCEPT ![s] =
                         [i \in 1 .. Len(@) |-> IF i <= k THEN as_cow(@[i]) ELSE @[i]]]
      /\ UNCHANGED <<data, live, frame, wants, panicked>>
  BY DEF vmm_clone_space_fails
<1>0. kept \in SUBSET Pages OBVIOUS
<1> HIDE DEF back, kept
<1>2. rc' \in [AllFrames -> Nat]
  <2>2. \A f : drops(s, kept, f) \in Nat BY <1>0, DropsNat
  <2> QED BY <1>1, <2>2 DEF TypeOK
<1>3. regions' \in [Spaces -> Seq(Region)]
  <2> DEFINE q == regions[s] c == [i \in 1 .. Len(q) |-> IF i <= k THEN as_cow(q[i]) ELSE q[i]]
  <2>1. q \in Seq(Region) BY DEF TypeOK
  <2>4. regions' = [regions EXCEPT ![s] = c] BY <1>1 DEF TypeOK
  <2> HIDE DEF q
  <2>2. c \in [1 .. Len(q) -> Region] BY <2>1, AsCow
  <2>3. c \in Seq(Region) BY <2>1, <2>2, Mapped
  <2> HIDE DEF c
  <2> QED BY <2>3, <2>4 DEF TypeOK
<1>4. wbit' \in [Spaces -> [Pages -> BOOLEAN]]
  BY <1>1 DEF TypeOK
<1> QED BY <1>1, <1>2, <1>3, <1>4 DEF TypeOK

\* The page fault handler keeps the types: a count is lowered only when it is
\* above one.
LEMMA FaultType ==
  ASSUME TypeOK, NEW s \in Spaces, NEW v \in Pages, cow_page_fault_handler(s, v)
  PROVE  TypeOK'
<1>1. frame[s][v] \in AllFrames /\ live' = live /\ wants' = wants
  BY DEF TypeOK, cow_page_fault_handler, writes
<1>2. CASE is_cow(s, v) /\ vmm_cow_break(s, v)
  <2>1. ASSUME NEW f \in AllFrames, cow_broken(s, v, f)
        PROVE  /\ regions' \in [Spaces -> Seq(Region)]
               /\ frame' \in [Spaces -> [Pages -> AllFrames \cup {NULL}]]
               /\ wbit' \in [Spaces -> [Pages -> BOOLEAN]]
    <3> DEFINE q == regions[s] i == vmm_space_find(s, v) r == [q[i] EXCEPT !.cow = FALSE, !.write = TRUE]
    <3>1. q \in Seq(Region) /\ regions' = [regions EXCEPT ![s] = [q EXCEPT ![i] = r]]
      BY <2>1 DEF cow_broken, TypeOK
    <3>2. i \in 1 .. Len(q) => r \in Region
      <4>1. i \in 1 .. Len(q) => q[i] \in Region BY <3>1
      <4> HIDE DEF i, q
      <4> QED BY <4>1 DEF Region
    <3> HIDE DEF q, i, r
    <3>3. [q EXCEPT ![i] = r] \in Seq(Region) BY <3>1, <3>2, Changed
    <3> QED BY <2>1, <3>1, <3>3 DEF cow_broken, TypeOK
  <2>2. CASE cow_in_place(s, v)
    BY <1>1, <2>1, <2>2 DEF cow_in_place, TypeOK
  <2>3. CASE cow_copy(s, v)
    <3>1. rc[frame[s][v]] - 1 \in Nat BY <1>1, <2>3 DEF cow_copy, rc_after, TypeOK
    <3>2. PICK f \in Frames \ used :
          /\ used' = used \cup {f}
          /\ rc' = [rc EXCEPT ![frame[s][v]] = @ - 1, ![f] = 1]
          /\ data' = copied(frame[s][v], f)
          /\ cow_broken(s, v, f)
      BY <2>3 DEF cow_copy
    <3>3. f \in AllFrames BY DEF AllFrames
    <3>4. rc' \in [AllFrames -> Nat] /\ data' \in [AllFrames -> Values]
      BY <1>1, <3>1, <3>2, <3>3 DEF TypeOK, copied
    <3> QED BY <1>1, <2>1, <2>3, <3>2, <3>3, <3>4 DEF cow_copy, TypeOK
  <2>4. CASE cow_panic(s, v)
    <3>1. rc[frame[s][v]] - 1 \in Nat BY <1>1, <2>4 DEF cow_panic, rc_after, TypeOK
    <3> QED BY <1>1, <2>4, <3>1 DEF cow_panic, TypeOK
  <2> QED BY <1>2, <2>2, <2>3, <2>4 DEF vmm_cow_break
<1>3. CASE panicked' = TRUE /\ UNCHANGED <<memVars, regions, frame, wbit>>
  BY <1>1, <1>3 DEF TypeOK, memVars
<1> QED BY <1>2, <1>3 DEF cow_page_fault_handler

\* vmm_map_phys keeps the types.
LEMMA MapPhysType ==
  ASSUME TypeOK, NEW s \in Spaces, vmm_map_phys(s)
  PROVE  TypeOK'
<1> DEFINE r == [base |-> FB_MAP_VADDR, size |-> 1, write |-> TRUE, cow |-> FALSE, mmio |-> TRUE]
<1>1. r \in Region /\ FB_MAP_VADDR \in Pages
  BY PagesAssumption DEF Region, Pages
<1>2. regions' = [regions EXCEPT ![s] = insert(regions[s], r)] BY DEF vmm_map_phys, TypeOK
<1> HIDE DEF r
<1>3. insert(regions[s], r) \in Seq(Region) BY <1>1, InsertAt DEF TypeOK
<1>4. regions' \in [Spaces -> Seq(Region)] BY <1>2, <1>3 DEF TypeOK
<1>5. /\ frame' \in [Spaces -> [Pages -> AllFrames \cup {NULL}]]
      /\ wbit' \in [Spaces -> [Pages -> BOOLEAN]]
      /\ wants' \in [Spaces -> SUBSET Pages]
  BY <1>1 DEF vmm_map_phys, TypeOK, AllFrames
<1> QED BY <1>4, <1>5 DEF vmm_map_phys, TypeOK, memVars

\* vmm_space_destroy keeps the types.
LEMMA DestroyType ==
  ASSUME TypeOK, NEW s \in Spaces, vmm_space_destroy(s)
  PROVE  TypeOK'
<1>1. used' \subseteq AllFrames /\ rc' \in [AllFrames -> Nat]
  BY ReleaseType, OwnedPages DEF vmm_space_destroy
<1>2. regions' \in [Spaces -> Seq(Region)] BY DEF vmm_space_destroy, TypeOK
<1>3. /\ frame' \in [Spaces -> [Pages -> AllFrames \cup {NULL}]]
      /\ wbit' \in [Spaces -> [Pages -> BOOLEAN]]
      /\ wants' \in [Spaces -> SUBSET Pages]
  BY DEF vmm_space_destroy, TypeOK, nothing_mapped, no_bits
<1> QED BY <1>1, <1>2, <1>3 DEF vmm_space_destroy, TypeOK

\* Every step keeps the types.
LEMMA TypeStep == TypeOK /\ [Next]_vars => TypeOK'
<1> SUFFICES ASSUME TypeOK, [Next]_vars PROVE TypeOK' OBVIOUS
<1>1. CASE UNCHANGED vars BY <1>1 DEF vars, memVars, TypeOK
<1>2. ASSUME NEW s \in Spaces, vmm_space_create(s) PROVE TypeOK'
  BY <1>2 DEF vmm_space_create, TypeOK, memVars
<1>3. ASSUME NEW s \in Spaces, NEW b \in Pages,
             NEW n \in 1 .. REGION_PAGES, vmm_space_alloc_fails(s, b, n)
      PROVE TypeOK'
  BY <1>3 DEF vmm_space_alloc_fails, TypeOK
<1>4. ASSUME NEW s \in Spaces, NEW v \in Pages, NEW val \in Values, store(s, v, val)
      PROVE TypeOK'
  BY <1>4 DEF store, TypeOK
<1>5. CASE Next
  BY <1>1, <1>2, <1>3, <1>4, <1>5, AllocType, FreeType, CloneType, CloneFailsType, FaultType,
     MapPhysType, DestroyType DEF Next, halted
<1> QED BY <1>1, <1>5

\* The types hold at boot.
LEMMA TypeInit == Init => TypeOK
<1> SUFFICES ASSUME Init PROVE TypeOK OBVIOUS
<1>1. used \subseteq AllFrames /\ rc \in [AllFrames -> Nat] /\ data \in [AllFrames -> Values]
  BY DEF Init, AllFrames
<1>2. regions \in [Spaces -> Seq(Region)] /\ frame \in [Spaces -> [Pages -> AllFrames \cup {NULL}]]
  BY DEF Init, nothing_mapped
<1> QED BY <1>1, <1>2 DEF Init, TypeOK, no_bits

\* CowSpaces is type-correct, in every situation: reference counts stay natural
\* numbers, page table entries hold frames, region lists hold regions within the
\* address space.
THEOREM TypeCorrect == Spec => []TypeOK
BY TypeInit, TypeStep, PTL DEF Spec

-----------------------------------------------------------------------------
(* Counts and privacy.                                                     *)

\* Only entries that hold a frame are writable.
BitsOnMapped == \A s \in Spaces, v \in Pages : wbit[s][v] => frame[s][v] # NULL

\* The inductive invariant behind copy-on-write.
CowSound == TypeOK /\ BitsOnMapped /\ CountsMappings /\ WritableIsPrivate

\* mappers as a function of the page tables.
LEMMA MappersAre ==
  ASSUME NEW f
  PROVE  /\ mappers(f) = maps(frame, f)
         /\ IsFiniteSet(mappers(f)) /\ Cardinality(mappers(f)) \in Nat
  BY MapsFinite DEF mappers, maps

\* The same after the step.
LEMMA MappersAreNext ==
  ASSUME NEW CONSTANT f
  PROVE  /\ mappers(f)' = maps(frame', f)
         /\ IsFiniteSet(mappers(f)') /\ Cardinality(mappers(f)') \in Nat
  BY MapsFinite DEF mappers, maps

\* Entries only go: no count of mappings rises.
LEMMA FewerMappers ==
  ASSUME NEW CONSTANT f, NEW CONSTANT s \in Spaces, NEW CONSTANT D \in SUBSET Pages,
         \A v \in D : frame[s][v] = f /\ frame'[s][v] # f,
         \A u \in Spaces, v \in Pages : frame'[u][v] = f => frame[u][v] = f
  PROVE  /\ Cardinality(mappers(f)') <= Cardinality(mappers(f)) - Cardinality(D)
         /\ mappers(f)' \subseteq mappers(f)
<1>1. Cardinality(maps(frame', f)) <= Cardinality(maps(frame, f)) - Cardinality(D)
  BY Cleared
<1>2. mappers(f)' \subseteq mappers(f) BY DEF mappers
<1> QED BY <1>1, <1>2, MappersAre, MappersAreNext

\* Entries for f that do not move.
LEMMA SameMappers ==
  ASSUME NEW CONSTANT f,
         \A u \in Spaces, v \in Pages : frame'[u][v] = f <=> frame[u][v] = f
  PROVE  mappers(f)' = mappers(f)
  BY DEF mappers

\* Entries for f that only go.
LEMMA SubsetMappers ==
  ASSUME NEW CONSTANT f,
         \A u \in Spaces, v \in Pages : frame'[u][v] = f => frame[u][v] = f
  PROVE  mappers(f)' \subseteq mappers(f) /\ Cardinality(mappers(f)') <= Cardinality(mappers(f))
<1>1. mappers(f)' \subseteq mappers(f) BY DEF mappers
<1> QED BY <1>1, MappersAre, FS_Subset

\* No entry is a count of zero.
LEMMA NoneMapped ==
  ASSUME NEW f PROVE Cardinality(mappers(f)) = 0 <=> mappers(f) = {}
  BY MappersAre, FS_EmptySet

\* The entries for a frame that is mapped at v are one or more, one only if v
\* is all.
LEMMA OneMapped ==
  ASSUME NEW f, NEW s \in Spaces, NEW v \in Pages, frame[s][v] = f
  PROVE  Cardinality(mappers(f)) >= 1 /\ (Cardinality(mappers(f)) = 1 <=> mappers(f) = {<<s, v>>})
<1>1. <<s, v>> \in mappers(f) BY DEF mappers
<1>2. Cardinality(mappers(f)) # 0 BY <1>1, NoneMapped
<1>3. Cardinality(mappers(f)) = 1 <=> \E x : mappers(f) = {x} BY MappersAre, FS_Singleton
<1> QED BY <1>1, <1>2, <1>3, MappersAre

\* What CountsMappings says of one frame.
Counted(f) ==
    /\ f \in used => \/ Cardinality(mappers(f)) <= rc[f]
                     \/ (Cardinality(mappers(f)) = 1 /\ rc[f] = 0)
    /\ f \notin used => mappers(f) = {} /\ rc[f] = 0

\* Whatever a frame loses in entries, and gains in its count, it stays counted.
LEMMA StaysCounted ==
  ASSUME NEW CONSTANT f, Counted(f), f \in used <=> f \in used', rc[f] \in Nat, rc'[f] = rc[f],
         \A u \in Spaces, v \in Pages : frame'[u][v] = f => frame[u][v] = f
  PROVE  Counted(f)'
<1>1. mappers(f)' \subseteq mappers(f) /\ Cardinality(mappers(f)') <= Cardinality(mappers(f))
  BY SubsetMappers
<1>2. Cardinality(mappers(f)') \in Nat /\ Cardinality(mappers(f)) \in Nat
  BY MappersAre, MappersAreNext
<1> DEFINE m == Cardinality(mappers(f)) k == Cardinality(mappers(f)')
<1> HIDE DEF m, k
<1>3. f \in used => m <= rc[f] \/ (m = 1 /\ rc[f] = 0) BY DEF Counted, m
<1>4. m \in Nat /\ k \in Nat /\ k <= m BY <1>1, <1>2 DEF m, k
<1>5. f \in used' => k <= rc'[f] \/ (k = 1 /\ rc'[f] = 0) BY <1>3, <1>4
<1>6. f \notin used' => mappers(f)' = {} /\ rc'[f] = 0 BY <1>1 DEF Counted
<1> QED BY <1>5, <1>6 DEF Counted, k

\* Dropping the entries of vs, vmm_space_free frees a frame only with its last
\* entry.
LEMMA ReleaseCounted ==
  ASSUME TypeOK, NEW CONSTANT f \in Frames, Counted(f), NEW CONSTANT s \in Spaces,
         NEW vs \in SUBSET Pages, release(s, vs),
         \A v \in vs : frame'[s][v] = NULL,
         \A u \in Spaces, v \in Pages : frame'[u][v] \in {frame[u][v], NULL}
  PROVE  Counted(f)'
<1> DEFINE D == {v \in vs : frame[s][v] = f} n == drops(s, vs, f)
           m == Cardinality(mappers(f)) k == Cardinality(mappers(f)')
<1>1. f # NULL /\ f \in AllFrames BY FramesAssumption DEF AllFrames
<1>2. n = Cardinality(D) /\ n \in Nat
  <2>1. n = Cardinality(D) BY DEF drops
  <2>2. n \in Nat BY DropsNat
  <2> QED BY <2>1, <2>2
<1>3. rc[f] \in Nat BY <1>1 DEF TypeOK
<1>4. rc'[f] = rc_after(n, f) /\ (f \in used' <=> f \in used /\ (n = 0 \/ rc'[f] # 0))
  BY <1>1 DEF release
<1>5. k <= m - n /\ mappers(f)' \subseteq mappers(f)
  <2>1. D \in SUBSET Pages OBVIOUS
  <2>2. \A v \in D : frame[s][v] = f /\ frame'[s][v] # f BY <1>1
  <2>3. \A u \in Spaces, v \in Pages : frame'[u][v] = f => frame[u][v] = f BY <1>1
  <2>4. Cardinality(maps(frame', f)) <= Cardinality(maps(frame, f)) - Cardinality(D)
    <3> HIDE DEF D
    <3> QED BY <2>1, <2>2, <2>3, Cleared
  <2>5. mappers(f)' \subseteq mappers(f) BY <2>3 DEF mappers
  <2> QED BY <1>2, <2>4, <2>5, MappersAre, MappersAreNext
<1>6. k \in Nat /\ m \in Nat BY MappersAre, MappersAreNext
<1>7. f \in used => m <= rc[f] \/ (m = 1 /\ rc[f] = 0) BY DEF Counted
<1>8. k = 0 => mappers(f)' = {} BY MappersAreNext, FS_EmptySet
<1>9. f \notin used => mappers(f)' = {} /\ rc[f] = 0 BY <1>5 DEF Counted
<1> HIDE DEF D, n, m, k
<1>10. f \in used' => k <= rc'[f] \/ (k = 1 /\ rc'[f] = 0)
  BY <1>2, <1>3, <1>4, <1>5, <1>6, <1>7 DEF rc_after
<1>11. f \notin used' => mappers(f)' = {} /\ rc'[f] = 0
  <2>1. CASE f \notin used
    BY <2>1, <1>2, <1>4, <1>9 DEF rc_after
  <2>2. CASE f \in used /\ f \notin used'
    <3>1. n # 0 /\ rc'[f] = 0 BY <2>2, <1>4
    <3>2. rc[f] <= n BY <3>1, <1>2, <1>3, <1>4 DEF rc_after
    <3>3. k = 0 BY <2>2, <3>1, <3>2, <1>2, <1>3, <1>5, <1>6, <1>7
    <3> QED BY <3>1, <3>3, <1>8
  <2> QED BY <2>1, <2>2
<1> QED BY <1>10, <1>11 DEF Counted, k

\* Entries that go take no privacy with them.
LEMMA ShrunkPrivate ==
  ASSUME TypeOK, BitsOnMapped, WritableIsPrivate,
         \A u \in Spaces, v \in Pages : wbit'[u][v] => wbit[u][v] /\ frame'[u][v] = frame[u][v],
         \A u \in Spaces, v \in Pages : frame'[u][v] \in {frame[u][v], NULL, Backbuffer}
  PROVE  BitsOnMapped' /\ WritableIsPrivate'
<1>1. BitsOnMapped' BY DEF BitsOnMapped
<1>2. ASSUME NEW CONSTANT u \in Spaces,
             NEW CONSTANT v \in Pages, wbit'[u][v], frame'[u][v] # Backbuffer
      PROVE  {e \in Spaces \X Pages : frame'[e[1]][e[2]] = frame'[u][v]} = {<<u, v>>}
  <2>1. wbit[u][v] /\ frame'[u][v] = frame[u][v] /\ frame[u][v] # NULL BY <1>2 DEF BitsOnMapped
  <2>2. {e \in Spaces \X Pages : frame[e[1]][e[2]] = frame[u][v]} = {<<u, v>>}
    BY <1>2, <2>1 DEF WritableIsPrivate, mappers
  <2> QED BY <1>2, <2>1, <2>2
<1>3. WritableIsPrivate' BY <1>2 DEF WritableIsPrivate, mappers
<1> QED BY <1>1, <1>3

\* CountsMappings, frame by frame.
LEMMA CountsAre == CountsMappings <=> (~panicked => \A f \in Frames : Counted(f))
  BY DEF CountsMappings, Counted

\* The same after the step.
LEMMA CountsAreNext == CountsMappings' <=> (~panicked' => \A f \in Frames : Counted(f)')
  BY DEF CountsMappings, Counted

\* vmm_space_alloc maps frames that were in no page table, each at one page.
LEMMA AllocCow ==
  ASSUME CowSound, NEW CONSTANT s \in Spaces, NEW CONSTANT b \in Pages,
         NEW CONSTANT n \in 1 .. REGION_PAGES, NEW CONSTANT w \in BOOLEAN,
         vmm_space_alloc(s, b, n, w)
  PROVE  BitsOnMapped' /\ CountsMappings' /\ WritableIsPrivate'
<1> DEFINE new == b .. b + n - 1
<1>1. PICK g \in [new -> Frames \ used] :
          /\ \A v, x \in new : g[v] = g[x] => v = x
          /\ used' = used \cup {g[v] : v \in DOMAIN g}
          /\ rc' = [f \in AllFrames |-> IF \E v \in DOMAIN g : g[v] = f THEN 1 ELSE rc[f]]
          /\ frame' = [frame EXCEPT ![s] = [v \in Pages |-> IF v \in DOMAIN g THEN g[v] ELSE frame[s][v]]]
          /\ wbit' = [wbit EXCEPT ![s] = [v \in Pages |-> IF v \in DOMAIN g THEN w ELSE wbit[s][v]]]
  BY DEF vmm_space_alloc, CowSound, TypeOK
<1>2. new \subseteq Pages /\ ~panicked /\ ~panicked'
  BY PagesAssumption DEF vmm_space_alloc, is_vaddr_range_free, Pages, up
<1> HIDE DEF new
<1>3. DOMAIN g = new /\ \A v \in new : g[v] \in Frames /\ g[v] \notin used /\ g[v] # NULL
  BY <1>1, FramesAssumption DEF AllFrames
<1>4. \A u \in Spaces, v \in Pages :
         /\ frame'[u][v] = IF u = s /\ v \in new THEN g[v] ELSE frame[u][v]
         /\ wbit'[u][v] = IF u = s /\ v \in new THEN w ELSE wbit[u][v]
  BY <1>1, <1>2, <1>3 DEF CowSound, TypeOK
<1>5. \A f \in Frames : rc'[f] = IF \E v \in new : g[v] = f THEN 1 ELSE rc[f]
  BY <1>1, <1>3 DEF AllFrames
<1>6. \A f \in Frames : Counted(f) BY <1>2, CountsAre DEF CowSound
<1>7. ASSUME NEW CONSTANT x \in new
      PROVE  mappers(g[x])' = {<<s, x>>}
  <2>1. mappers(g[x]) = {} BY <1>3, <1>6 DEF Counted
  <2>2. ASSUME NEW u \in Spaces, NEW v \in Pages, frame[u][v] = g[x] PROVE FALSE
    <3>1. <<u, v>> \in mappers(g[x]) BY <2>2 DEF mappers
    <3> QED BY <2>1, <3>1
  <2>3. \A u \in Spaces, v \in Pages : frame'[u][v] = g[x] <=> u = s /\ v = x
    BY <1>1, <1>2, <1>4, <2>2
  <2> QED BY <1>2, <2>3 DEF mappers
<1>8. CountsMappings'
  <2> SUFFICES ASSUME NEW CONSTANT f \in Frames PROVE Counted(f)' BY CountsAreNext
  <2>1. CASE \E v \in new : g[v] = f
    <3>1. PICK x \in new : g[x] = f BY <2>1
    <3>2. f \in used' /\ rc'[f] = 1 BY <2>1, <1>1, <1>3, <1>5
    <3>3. mappers(f)' = {<<s, x>>} BY <3>1, <1>7
    <3>4. Cardinality(mappers(f)') = 1 BY <3>3, FS_Singleton
    <3> QED BY <3>2, <3>4 DEF Counted
  <2>2. CASE ~ \E v \in new : g[v] = f
    <3>1. (f \in used <=> f \in used') /\ rc'[f] = rc[f] BY <2>2, <1>1, <1>3, <1>5
    <3>2. rc[f] \in Nat BY DEF CowSound, TypeOK, AllFrames
    <3>3. \A u \in Spaces, v \in Pages : frame'[u][v] = f => frame[u][v] = f BY <2>2, <1>4
    <3> QED BY <3>1, <3>2, <3>3, <1>6, StaysCounted
  <2> QED BY <2>1, <2>2
<1>9. BitsOnMapped' BY <1>3, <1>4 DEF BitsOnMapped, CowSound
<1>10. WritableIsPrivate'
  <2> SUFFICES ASSUME NEW CONSTANT u \in Spaces,
                      NEW CONSTANT v \in Pages, wbit'[u][v], frame'[u][v] # Backbuffer
               PROVE  {e \in Spaces \X Pages : frame'[e[1]][e[2]] = frame'[u][v]} = {<<u, v>>}
    BY DEF WritableIsPrivate, mappers
  <2>1. CASE u = s /\ v \in new
    BY <2>1, <1>4, <1>7 DEF mappers
  <2>2. CASE ~ (u = s /\ v \in new)
    <3>1. wbit[u][v] /\ frame'[u][v] = frame[u][v] /\ frame[u][v] # NULL
      BY <2>2, <1>4 DEF CowSound, BitsOnMapped
    <3>2. {e \in Spaces \X Pages : frame[e[1]][e[2]] = frame[u][v]} = {<<u, v>>}
      BY <3>1 DEF WritableIsPrivate, mappers, CowSound
    <3>3. frame[u][v] \in Frames BY <3>1 DEF CowSound, TypeOK, AllFrames
    <3>4. frame[u][v] \in used BY <3>2, <3>3, <1>6 DEF Counted, mappers
    <3>5. \A x \in Spaces, y \in Pages : frame'[x][y] = frame[u][v] <=> frame[x][y] = frame[u][v]
      <4> TAKE x \in Spaces, y \in Pages
      <4>1. CASE x = s /\ y \in new
        <5>1. frame'[x][y] # frame[u][v] BY <4>1, <1>3, <1>4, <3>4
        <5>2. frame[x][y] # frame[u][v]
          <6>1. ASSUME frame[x][y] = frame[u][v] PROVE FALSE
            <7>1. <<x, y>> \in {e \in Spaces \X Pages : frame[e[1]][e[2]] = frame[u][v]} BY <6>1
            <7> QED BY <7>1, <3>2, <4>1, <2>2
          <6> QED BY <6>1
        <5> QED BY <5>1, <5>2
      <4>2. CASE ~ (x = s /\ y \in new) BY <4>2, <1>4
      <4> QED BY <4>1, <4>2
    <3> QED BY <3>1, <3>2, <3>5
  <2> QED BY <2>1, <2>2
<1> QED BY <1>8, <1>9, <1>10

\* vmm_space_free keeps the counts sound.
LEMMA FreeCow ==
  ASSUME CowSound, NEW CONSTANT s \in Spaces, NEW CONSTANT i \in Pages, vmm_space_free(s, i)
  PROVE  BitsOnMapped' /\ CountsMappings' /\ WritableIsPrivate'
<1> DEFINE vs == owned(s, {i})
<1>1. vs \in SUBSET Pages /\ release(s, vs) /\ ~panicked /\ ~panicked'
  BY OwnedPages DEF vmm_space_free, up
<1>2. \A u \in Spaces, v \in Pages :
         /\ frame'[u][v] = IF u = s /\ v \in covers(regions[s][i]) THEN NULL ELSE frame[u][v]
         /\ wbit'[u][v] = IF u = s /\ v \in covers(regions[s][i]) THEN FALSE ELSE wbit[u][v]
  BY DEF vmm_space_free, freed, CowSound, TypeOK
<1>3. \A v \in vs : frame'[s][v] = NULL BY <1>1, <1>2 DEF owned
<1> HIDE DEF vs
<1>4. CountsMappings'
  <2> SUFFICES ASSUME NEW CONSTANT f \in Frames PROVE Counted(f)' BY CountsAreNext
  <2>1. Counted(f) BY <1>1, CountsAre DEF CowSound
  <2> QED BY <2>1, <1>1, <1>2, <1>3, ReleaseCounted DEF CowSound
<1>5. BitsOnMapped' /\ WritableIsPrivate'
  BY <1>2, ShrunkPrivate DEF CowSound
<1> QED BY <1>4, <1>5

\* vmm_space_destroy keeps the counts sound.
LEMMA DestroyCow ==
  ASSUME CowSound, NEW CONSTANT s \in Spaces, vmm_space_destroy(s)
  PROVE  BitsOnMapped' /\ CountsMappings' /\ WritableIsPrivate'
<1> DEFINE vs == owned(s, 1 .. Len(regions[s]))
<1>1. vs \in SUBSET Pages /\ release(s, vs) /\ ~panicked /\ ~panicked'
  BY OwnedPages DEF vmm_space_destroy, up
<1>2. \A u \in Spaces, v \in Pages :
         /\ frame'[u][v] = IF u = s THEN NULL ELSE frame[u][v]
         /\ wbit'[u][v] = IF u = s THEN FALSE ELSE wbit[u][v]
  BY DEF vmm_space_destroy, nothing_mapped, no_bits, CowSound, TypeOK
<1> HIDE DEF vs
<1>3. \A v \in vs : frame'[s][v] = NULL BY <1>1, <1>2
<1>4. CountsMappings'
  <2> SUFFICES ASSUME NEW CONSTANT f \in Frames PROVE Counted(f)' BY CountsAreNext
  <2>1. Counted(f) BY <1>1, CountsAre DEF CowSound
  <2> QED BY <2>1, <1>1, <1>2, <1>3, ReleaseCounted DEF CowSound
<1>5. BitsOnMapped' /\ WritableIsPrivate'
  BY <1>2, ShrunkPrivate DEF CowSound
<1> QED BY <1>4, <1>5

\* No reference goes if no page is on the frame.
LEMMA NoDrops ==
  ASSUME NEW s, NEW vs \in SUBSET Pages, NEW f
  PROVE  drops(s, vs, f) = 0 <=> \A v \in vs : frame[s][v] # f
<1> DEFINE D == {v \in vs : frame[s][v] = f}
<1>1. IsFiniteSet(D) BY PagesFinite
<1>2. Cardinality(D) = 0 <=> D = {} BY <1>1, FS_EmptySet
<1> QED BY <1>2 DEF drops

\* vmm_clone_space adds to every count the entries it adds; a frame of count
\* zero is not shared.
LEMMA CloneCow ==
  ASSUME CowSound, "refork" \notin Situations, NEW CONSTANT s \in Spaces,
         NEW CONSTANT d \in Spaces,
         vmm_clone_space(s, d)
  PROVE  BitsOnMapped' /\ CountsMappings' /\ WritableIsPrivate'
<1>1. /\ s # d /\ ~panicked /\ ~panicked' /\ used' = used
      /\ \A v \in Pages : frame[s][v] # NULL => rc[frame[s][v]] > 0
  BY DEF vmm_clone_space, may_fork, up
<1>2. \A u \in Spaces, v \in Pages :
         /\ frame'[u][v] = IF u = d THEN frame[s][v] ELSE frame[u][v]
         /\ wbit'[u][v] = IF u \in {s, d} THEN FALSE ELSE wbit[u][v]
  BY <1>1 DEF vmm_clone_space, CowSound, TypeOK, no_bits, bits_shared
<1>3. \A f \in Frames : rc'[f] = rc[f] + drops(s, Pages, f)
  BY DEF vmm_clone_space, rc_shared, AllFrames
<1>4. CountsMappings'
  <2> SUFFICES ASSUME NEW CONSTANT f \in Frames PROVE Counted(f)' BY CountsAreNext
  <2> DEFINE D == {v \in Pages : frame[s][v] = f} n == drops(s, Pages, f)
             m == Cardinality(mappers(f)) k == Cardinality(mappers(f)')
  <2>1. Counted(f) /\ f # NULL BY <1>1, CountsAre, FramesAssumption DEF CowSound, AllFrames
  <2>2. n \in Nat BY DropsNat
  <2>3. k <= m + n
    <3>1. Cardinality(maps(frame', f)) <= Cardinality(maps(frame, f)) + Cardinality(D)
      <4>1. D \in SUBSET Pages OBVIOUS
      <4>2. \A u \in Spaces, v \in Pages : frame'[u][v] = f => frame[u][v] = f \/ (u = d /\ v \in D)
        BY <1>2
      <4> HIDE DEF D
      <4> QED BY <4>1, <4>2, Added
    <3>2. n = Cardinality(D) BY DEF drops
    <3> QED BY <3>1, <3>2, MappersAre, MappersAreNext
  <2>4. k \in Nat /\ m \in Nat /\ rc[f] \in Nat
    BY MappersAre, MappersAreNext DEF CowSound, TypeOK, AllFrames
  <2>5. rc[f] = 0 => n = 0 /\ \A v \in Pages : frame[s][v] # f
    <3>1. rc[f] = 0 => \A v \in Pages : frame[s][v] # f BY <1>1, <2>1
    <3> QED BY <3>1, NoDrops
  <2>6. f \in used => m <= rc[f] \/ (m = 1 /\ rc[f] = 0) BY <2>1 DEF Counted
  <2>7. f \notin used => mappers(f) = {} /\ rc[f] = 0 BY <2>1 DEF Counted
  <2>8. rc'[f] = rc[f] + n BY <1>3
  <2>9. f \notin used' => mappers(f)' = {} /\ rc'[f] = 0
    <3>1. CASE f \notin used
      <4>1. n = 0 /\ \A v \in Pages : frame[s][v] # f BY <3>1, <2>5, <2>7
      <4>2. \A u \in Spaces, v \in Pages : frame'[u][v] = f => frame[u][v] = f BY <4>1, <1>2
      <4>3. mappers(f)' \subseteq mappers(f) BY <4>2, SubsetMappers
      <4> QED BY <3>1, <4>1, <4>3, <2>7, <2>8
    <3> QED BY <3>1, <1>1
  <2> HIDE DEF D, n, m, k
  <2>10. f \in used' => k <= rc'[f] \/ (k = 1 /\ rc'[f] = 0)
    BY <1>1, <2>2, <2>3, <2>4, <2>5, <2>6, <2>8
  <2> QED BY <2>9, <2>10 DEF Counted, k
<1>5. BitsOnMapped' BY <1>2 DEF BitsOnMapped, CowSound
<1>6. WritableIsPrivate'
  <2> SUFFICES ASSUME NEW CONSTANT u \in Spaces,
                      NEW CONSTANT v \in Pages, wbit'[u][v], frame'[u][v] # Backbuffer
               PROVE  {e \in Spaces \X Pages : frame'[e[1]][e[2]] = frame'[u][v]} = {<<u, v>>}
    BY DEF WritableIsPrivate, mappers
  <2>1. u # s /\ u # d /\ wbit[u][v] /\ frame'[u][v] = frame[u][v] BY <1>2
  <2>2. {e \in Spaces \X Pages : frame[e[1]][e[2]] = frame[u][v]} = {<<u, v>>}
    BY <2>1 DEF CowSound, WritableIsPrivate, mappers
  <2>3. ASSUME NEW x \in Spaces, NEW y \in Pages, frame[x][y] = frame[u][v] PROVE x = u /\ y = v
    <3>1. <<x, y>> \in {e \in Spaces \X Pages : frame[e[1]][e[2]] = frame[u][v]} BY <2>3
    <3> QED BY <3>1, <2>2
  <2>4. \A x \in Spaces, y \in Pages : frame'[x][y] = frame[u][v] <=> x = u /\ y = v
    <3> TAKE x \in Spaces, y \in Pages
    <3>1. CASE x = d
      <4>1. frame'[x][y] = frame[s][y] BY <3>1, <1>2
      <4>2. frame[s][y] # frame[u][v] BY <2>1, <2>3
      <4> QED BY <3>1, <4>1, <4>2, <2>1
    <3>2. CASE x # d
      <4>1. frame'[x][y] = frame[x][y] BY <3>2, <1>2
      <4> QED BY <4>1, <2>3
    <3> QED BY <3>1, <3>2
  <2> QED BY <2>1, <2>4
<1> QED BY <1>4, <1>5, <1>6

\* A clone that fails leaves no count below the entries there are.
LEMMA CloneFailsCow ==
  ASSUME CowSound, "refork" \notin Situations, NEW CONSTANT s \in Spaces,
         NEW CONSTANT k \in Pages,
         vmm_clone_space_fails(s, k)
  PROVE  BitsOnMapped' /\ CountsMappings' /\ WritableIsPrivate'
<1> DEFINE back == owned(s, 1 .. k)
           kept == {v \in Pages \ back : \E i \in 1 .. k : v \in covers(regions[s][i])}
<1>1. /\ rc' = [f \in AllFrames |-> rc[f] + drops(s, kept, f)]
      /\ used' = {f \in used : drops(s, back, f) = 0 \/ rc'[f] # 0}
      /\ wbit' = [wbit EXCEPT ![s] = [v \in Pages |-> @[v] /\ v \notin back \cup kept]]
      /\ frame' = frame /\ ~panicked /\ ~panicked'
      /\ \A v \in Pages : frame[s][v] # NULL => rc[frame[s][v]] > 0
  BY DEF vmm_clone_space_fails, may_fork, up
<1>2. back \in SUBSET Pages /\ kept \in SUBSET Pages BY OwnedPages
<1> HIDE DEF back, kept
<1>3. CountsMappings'
  <2> SUFFICES ASSUME NEW CONSTANT f \in Frames PROVE Counted(f)' BY CountsAreNext
  <2>1. Counted(f) /\ f # NULL BY <1>1, CountsAre, FramesAssumption DEF CowSound, AllFrames
  <2>2. drops(s, kept, f) \in Nat /\ rc[f] \in Nat /\ rc'[f] = rc[f] + drops(s, kept, f)
    BY <1>1, <1>2, DropsNat DEF CowSound, TypeOK, AllFrames
  <2>3. rc[f] = 0 => \A v \in Pages : frame[s][v] # f BY <1>1, <2>1
  <2>4. rc[f] = 0 => drops(s, kept, f) = 0 /\ drops(s, back, f) = 0 BY <2>3, <1>2, NoDrops
  <2>5. f \in used <=> f \in used' BY <1>1, <2>2, <2>4
  <2>6. mappers(f)' = mappers(f) BY <1>1 DEF mappers
  <2> DEFINE m == Cardinality(mappers(f))
  <2>7. m \in Nat BY MappersAre
  <2>8. f \in used => m <= rc[f] \/ (m = 1 /\ rc[f] = 0) BY <2>1 DEF Counted
  <2>9. f \notin used => mappers(f) = {} /\ rc[f] = 0 BY <2>1 DEF Counted
  <2> HIDE DEF m
  <2>10. f \in used' => m <= rc'[f] \/ (m = 1 /\ rc'[f] = 0) BY <2>2, <2>4, <2>5, <2>7, <2>8
  <2>11. f \notin used' => rc'[f] = 0 BY <2>2, <2>4, <2>5, <2>9
  <2> QED BY <2>5, <2>6, <2>9, <2>10, <2>11 DEF Counted, m
<1>4. \A u \in Spaces, v \in Pages : wbit'[u][v] => wbit[u][v]
  BY <1>1 DEF CowSound, TypeOK
<1> QED BY <1>1, <1>3, <1>4, ShrunkPrivate DEF CowSound

\* vmm_cow_break makes a page writable in place only where it is the last
\* entry.
LEMMA InPlaceCow ==
  ASSUME CowSound, NEW CONSTANT s \in Spaces, NEW CONSTANT v \in Pages,
         up(s), frame[s][v] # NULL, cow_in_place(s, v)
  PROVE  BitsOnMapped' /\ CountsMappings' /\ WritableIsPrivate'
<1> DEFINE f0 == frame[s][v]
<1>1. f0 \in AllFrames /\ ~panicked /\ ~panicked' BY DEF CowSound, TypeOK, up, cow_in_place
<1>2. /\ frame' = frame /\ used' = used /\ rc[f0] \in Nat /\ rc[f0] <= 1
      /\ \A f \in Frames : rc'[f] = IF f = f0 THEN 0 ELSE rc[f]
  BY <1>1 DEF cow_in_place, cow_broken, rc_after, CowSound, TypeOK, AllFrames
<1>3. \A u \in Spaces, x \in Pages : wbit'[u][x] = IF u = s /\ x = v THEN TRUE ELSE wbit[u][x]
  BY DEF cow_in_place, cow_broken, CowSound, TypeOK
<1>4. f0 \in Frames => Cardinality(mappers(f0)) = 1
  <2> SUFFICES ASSUME f0 \in Frames PROVE Cardinality(mappers(f0)) = 1 OBVIOUS
  <2>1. Counted(f0) BY <1>1, CountsAre DEF CowSound
  <2>2. Cardinality(mappers(f0)) >= 1 /\ Cardinality(mappers(f0)) \in Nat
    BY OneMapped, MappersAre
  <2>3. f0 \in used
    <3>1. f0 \notin used => mappers(f0) = {} BY <2>1 DEF Counted
    <3>2. <<s, v>> \in mappers(f0) BY DEF mappers
    <3> QED BY <3>1, <3>2
  <2> HIDE DEF f0
  <2> QED BY <2>1, <2>2, <2>3, <1>2 DEF Counted
<1>5. \A f : mappers(f)' = mappers(f) BY <1>2 DEF mappers
<1>6. CountsMappings'
  <2> SUFFICES ASSUME NEW CONSTANT f \in Frames PROVE Counted(f)' BY CountsAreNext
  <2>1. Counted(f) /\ mappers(f)' = mappers(f) BY <1>1, <1>2, CountsAre DEF CowSound, mappers
  <2>2. CASE f = f0
    <3>1. Cardinality(mappers(f)') = 1 /\ rc'[f] = 0 /\ mappers(f) # {}
      BY <2>1, <2>2, <1>2, <1>4, NoneMapped
    <3> QED BY <2>1, <3>1, <1>2 DEF Counted
  <2>3. CASE f # f0 BY <2>1, <2>3, <1>2 DEF Counted
  <2> QED BY <2>2, <2>3
<1>7. BitsOnMapped' BY <1>2, <1>3 DEF BitsOnMapped, CowSound
<1>8. WritableIsPrivate'
  <2> SUFFICES ASSUME NEW CONSTANT u \in Spaces,
                      NEW CONSTANT x \in Pages, wbit'[u][x], frame[u][x] # Backbuffer
               PROVE  mappers(frame[u][x]) = {<<u, x>>}
    BY <1>2 DEF WritableIsPrivate, mappers
  <2>1. CASE u = s /\ x = v BY <2>1, <1>1, <1>4, OneMapped DEF AllFrames
  <2>2. CASE ~ (u = s /\ x = v) BY <2>2, <1>3 DEF CowSound, WritableIsPrivate
  <2> QED BY <2>1, <2>2
<1> QED BY <1>6, <1>7, <1>8

\* vmm_cow_break moves the page to a frame of its own, and the count follows.
LEMMA CopyCow ==
  ASSUME CowSound, NEW CONSTANT s \in Spaces, NEW CONSTANT v \in Pages,
         up(s), frame[s][v] # NULL, ~wbit[s][v], cow_copy(s, v)
  PROVE  BitsOnMapped' /\ CountsMappings' /\ WritableIsPrivate'
<1> DEFINE f0 == frame[s][v]
<1>1. f0 \in AllFrames /\ ~panicked /\ ~panicked' BY DEF CowSound, TypeOK, up, cow_copy
<1>2. PICK g \in Frames \ used :
          /\ used' = used \cup {g}
          /\ rc' = [rc EXCEPT ![f0] = @ - 1, ![g] = 1]
          /\ cow_broken(s, v, g)
  BY DEF cow_copy
<1>3. rc[f0] \in Nat /\ rc[f0] >= 2 BY <1>1 DEF cow_copy, rc_after, CowSound, TypeOK
<1>4. \A u \in Spaces, x \in Pages :
         /\ frame'[u][x] = IF u = s /\ x = v THEN g ELSE frame[u][x]
         /\ wbit'[u][x] = IF u = s /\ x = v THEN TRUE ELSE wbit[u][x]
  BY <1>2 DEF cow_broken, CowSound, TypeOK
<1>5. \A f \in Frames : rc'[f] = IF f = g THEN 1 ELSE IF f = f0 THEN rc[f0] - 1 ELSE rc[f]
  BY <1>1, <1>2 DEF CowSound, TypeOK, AllFrames
<1>6. \A f \in Frames : Counted(f) BY <1>1, CountsAre DEF CowSound
<1>7. ASSUME NEW u \in Spaces, NEW x \in Pages, frame[u][x] = g PROVE FALSE
  <2>1. <<u, x>> \in mappers(g) BY <1>7 DEF mappers
  <2> QED BY <2>1, <1>6 DEF Counted
<1>8. mappers(g)' = {<<s, v>>}
  <2>1. \A u \in Spaces, x \in Pages : frame'[u][x] = g <=> u = s /\ x = v BY <1>4, <1>7
  <2> QED BY <2>1 DEF mappers
<1>9. CountsMappings'
  <2> SUFFICES ASSUME NEW CONSTANT f \in Frames PROVE Counted(f)' BY CountsAreNext
  <2>1. CASE f = g
    <3>1. Cardinality(mappers(f)') = 1 BY <2>1, <1>8, FS_Singleton
    <3>2. f \in used' /\ rc'[f] = 1 BY <2>1, <1>2, <1>5
    <3> QED BY <3>1, <3>2 DEF Counted
  <2>2. CASE f # g /\ f # f0
    <3>1. (f \in used <=> f \in used') /\ rc'[f] = rc[f] BY <2>2, <1>2, <1>5
    <3>2. rc[f] \in Nat BY DEF CowSound, TypeOK, AllFrames
    <3>3. \A u \in Spaces, x \in Pages : frame'[u][x] = f => frame[u][x] = f BY <2>2, <1>4
    <3> QED BY <3>1, <3>2, <3>3, <1>6, StaysCounted
  <2>3. CASE f # g /\ f = f0
    <3> DEFINE m == Cardinality(mappers(f)) k == Cardinality(mappers(f)')
    <3>1. k <= m - 1
      <4>1. \A x \in {v} : frame[s][x] = f /\ frame'[s][x] # f BY <2>3, <1>4
      <4>2. \A u \in Spaces, x \in Pages : frame'[u][x] = f => frame[u][x] = f BY <2>3, <1>4
      <4>3. k <= m - Cardinality({v}) BY <4>1, <4>2, FewerMappers
      <4> QED BY <4>3, FS_Singleton
    <3>2. m \in Nat /\ k \in Nat BY MappersAre, MappersAreNext
    <3>3. f \in used /\ f \in used' BY <1>2, <1>3, <1>6, <2>3 DEF Counted
    <3>4. m <= rc[f] BY <1>3, <1>6, <2>3, <3>3 DEF Counted
    <3>5. rc'[f] = rc[f] - 1 /\ rc[f] \in Nat BY <2>3, <1>3, <1>5
    <3> HIDE DEF m, k
    <3>6. k <= rc'[f] BY <3>1, <3>2, <3>4, <3>5
    <3> QED BY <3>3, <3>6 DEF Counted, k
  <2> QED BY <2>1, <2>2, <2>3
<1>10. BitsOnMapped' BY <1>4, FramesAssumption DEF BitsOnMapped, CowSound, AllFrames
<1>11. WritableIsPrivate'
  <2> SUFFICES ASSUME NEW CONSTANT u \in Spaces,
                      NEW CONSTANT x \in Pages, wbit'[u][x], frame'[u][x] # Backbuffer
               PROVE  {e \in Spaces \X Pages : frame'[e[1]][e[2]] = frame'[u][x]} = {<<u, x>>}
    BY DEF WritableIsPrivate, mappers
  <2>1. CASE u = s /\ x = v BY <2>1, <1>4, <1>8 DEF mappers
  <2>2. CASE ~ (u = s /\ x = v)
    <3>1. wbit[u][x] /\ frame'[u][x] = frame[u][x] BY <2>2, <1>4
    <3>2. {e \in Spaces \X Pages : frame[e[1]][e[2]] = frame[u][x]} = {<<u, x>>}
      BY <3>1 DEF CowSound, WritableIsPrivate, mappers
    <3>3. ASSUME NEW y \in Spaces, NEW z \in Pages, frame[y][z] = frame[u][x]
          PROVE y = u /\ z = x
      <4>1. <<y, z>> \in {e \in Spaces \X Pages : frame[e[1]][e[2]] = frame[u][x]} BY <3>3
      <4> QED BY <4>1, <3>2
    <3>4. frame[u][x] # g BY <1>7
    <3>5. \A y \in Spaces, z \in Pages : frame'[y][z] = frame[u][x] <=> y = u /\ z = x
      <4> TAKE y \in Spaces, z \in Pages
      <4>1. CASE y = s /\ z = v
        <5>1. frame'[y][z] = g BY <4>1, <1>4
        <5> QED BY <4>1, <5>1, <3>4, <2>2
      <4>2. CASE ~ (y = s /\ z = v)
        <5>1. frame'[y][z] = frame[y][z] BY <4>2, <1>4
        <5> QED BY <5>1, <3>3
      <4> QED BY <4>1, <4>2
    <3> QED BY <3>1, <3>5
  <2> QED BY <2>1, <2>2
<1> QED BY <1>9, <1>10, <1>11

\* The page fault handler keeps the counts sound.
LEMMA FaultCow ==
  ASSUME CowSound, NEW CONSTANT s \in Spaces,
         NEW CONSTANT v \in Pages, cow_page_fault_handler(s, v)
  PROVE  BitsOnMapped' /\ CountsMappings' /\ WritableIsPrivate'
<1>1. up(s) /\ frame[s][v] # NULL /\ ~wbit[s][v] BY DEF cow_page_fault_handler, writes
<1>2. CASE panicked' = TRUE /\ frame' = frame /\ wbit' = wbit
  <2>1. CountsMappings' BY <1>2 DEF CountsMappings
  <2> QED BY <1>2, <2>1, ShrunkPrivate DEF CowSound
<1> QED BY <1>1, <1>2, InPlaceCow, CopyCow
        DEF cow_page_fault_handler, vmm_cow_break, cow_panic

\* vmm_map_phys touches no counted frame.
LEMMA MapPhysCow ==
  ASSUME CowSound, NEW CONSTANT s \in Spaces, vmm_map_phys(s)
  PROVE  BitsOnMapped' /\ CountsMappings' /\ WritableIsPrivate'
<1>1. /\ ~panicked /\ ~panicked' /\ used' = used /\ rc' = rc /\ FB_MAP_VADDR \in Pages
      /\ Backbuffer \notin Frames /\ Backbuffer # NULL
  BY PagesAssumption, FramesAssumption DEF vmm_map_phys, up, memVars, AllFrames
<1>2. \A u \in Spaces, v \in Pages :
         /\ frame'[u][v] = IF u = s /\ v = FB_MAP_VADDR THEN Backbuffer ELSE frame[u][v]
         /\ wbit'[u][v] = IF u = s /\ v = FB_MAP_VADDR THEN TRUE ELSE wbit[u][v]
  BY <1>1 DEF vmm_map_phys, CowSound, TypeOK
<1>3. CountsMappings'
  <2> SUFFICES ASSUME NEW CONSTANT f \in Frames PROVE Counted(f)' BY CountsAreNext
  <2>1. Counted(f) BY <1>1, CountsAre DEF CowSound
  <2>2. rc[f] \in Nat BY DEF CowSound, TypeOK, AllFrames
  <2>3. \A u \in Spaces, v \in Pages : frame'[u][v] = f => frame[u][v] = f BY <1>1, <1>2
  <2> QED BY <1>1, <2>1, <2>2, <2>3, StaysCounted
<1>4. BitsOnMapped' BY <1>1, <1>2 DEF BitsOnMapped, CowSound
<1>5. WritableIsPrivate'
  <2> SUFFICES ASSUME NEW CONSTANT u \in Spaces,
                      NEW CONSTANT v \in Pages, wbit'[u][v], frame'[u][v] # Backbuffer
               PROVE  {e \in Spaces \X Pages : frame'[e[1]][e[2]] = frame'[u][v]} = {<<u, v>>}
    BY DEF WritableIsPrivate, mappers
  <2>1. wbit[u][v] /\ frame'[u][v] = frame[u][v] BY <1>2
  <2>2. {e \in Spaces \X Pages : frame[e[1]][e[2]] = frame[u][v]} = {<<u, v>>}
    BY <2>1 DEF CowSound, WritableIsPrivate, mappers
  <2>3. \A x \in Spaces, y \in Pages : frame'[x][y] = frame[u][v] => frame[x][y] = frame[u][v]
    BY <1>2, <2>1
  <2> QED BY <2>1, <2>2, <2>3
<1> QED BY <1>3, <1>4, <1>5

\* A vmm_space_alloc that fails leaves frames used that no page table holds.
LEMMA AllocFailsCow ==
  ASSUME CowSound, NEW CONSTANT s \in Spaces, NEW CONSTANT b \in Pages,
         NEW CONSTANT n \in 1 .. REGION_PAGES,
         vmm_space_alloc_fails(s, b, n)
  PROVE  BitsOnMapped' /\ CountsMappings' /\ WritableIsPrivate'
<1>1. CountsMappings'
  <2> SUFFICES ASSUME NEW CONSTANT f \in Frames PROVE Counted(f)' BY CountsAreNext
  <2>1. Counted(f) BY CountsAre DEF CowSound, vmm_space_alloc_fails, up
  <2>2. f \in AllFrames /\ mappers(f)' = mappers(f)
    BY DEF AllFrames, vmm_space_alloc_fails, mappers
  <2>3. f \in used' /\ rc'[f] = IF f \in used THEN rc[f] ELSE 1
    BY <2>2 DEF vmm_space_alloc_fails
  <2>4. f \notin used => Cardinality(mappers(f)) = 0 BY <2>1, NoneMapped DEF Counted
  <2> QED BY <2>1, <2>2, <2>3, <2>4 DEF Counted
<1>2. frame' = frame /\ wbit' = wbit BY DEF vmm_space_alloc_fails
<1> QED BY <1>1, <1>2, ShrunkPrivate DEF CowSound

\* Every step keeps counts and privacy.
LEMMA CowStep ==
  ASSUME CowSound, "refork" \notin Situations, [Next]_vars
  PROVE  CowSound'
<1>1. TypeOK' BY TypeStep DEF CowSound
<1>2. CASE used' = used /\ rc' = rc /\ frame' = frame /\ wbit' = wbit /\ panicked' = panicked
  <2>1. BitsOnMapped' BY <1>2 DEF CowSound, BitsOnMapped
  <2>2. CountsMappings' BY <1>2 DEF CowSound, CountsMappings, mappers
  <2>3. WritableIsPrivate' BY <1>2 DEF CowSound, WritableIsPrivate, mappers
  <2> QED BY <1>1, <2>1, <2>2, <2>3 DEF CowSound
<1>3. CASE UNCHANGED vars BY <1>2, <1>3 DEF vars, memVars
<1>4. ASSUME NEW CONSTANT s \in Spaces, vmm_space_create(s) PROVE CowSound'
  BY <1>2, <1>4 DEF vmm_space_create, memVars
<1>5. ASSUME NEW CONSTANT s \in Spaces, NEW CONSTANT v \in Pages,
             NEW CONSTANT val \in Values, store(s, v, val)
      PROVE CowSound'
  BY <1>2, <1>5 DEF store
<1> DEFINE Goal == BitsOnMapped' /\ CountsMappings' /\ WritableIsPrivate'
<1>6. ASSUME NEW CONSTANT s \in Spaces, vmm_space_destroy(s) \/ vmm_map_phys(s) PROVE Goal
  BY <1>6, MapPhysCow, DestroyCow
<1>7. ASSUME NEW CONSTANT s \in Spaces, NEW CONSTANT b \in Pages,
             NEW CONSTANT n \in 1 .. REGION_PAGES,
             (\E w \in BOOLEAN : vmm_space_alloc(s, b, n, w)) \/ vmm_space_alloc_fails(s, b, n)
      PROVE  Goal
  BY <1>7, AllocCow, AllocFailsCow
<1>8. ASSUME NEW CONSTANT s \in Spaces,
             NEW CONSTANT i \in Pages, vmm_space_free(s, i) \/ vmm_clone_space_fails(s, i)
      PROVE  Goal
  BY <1>8, FreeCow, CloneFailsCow
<1>9. ASSUME NEW CONSTANT s \in Spaces, NEW CONSTANT d \in Spaces, vmm_clone_space(s, d)
      PROVE  Goal
  BY <1>9, CloneCow
<1>10. ASSUME NEW CONSTANT s \in Spaces, NEW CONSTANT v \in Pages, cow_page_fault_handler(s, v)
      PROVE  Goal
  BY <1>10, FaultCow
<1>11. Goal => CowSound' BY <1>1 DEF CowSound
<1> HIDE DEF Goal
<1>12. CASE Next
  <2>1. CASE halted BY <2>1, <1>3 DEF halted
  <2>2. CASE \E s \in Spaces : vmm_space_create(s) \/ vmm_space_destroy(s) \/ vmm_map_phys(s)
    BY <2>2, <1>4, <1>6, <1>11
  <2>3. CASE \E s \in Spaces, b \in Pages, n \in 1 .. REGION_PAGES :
               (\E w \in BOOLEAN : vmm_space_alloc(s, b, n, w)) \/ vmm_space_alloc_fails(s, b, n)
    BY <2>3, <1>7, <1>11
  <2>4. CASE \E s \in Spaces, i \in Pages : vmm_space_free(s, i) \/ vmm_clone_space_fails(s, i)
    BY <2>4, <1>8, <1>11
  <2>5. CASE \E s, d \in Spaces : vmm_clone_space(s, d)
    BY <2>5, <1>9, <1>11
  <2>6. CASE \E s \in Spaces, v \in Pages :
               cow_page_fault_handler(s, v) \/ \E val \in Values : store(s, v, val)
    BY <2>6, <1>5, <1>10, <1>11
  <2> QED BY <1>12, <2>1, <2>2, <2>3, <2>4, <2>5, <2>6 DEF Next
<1> QED BY <1>3, <1>12

\* Both hold at boot.
LEMMA CowInit == Init => CowSound
<1> SUFFICES ASSUME Init PROVE CowSound OBVIOUS
<1>1. TypeOK BY TypeInit
<1>2. \A s \in Spaces, v \in Pages : frame[s][v] = NULL /\ wbit[s][v] = FALSE
  BY DEF Init, nothing_mapped, no_bits
<1>3. ~panicked /\ used = {Backbuffer} /\ \A f \in Frames : rc[f] = 0
  BY FramesAssumption DEF Init, AllFrames
<1>4. \A f \in Frames : mappers(f) = {} BY <1>2, FramesAssumption DEF mappers, AllFrames
<1>5. CountsMappings BY <1>3, <1>4, FramesAssumption DEF CountsMappings
<1> QED BY <1>1, <1>2, <1>5 DEF CowSound, BitsOnMapped, WritableIsPrivate

\* The books of the frames are kept, as long as no process forks that owns a frame
\* whose count ran to zero.
LEMMA CowInvariance ==
  ASSUME "refork" \notin Situations
  PROVE  Spec => []CowSound
<1>1. Init => CowSound BY CowInit
<1>2. CowSound /\ [Next]_vars => CowSound' BY CowStep
<1> QED BY <1>1, <1>2, PTL DEF Spec

\* Under that condition no frame is free while a page table entry is on it, and none
\* has more entries than physmem counts, but for the only entry on a frame of count
\* zero (CountsMappings): for any number of processes, frames and pages, with failing
\* allocations, failing clones and mapped framebuffers.
THEOREM FramesCounted ==
  ASSUME "refork" \notin Situations
  PROVE  Spec => []CountsMappings
<1>1. CowSound => CountsMappings BY DEF CowSound
<1> QED BY <1>1, CowInvariance, PTL

\* Under that condition a page that can be written without a fault is on a frame
\* of its own (vmm_clone_space, vmm_cow_break).
THEOREM WritablePagesPrivate ==
  ASSUME "refork" \notin Situations
  PROVE  Spec => []WritableIsPrivate
<1>1. CowSound => WritableIsPrivate BY DEF CowSound
<1> QED BY <1>1, CowInvariance, PTL

-----------------------------------------------------------------------------
(* Regions and page tables.                                                *)

\* A region of rs contains the page v.
Covered(rs, v) == \E r \in Listed(rs) : v \in covers(r)

\* RegionsMatchTables without vmm_space_find.
Tables == \A s \in Spaces : /\ Sorted(regions[s])
                            /\ \A v \in Pages : frame[s][v] # NULL <=> Covered(regions[s], v)

\* Regions of a sorted list share no page.
LEMMA Apart ==
  ASSUME NEW rs \in Seq(Region), Sorted(rs), NEW i \in 1 .. Len(rs),
         NEW j \in 1 .. Len(rs), NEW v \in Pages,
         v \in covers(rs[i]), v \in covers(rs[j])
  PROVE  i = j
<1>1. /\ rs[i].base \in Nat /\ rs[i].size \in Nat /\ rs[j].base \in Nat /\ rs[j].size \in Nat
      /\ rs[i].base <= v /\ v < rs[i].base + rs[i].size
      /\ rs[j].base <= v /\ v < rs[j].base + rs[j].size /\ v \in Nat
  <2>1. v \in Nat BY DEF Pages
  <2>2. rs[i].base \in Nat /\ rs[i].size \in Nat /\ rs[j].base \in Nat /\ rs[j].size \in Nat
    BY RegionsNat
  <2> QED BY <2>1, <2>2 DEF covers
<1>2. ~ (i < j) BY <1>1 DEF Sorted
<1>3. ~ (j < i) BY <1>1 DEF Sorted
<1> QED BY <1>2, <1>3

\* In a sorted list vmm_space_find finds the one region that contains v.
LEMMA FindSorted ==
  ASSUME NEW s, NEW v \in Pages, regions[s] \in Seq(Region), Sorted(regions[s])
  PROVE  /\ vmm_space_find(s, v) # 0 <=> Covered(regions[s], v)
         /\ \A i \in 1 .. Len(regions[s]) : v \in covers(regions[s][i]) => vmm_space_find(s, v) = i
<1> DEFINE rs == regions[s] at == {i \in 1 .. Len(rs) : v \in covers(rs[i])}
<1>1. rs \in Seq(Region) /\ Sorted(rs) OBVIOUS
<1>2. vmm_space_find(s, v) = IF at = {} THEN 0 ELSE CHOOSE i \in at : \A j \in at : i <= j
  BY DEF vmm_space_find
<1> HIDE DEF rs
<1>3. ASSUME NEW i \in at PROVE at = {i} BY <1>1, Apart
<1>4. ASSUME NEW i \in at PROVE vmm_space_find(s, v) = i /\ i # 0
  <2>1. at = {i} /\ i \in Nat /\ i # 0 BY <1>1, <1>3
  <2>2. \A j \in at : i <= j BY <2>1
  <2> HIDE DEF at
  <2>3. (CHOOSE k \in at : \A j \in at : k <= j) \in at BY <1>4, <2>2
  <2> QED BY <1>2, <2>1, <2>3
<1>5. at # {} <=> Covered(rs, v) BY DEF Covered, Listed
<1>6. vmm_space_find(s, v) # 0 <=> at # {} BY <1>2, <1>4
<1> QED BY <1>4, <1>5, <1>6 DEF rs

\* The two forms agree.
LEMMA TablesMatch == ASSUME TypeOK PROVE RegionsMatchTables <=> Tables
<1>1. ASSUME NEW s \in Spaces, Sorted(regions[s]), NEW v \in Pages
      PROVE  vmm_space_find(s, v) # 0 <=> Covered(regions[s], v)
  BY <1>1, FindSorted DEF TypeOK
<1>2. ASSUME NEW s \in Spaces
      PROVE  Sorted(regions[s]) <=> \A i, j \in 1 .. Len(regions[s]) : i < j =>
              regions[s][i].base + regions[s][i].size <= regions[s][j].base
  BY DEF Sorted
<1> QED BY <1>1, <1>2 DEF RegionsMatchTables, Tables

\* Flags do not matter to the layout.
LEMMA SameShape ==
  ASSUME NEW rs \in Seq(Region), NEW q \in Seq(Region), Len(q) = Len(rs),
         \A i \in 1 .. Len(rs) : q[i].base = rs[i].base /\ q[i].size = rs[i].size
  PROVE  /\ Sorted(rs) => Sorted(q)
         /\ \A v : Covered(q, v) <=> Covered(rs, v)
<1>1. Sorted(rs) => Sorted(q) BY DEF Sorted
<1>2. \A i \in 1 .. Len(rs) : covers(q[i]) = covers(rs[i]) BY DEF covers
<1>3. \A v : Covered(q, v) <=> \E i \in 1 .. Len(rs) : v \in covers(q[i]) BY DEF Covered, Listed
<1>4. \A v : Covered(rs, v) <=> \E i \in 1 .. Len(rs) : v \in covers(rs[i])
  BY DEF Covered, Listed
<1> QED BY <1>1, <1>2, <1>3, <1>4

\* A step that moves no region and no entry.
LEMMA TablesKept ==
  ASSUME TypeOK, Tables,
         \A u \in Spaces : \/ regions'[u] = regions[u] 
                           \/ /\ Sorted(regions[u]) => Sorted(regions'[u])
                              /\ \A v \in Pages : Covered(regions'[u], v) <=> Covered(regions[u], v),
         \A u \in Spaces, v \in Pages : frame'[u][v] # NULL <=> frame[u][v] # NULL
  PROVE  Tables'
  BY DEF Tables

\* A region and its entries come together.
LEMMA InsertTables ==
  ASSUME TypeOK, Tables, NEW s \in Spaces, NEW r \in Region,
         \A i \in 1 .. Len(regions[s]) : covers(regions[s][i]) \cap covers(r) = {},
         regions' = [regions EXCEPT ![s] = insert(regions[s], r)],
         \A u \in Spaces, v \in Pages : frame'[u][v] # NULL <=> frame[u][v] # NULL \/ (u = s /\ v \in covers(r))
  PROVE  Tables'
<1>1. regions[s] \in Seq(Region) /\ Sorted(regions[s]) BY DEF TypeOK, Tables
<1>2. Sorted(insert(regions[s], r)) /\ Listed(insert(regions[s], r)) = Listed(regions[s]) \cup {r}
  BY <1>1, InsertSorted
<1>3. \A v : Covered(insert(regions[s], r), v) <=> Covered(regions[s], v) \/ v \in covers(r)
  BY <1>2 DEF Covered
<1>4. \A u \in Spaces : regions'[u] = IF u = s THEN insert(regions[s], r) ELSE regions[u]
  BY DEF TypeOK
<1>5. \A u \in Spaces : Sorted(regions'[u]) BY <1>2, <1>4 DEF Tables
<1>6. \A u \in Spaces, v \in Pages : Covered(regions'[u], v) <=> Covered(regions[u], v) \/ (u = s /\ v \in covers(r))
  BY <1>3, <1>4
<1> QED BY <1>5, <1>6 DEF Tables

\* vmm_space_alloc keeps regions and tables in step.
LEMMA AllocTables ==
  ASSUME TypeOK, Tables, NEW s \in Spaces, NEW b \in Pages, NEW n \in 1 .. REGION_PAGES,
         NEW w \in BOOLEAN,
         vmm_space_alloc(s, b, n, w)
  PROVE  Tables'
<1> DEFINE r == [base |-> b, size |-> n, write |-> w, cow |-> FALSE, mmio |-> FALSE]
<1>1. r \in Region /\ b .. b + n - 1 \subseteq Pages /\ covers(r) = b .. b + n - 1
  BY PagesAssumption DEF vmm_space_alloc, is_vaddr_range_free, Region, Pages, covers
<1>2. \A i \in 1 .. Len(regions[s]) : covers(regions[s][i]) \cap covers(r) = {}
  BY <1>1 DEF vmm_space_alloc, is_vaddr_range_free
<1>3. regions' = [regions EXCEPT ![s] = insert(regions[s], r)] BY DEF vmm_space_alloc, TypeOK
<1> HIDE DEF r
<1>4. PICK g \in [b .. b + n - 1 -> Frames \ used] :
          frame' = [frame EXCEPT ![s] = [v \in Pages |-> IF v \in DOMAIN g THEN g[v] ELSE frame[s][v]]]
  BY DEF vmm_space_alloc, TypeOK
<1>5. \A v \in covers(r) : g[v] # NULL BY <1>1, <1>4, FramesAssumption DEF AllFrames
<1>6. \A u \in Spaces, v \in Pages : frame'[u][v] # NULL <=> frame[u][v] # NULL \/ (u = s /\ v \in covers(r))
  BY <1>1, <1>4, <1>5 DEF TypeOK
<1> QED BY <1>1, <1>2, <1>3, <1>6, InsertTables

\* vmm_map_phys keeps regions and tables in step.
LEMMA MapPhysTables ==
  ASSUME TypeOK, Tables, NEW s \in Spaces, vmm_map_phys(s)
  PROVE  Tables'
<1> DEFINE r == [base |-> FB_MAP_VADDR, size |-> 1, write |-> TRUE, cow |-> FALSE, mmio |-> TRUE]
<1>1. r \in Region /\ covers(r) = FB_MAP_VADDR .. FB_MAP_VADDR + 1 - 1 /\ covers(r) = {FB_MAP_VADDR} /\ FB_MAP_VADDR \in Pages
  BY PagesAssumption DEF Region, Pages, covers
<1>2. \A i \in 1 .. Len(regions[s]) : covers(regions[s][i]) \cap covers(r) = {}
  BY <1>1 DEF vmm_map_phys, is_vaddr_range_free
<1>3. regions' = [regions EXCEPT ![s] = insert(regions[s], r)] BY DEF vmm_map_phys, TypeOK
<1> HIDE DEF r
<1>4. \A u \in Spaces, v \in Pages : frame'[u][v] # NULL <=> frame[u][v] # NULL \/ (u = s /\ v \in covers(r))
  BY <1>1, FramesAssumption DEF TypeOK, vmm_map_phys, AllFrames
<1> QED BY <1>1, <1>2, <1>3, <1>4, InsertTables

\* vmm_space_free takes a region and exactly its entries.
LEMMA FreeTables ==
  ASSUME TypeOK, Tables, NEW s \in Spaces, NEW i \in Pages, vmm_space_free(s, i)
  PROVE  Tables'
<1> DEFINE rs == regions[s] q == SubSeq(rs, 1, i - 1) \o SubSeq(rs, i + 1, Len(rs))
<1>1. rs \in Seq(Region) /\ Sorted(rs) /\ i \in 1 .. Len(rs)
  BY DEF TypeOK, Tables, vmm_space_free
<1>2. /\ \A u \in Spaces : regions'[u] = IF u = s THEN q ELSE regions[u]
      /\ \A u \in Spaces, v \in Pages : frame'[u][v] = IF u = s /\ v \in covers(rs[i]) THEN NULL ELSE frame[u][v]
  BY DEF vmm_space_free, TypeOK, freed
<1> HIDE DEF rs
<1>3. Sorted(q) /\ Listed(q) = Listed(rs) \ {rs[i]} BY <1>1, RemoveSorted
<1> HIDE DEF q
<1>4. \A v \in Pages : Covered(q, v) <=> Covered(rs, v) /\ v \notin covers(rs[i])
  <2> TAKE v \in Pages
  <2>1. ASSUME v \in covers(rs[i]) PROVE ~ Covered(q, v)
    <3>1. SUFFICES ASSUME NEW r \in Listed(q), v \in covers(r) PROVE FALSE BY DEF Covered
    <3>2. PICK j \in 1 .. Len(rs) : r = rs[j] /\ r # rs[i] BY <1>3 DEF Listed
    <3> QED BY <1>1, <2>1, <3>1, <3>2, Apart
  <2> QED BY <1>3, <2>1 DEF Covered
<1>5. \A v \in Pages : frame[s][v] # NULL <=> Covered(rs, v) BY DEF Tables, rs
<1>6. ASSUME NEW u \in Spaces
      PROVE Sorted(regions'[u]) /\ \A v \in Pages : frame'[u][v] # NULL <=> Covered(regions'[u], v)
  <2>1. CASE u = s BY <2>1, <1>2, <1>3, <1>4, <1>5
  <2>2. CASE u # s BY <2>2, <1>2 DEF Tables
  <2> QED BY <2>1, <2>2
<1> QED BY <1>6 DEF Tables

\* vmm_space_destroy leaves neither region nor entry.
LEMMA DestroyTables ==
  ASSUME TypeOK, Tables, NEW s \in Spaces, vmm_space_destroy(s)
  PROVE  Tables'
<1>1. \A u \in Spaces : regions'[u] = (IF u = s THEN << >> ELSE regions[u])
                        /\ \A v \in Pages : frame'[u][v] = IF u = s THEN NULL ELSE frame[u][v]
  BY DEF vmm_space_destroy, TypeOK, nothing_mapped
<1>2. Sorted(<< >>) /\ \A v : ~ Covered(<< >>, v) BY DEF Sorted, Covered, Listed
<1>3. ASSUME NEW u \in Spaces
      PROVE Sorted(regions'[u]) /\ \A v \in Pages : frame'[u][v] # NULL <=> Covered(regions'[u], v)
  <2>1. CASE u = s BY <2>1, <1>1, <1>2
  <2>2. CASE u # s BY <2>2, <1>1 DEF Tables
  <2> QED BY <2>1, <2>2
<1> QED BY <1>3 DEF Tables

\* The clone has the regions and the entries of the original.
LEMMA CloneTables ==
  ASSUME TypeOK, Tables, NEW s \in Spaces, NEW d \in Spaces, vmm_clone_space(s, d)
  PROVE  Tables'
<1> DEFINE q == regions[s] c == [i \in 1 .. Len(q) |-> as_cow(q[i])]
<1>1. q \in Seq(Region) /\ Sorted(q) /\ s # d
  BY DEF TypeOK, Tables, vmm_clone_space, may_fork, up
<1>2. \A u \in Spaces : /\ regions'[u] = IF u \in {s, d} THEN c ELSE regions[u]
                        /\ frame'[u] = IF u = d THEN frame[s] ELSE frame[u]
  BY <1>1 DEF vmm_clone_space, TypeOK
<1>5. \A v \in Pages : frame[s][v] # NULL <=> Covered(q, v) BY DEF Tables
<1> HIDE DEF q
<1>3. c \in Seq(Region) /\ Len(c) = Len(q) /\ \A i \in 1 .. Len(q) : c[i].base = q[i].base /\ c[i].size = q[i].size
  <2>1. \A i \in 1 .. Len(q) : q[i] \in Region BY <1>1
  <2>2. c \in [1 .. Len(q) -> Region] BY <2>1, AsCow
  <2>3. c \in Seq(Region) /\ Len(c) = Len(q) BY <1>1, <2>2, Mapped
  <2>4. \A i \in 1 .. Len(q) : c[i] = as_cow(q[i]) OBVIOUS
  <2> QED BY <2>1, <2>3, <2>4, AsCow
<1> HIDE DEF c
<1>4. Sorted(c) /\ \A v : Covered(c, v) <=> Covered(q, v) BY <1>1, <1>3, SameShape
<1>6. ASSUME NEW u \in Spaces
      PROVE Sorted(regions'[u]) /\ \A v \in Pages : frame'[u][v] # NULL <=> Covered(regions'[u], v)
  <2>1. CASE u \in {s, d}
    <3>1. regions'[u] = c /\ frame'[u] = frame[s] BY <2>1, <1>2
    <3> QED BY <3>1, <1>4, <1>5
  <2>2. CASE u \notin {s, d} BY <2>2, <1>2 DEF Tables
  <2> QED BY <2>1, <2>2
<1> QED BY <1>6 DEF Tables

\* A clone that fails moves nothing.
LEMMA CloneFailsTables ==
  ASSUME TypeOK, Tables, NEW s \in Spaces, NEW k \in Pages, vmm_clone_space_fails(s, k)
  PROVE  Tables'
<1> DEFINE q == regions[s] c == [i \in 1 .. Len(q) |-> IF i <= k THEN as_cow(q[i]) ELSE q[i]]
<1>1. q \in Seq(Region) BY DEF TypeOK
<1>2. frame' = frame /\ \A u \in Spaces : regions'[u] = IF u = s THEN c ELSE regions[u]
  BY DEF vmm_clone_space_fails, TypeOK
<1>5. Sorted(q) /\ \A v \in Pages : frame[s][v] # NULL <=> Covered(q, v) BY DEF Tables
<1> HIDE DEF q
<1>3. c \in Seq(Region) /\ Len(c) = Len(q) /\ \A i \in 1 .. Len(q) : c[i].base = q[i].base /\ c[i].size = q[i].size
  <2>1. \A i \in 1 .. Len(q) : q[i] \in Region BY <1>1
  <2>2. c \in [1 .. Len(q) -> Region] BY <2>1, AsCow
  <2>3. c \in Seq(Region) /\ Len(c) = Len(q) BY <1>1, <2>2, Mapped
  <2>4. \A i \in 1 .. Len(q) : c[i] = IF i <= k THEN as_cow(q[i]) ELSE q[i] OBVIOUS
  <2> HIDE DEF c
  <2> QED BY <2>1, <2>3, <2>4, AsCow
<1> HIDE DEF c
<1>4. Sorted(c) /\ \A v : Covered(c, v) <=> Covered(q, v) BY <1>1, <1>3, <1>5, SameShape
<1>6. ASSUME NEW u \in Spaces
      PROVE Sorted(regions'[u]) /\ \A v \in Pages : frame'[u][v] # NULL <=> Covered(regions'[u], v)
  <2>1. CASE u = s BY <2>1, <1>2, <1>4, <1>5
  <2>2. CASE u # s BY <2>2, <1>2 DEF Tables
  <2> QED BY <2>1, <2>2
<1> QED BY <1>6 DEF Tables

\* vmm_cow_break moves nothing.
LEMMA BrokenTables ==
  ASSUME TypeOK, Tables, NEW s \in Spaces, NEW v \in Pages,
         NEW f \in AllFrames, frame[s][v] # NULL, cow_broken(s, v, f)
  PROVE  Tables'
<1> DEFINE q == regions[s] i == vmm_space_find(s, v) r == [q[i] EXCEPT !.cow = FALSE, !.write = TRUE]
           c == [q EXCEPT ![i] = r]
<1>1. q \in Seq(Region) BY DEF TypeOK
<1>2. \A u \in Spaces : regions'[u] = IF u = s THEN c ELSE regions[u]
  BY DEF cow_broken, TypeOK
<1>3. \A u \in Spaces, x \in Pages : frame'[u][x] # NULL <=> frame[u][x] # NULL
  BY FramesAssumption DEF cow_broken, TypeOK
<1> HIDE DEF q, i
<1>4. i \in 1 .. Len(q) => q[i] \in Region BY <1>1
<1>5. i \in 1 .. Len(q) => r \in Region /\ r.base = q[i].base /\ r.size = q[i].size
  BY <1>4 DEF Region
<1> HIDE DEF r
<1>6. c \in Seq(Region) /\ Len(c) = Len(q) /\ \A j \in 1 .. Len(q) : c[j] = IF j = i THEN r ELSE q[j]
  BY <1>1, <1>5, Changed
<1> HIDE DEF c
<1>7. \A j \in 1 .. Len(q) : c[j].base = q[j].base /\ c[j].size = q[j].size BY <1>5, <1>6
<1>8. (Sorted(q) => Sorted(c)) /\ \A x : Covered(c, x) <=> Covered(q, x)
  BY <1>1, <1>6, <1>7, SameShape
<1> QED BY <1>2, <1>3, <1>8, TablesKept DEF q

\* The page fault handler moves nothing.
LEMMA FaultTables ==
  ASSUME TypeOK, Tables, NEW s \in Spaces, NEW v \in Pages, cow_page_fault_handler(s, v)
  PROVE  Tables'
<1>1. frame[s][v] # NULL /\ frame[s][v] \in AllFrames
  BY DEF cow_page_fault_handler, writes, TypeOK
<1>2. CASE regions' = regions /\ frame' = frame BY <1>2 DEF Tables
<1>3. CASE cow_in_place(s, v) BY <1>1, <1>3, BrokenTables DEF cow_in_place
<1>4. CASE cow_copy(s, v)
  <2>1. PICK f \in Frames \ used : cow_broken(s, v, f) BY <1>4 DEF cow_copy
  <2> QED BY <1>1, <2>1, BrokenTables DEF AllFrames
<1> QED BY <1>2, <1>3, <1>4 DEF cow_page_fault_handler, vmm_cow_break, cow_panic

\* Every step keeps regions and tables in step.
LEMMA TablesStep == ASSUME TypeOK, Tables, [Next]_vars PROVE Tables'
<1>1. CASE regions' = regions /\ frame' = frame BY <1>1 DEF Tables
<1>2. CASE UNCHANGED vars BY <1>1, <1>2 DEF vars
<1>3. CASE Next
  <2>1. CASE halted
    <3>1. UNCHANGED vars BY <2>1 DEF halted
    <3> QED BY <1>2, <3>1
  <2>2. CASE \E s \in Spaces : vmm_space_create(s) \/ vmm_space_destroy(s) \/ vmm_map_phys(s)
    <3>1. ASSUME NEW s \in Spaces, vmm_space_create(s)
          PROVE Tables' BY <3>1, <1>1 DEF vmm_space_create
    <3> QED BY <2>2, <3>1, DestroyTables, MapPhysTables
  <2>3. CASE \E s \in Spaces, b \in Pages, n \in 1 .. REGION_PAGES :
               (\E w \in BOOLEAN : vmm_space_alloc(s, b, n, w)) \/ vmm_space_alloc_fails(s, b, n)
    <3>1. ASSUME NEW s \in Spaces, NEW b \in Pages,
                 NEW n \in 1 .. REGION_PAGES, vmm_space_alloc_fails(s, b, n)
          PROVE  Tables'
      BY <3>1, <1>1 DEF vmm_space_alloc_fails
    <3> QED BY <2>3, <3>1, AllocTables
  <2>4. CASE \E s \in Spaces, i \in Pages : vmm_space_free(s, i) \/ vmm_clone_space_fails(s, i)
    BY <2>4, FreeTables, CloneFailsTables
  <2>5. CASE \E s, d \in Spaces : vmm_clone_space(s, d)
    BY <2>5, CloneTables
  <2>6. CASE \E s \in Spaces, v \in Pages :
               cow_page_fault_handler(s, v) \/ \E val \in Values : store(s, v, val)
    <3>1. ASSUME NEW s \in Spaces, NEW v \in Pages, NEW val \in Values, store(s, v, val)
          PROVE Tables'
      BY <3>1, <1>1 DEF store
    <3> QED BY <2>6, <3>1, FaultTables
  <2> QED BY <1>3, <2>1, <2>2, <2>3, <2>4, <2>5, <2>6 DEF Next
<1> QED BY <1>2, <1>3

\* Both are empty at boot.
LEMMA TablesInit == Init => Tables
<1> SUFFICES ASSUME Init PROVE Tables OBVIOUS
<1>1. \A s \in Spaces : regions[s] = << >> /\ \A v \in Pages : frame[s][v] = NULL
  BY DEF Init, nothing_mapped
<1>2. Sorted(<< >>) /\ \A v : ~ Covered(<< >>, v) BY DEF Sorted, Covered, Listed
<1> QED BY <1>1, <1>2 DEF Tables

\* Region lists stay sorted and free of overlaps and say exactly which pages the
\* page tables map (RegionsMatchTables), in every situation.
THEOREM RegionsAgree == Spec => []RegionsMatchTables
<1>1. Init => TypeOK /\ Tables BY TypeInit, TablesInit
<1>2. (TypeOK /\ Tables) /\ [Next]_vars => (TypeOK /\ Tables)' BY TypeStep, TablesStep
<1>3. TypeOK /\ Tables => RegionsMatchTables BY TablesMatch
<1> QED BY <1>1, <1>2, <1>3, PTL DEF Spec
=============================================================================
