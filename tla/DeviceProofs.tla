---------------------------- MODULE DeviceProofs -----------------------------
(***************************************************************************)
(* Proofs about the devices: the queues and the modifiers of Keyboard and  *)
(* Mouse, how long a lost byte keeps Mouse out of step, the set-up of the  *)
(* mouse in Ps2Init, the boot screens of Console, the interrupts of Irq,   *)
(* the scan of PciScan, the streams of Stdio, the strings of Text and what *)
(* Format prints.                                                          *)
(***************************************************************************)
EXTENDS Input, Ps2Init, Console, PciScan, Irq, Text, CLibrary, SequenceTheorems,
        FunctionTheorems, FiniteSetTheorems, WellFoundedInduction, TLAPS

\* A set of numbers that is not empty has a least one.
LEMMA LeastNumber ==
  ASSUME NEW S \in SUBSET Nat, S # {}
  PROVE  \E x \in S : \A y \in S : x <= y
<1> DEFINE R == OpToRel(<, Nat)
<1>1. IsWellFoundedOn(R, Nat) BY NatLessThanWellFounded
<1>2. R = {ss \in Nat \X Nat : ss[1] < ss[2]} BY DEF OpToRel
<1> HIDE DEF R
<1>3. PICK x \in S : \A y \in S : ~ (<<y, x>> \in R) BY <1>1, WFMin
<1>4. \A y \in S : ~ (y < x) BY <1>2, <1>3
<1> QED BY <1>4

-----------------------------------------------------------------------------
(* The ring of events.                                                     *)

\* A ring of N slots for events of E.
Ring(N, E) == [buf : [0 .. N - 1 -> E], head : 0 .. N - 1, tail : 0 .. N - 1]

\* The size the code derives from the buffer is the constant.
LEMMA RingSizeIs == ASSUME NEW N \in Nat \ {0, 1}, NEW E, NEW r \in Ring(N, E) PROVE ring_size(r) = N
<1>1. DOMAIN r.buf = 0 .. N - 1 BY DEF Ring
<1>2. Cardinality(0 .. N - 1) = N
  <2>1. N - 1 \in Int /\ 0 \in Int OBVIOUS
  <2>2. Cardinality(0 .. N - 1) = IF 0 > N - 1 THEN 0 ELSE N - 1 - 0 + 1 BY <2>1, FS_Interval
  <2> QED BY <2>2
<1> QED BY <1>1, <1>2 DEF ring_size

\* Indices wrap around once, in either direction.
LEMMA WrapsUp ==
  ASSUME NEW N \in Nat \ {0}, NEW a \in Nat, a < N + N
  PROVE  a % N = IF a < N THEN a ELSE a - N
OBVIOUS

\* The remainder of a number within one round of zero.
LEMMA WrapsDown ==
  ASSUME NEW N \in Nat \ {0}, NEW a \in Int, -N < a, a < N
  PROVE  a % N = IF a < 0 THEN a + N ELSE a
OBVIOUS

\* How many wait, and where the i-th of them is.
in_ring(N, r) == IF r.head >= r.tail THEN r.head - r.tail ELSE r.head - r.tail + N
place(N, r, i) == IF r.tail + i < N THEN r.tail + i ELSE r.tail + i - N

\* The events waiting in a ring, slot by slot from the tail on.
LEMMA WaitingIs ==
  ASSUME NEW N \in Nat \ {0, 1}, NEW E, NEW r \in Ring(N, E)
  PROVE  /\ Waiting(r) = [i \in 1 .. in_ring(N, r) |-> r.buf[place(N, r, i - 1)]]
         /\ Waiting(r) \in Seq(E) /\ Len(Waiting(r)) = in_ring(N, r)
         /\ in_ring(N, r) \in 0 .. N - 1
<1>1. /\ r.head \in 0 .. N - 1 /\ r.tail \in 0 .. N - 1 /\ r.buf \in [0 .. N - 1 -> E]
      /\ ring_size(r) = N
  BY RingSizeIs DEF Ring
<1> DEFINE h == r.head
           t == r.tail
<1>2. (h - t) % N = in_ring(N, r) /\ in_ring(N, r) \in 0 .. N - 1
  <2> DEFINE d == h - t
  <2>1. d \in Int /\ -N < d /\ d < N BY <1>1
  <2>2. in_ring(N, r) = IF d >= 0 THEN d ELSE d + N BY <1>1 DEF in_ring
  <2> HIDE DEF d
  <2>3. d % N = IF d < 0 THEN d + N ELSE d BY <2>1, WrapsDown
  <2>4. d % N = in_ring(N, r) /\ in_ring(N, r) \in 0 .. N - 1 BY <2>1, <2>2, <2>3
  <2> QED BY <2>4 DEF d
<1>3. ASSUME NEW i \in 1 .. in_ring(N, r)
      PROVE  (t + i - 1) % N = place(N, r, i - 1) /\ place(N, r, i - 1) \in 0 .. N - 1
  <2> DEFINE a == t + i - 1
  <2>1. a \in Nat /\ a < N + N BY <1>1, <1>2, <1>3
  <2>2. place(N, r, i - 1) = IF a < N THEN a ELSE a - N BY <1>1, <1>2, <1>3 DEF place
  <2> HIDE DEF a
  <2>3. a % N = IF a < N THEN a ELSE a - N BY <2>1, WrapsUp
  <2>4. a % N = place(N, r, i - 1) /\ place(N, r, i - 1) \in 0 .. N - 1 BY <2>1, <2>2, <2>3
  <2> QED BY <2>4 DEF a
<1> DEFINE w == [i \in 1 .. in_ring(N, r) |-> r.buf[place(N, r, i - 1)]]
<1>4. Waiting(r) = w BY <1>1, <1>2, <1>3 DEF Waiting
<1>5. \A i \in 1 .. in_ring(N, r) : w[i] \in E BY <1>1, <1>3
<1>6. w \in Seq(E) /\ Len(w) = in_ring(N, r) BY <1>2, <1>5
<1> QED BY <1>2, <1>4, <1>6

\* An event that finds room is the last to wait, one that does not is dropped.
LEMMA PushIs ==
  ASSUME NEW N \in Nat \ {0, 1}, NEW E, NEW r \in Ring(N, E), NEW ev \in E
  PROVE  /\ push_event(r, ev) \in Ring(N, E)
         /\ Waiting(push_event(r, ev)) =
              IF Len(Waiting(r)) < N - 1 THEN Append(Waiting(r), ev) ELSE Waiting(r)
<1>1. /\ r.head \in 0 .. N - 1 /\ r.tail \in 0 .. N - 1 /\ r.buf \in [0 .. N - 1 -> E]
      /\ ring_size(r) = N
  BY RingSizeIs DEF Ring
<1> DEFINE h == r.head
           t == r.tail
           next == IF h + 1 < N THEN h + 1 ELSE 0
           s == [r EXCEPT !.buf[r.head] = ev, !.head = next]
<1>2. (h + 1) % N = next /\ next \in 0 .. N - 1
  <2> DEFINE a == h + 1
  <2>1. a \in Nat /\ a < N + N /\ a <= N BY <1>1
  <2>2. next = IF a < N THEN a ELSE 0 OBVIOUS
  <2> HIDE DEF a, next
  <2>3. a % N = IF a < N THEN a ELSE a - N BY <2>1, WrapsUp
  <2>4. a % N = next /\ next \in 0 .. N - 1 BY <2>1, <2>2, <2>3
  <2> QED BY <2>4 DEF a
<1>3. push_event(r, ev) = IF next = t THEN r ELSE s
  BY <1>1, <1>2 DEF push_event
<1>4. Len(Waiting(r)) = in_ring(N, r) /\ in_ring(N, r) \in 0 .. N - 1 BY WaitingIs
<1>5. next = t <=> ~(in_ring(N, r) < N - 1) BY <1>1 DEF in_ring
<1>6. CASE next = t BY <1>3, <1>4, <1>5, <1>6
<1>7. CASE next # t
  <2> HIDE DEF next
  <2>1. /\ s.head = next /\ s.tail = t /\ s.buf = [r.buf EXCEPT ![h] = ev]
    BY <1>1 DEF Ring
  <2>2. s \in Ring(N, E)
    <3> DEFINE b == [r.buf EXCEPT ![h] = ev]
               r1 == [r EXCEPT !.buf = b]
               r2 == [r1 EXCEPT !.head = next]
    <3>1. s = r2 OBVIOUS
    <3>2. b \in [0 .. N - 1 -> E] BY <1>1
    <3> HIDE DEF s, b
    <3>3. r1 \in Ring(N, E) BY <1>1, <3>2 DEF Ring
    <3> HIDE DEF r1
    <3>4. r2 \in Ring(N, E) BY <1>2, <3>3 DEF Ring
    <3> QED BY <3>1, <3>4
  <2> HIDE DEF s
  <2>3. in_ring(N, s) = in_ring(N, r) + 1
    <3>1. h \in 0 .. N - 1 /\ t \in 0 .. N - 1 BY <1>1
    <3>2. in_ring(N, r) = IF h >= t THEN h - t ELSE h - t + N BY DEF in_ring
    <3>3. in_ring(N, s) = IF next >= t THEN next - t ELSE next - t + N BY <2>1 DEF in_ring
    <3>4. next = IF h + 1 < N THEN h + 1 ELSE 0 BY DEF next
    <3> HIDE DEF h, t
    <3> QED BY <1>7, <3>1, <3>2, <3>3, <3>4
  <2>4. \A i \in 1 .. in_ring(N, s) : s.buf[place(N, s, i - 1)] =
                    IF i <= in_ring(N, r) THEN r.buf[place(N, r, i - 1)] ELSE ev
    <3> SUFFICES ASSUME NEW i \in 1 .. in_ring(N, s)
                 PROVE  s.buf[place(N, s, i - 1)] =
                          IF i <= in_ring(N, r) THEN r.buf[place(N, r, i - 1)] ELSE ev
      OBVIOUS
    <3>1. i \in Nat /\ i >= 1 /\ i <= in_ring(N, r) + 1 BY <1>4, <2>3
    <3>2. place(N, s, i - 1) = place(N, r, i - 1) BY <2>1 DEF place
    <3>3. place(N, r, i - 1) \in 0 .. N - 1 BY <1>1, <1>4, <3>1 DEF place
    <3>4. place(N, r, i - 1) = h <=> i = in_ring(N, r) + 1 BY <1>1, <1>4, <3>1 DEF place, in_ring
    <3> QED BY <1>1, <1>4, <2>1, <3>1, <3>2, <3>3, <3>4
  <2>5. Waiting(s) = [i \in 1 .. in_ring(N, s) |-> s.buf[place(N, s, i - 1)]]
        /\ Len(Waiting(s)) = in_ring(N, s) /\ Waiting(s) \in Seq(E)
    BY <2>2, WaitingIs
  <2>6. /\ Waiting(r) = [i \in 1 .. in_ring(N, r) |-> r.buf[place(N, r, i - 1)]] /\ Waiting(r) \in Seq(E)
    BY WaitingIs
  <2>7. Waiting(s) = Append(Waiting(r), ev)
    <3>1. Len(Append(Waiting(r), ev)) = in_ring(N, s) /\ Append(Waiting(r), ev) \in Seq(E)
      BY <1>4, <2>3, <2>6
    <3>2. \A i \in 1 .. in_ring(N, s) : Append(Waiting(r), ev)[i] = Waiting(s)[i]
      BY <1>4, <2>3, <2>4, <2>5, <2>6
    <3> QED BY <2>5, <3>1, <3>2, SeqEqual
  <2> QED BY <1>3, <1>4, <1>5, <1>7, <2>2, <2>7
<1> QED BY <1>6, <1>7

\* The ring after k events have been taken.  One more takes the oldest, if any.
from(N, r, k) == [r EXCEPT !.tail = place(N, r, k)]

\* Reading one more event from a ring of which some have been read.
LEMMA ReadIs ==
  ASSUME NEW N \in Nat \ {0, 1}, NEW E, NEW r \in Ring(N, E), NEW k \in 0 .. in_ring(N, r)
  PROVE  /\ from(N, r, k) \in Ring(N, E)
         /\ read_event(from(N, r, k)) = IF k < in_ring(N, r) THEN from(N, r, k + 1) ELSE from(N, r, k)
<1>1. /\ r.head \in 0 .. N - 1 /\ r.tail \in 0 .. N - 1 /\ r.buf \in [0 .. N - 1 -> E]
      /\ r \in Ring(N, E) /\ in_ring(N, r) \in 0 .. N - 1
  BY WaitingIs DEF Ring
<1> DEFINE at(j) == [r EXCEPT !.tail = place(N, r, j)]
           p == place(N, r, k)
           q == place(N, r, k + 1)
<1>2. p \in 0 .. N - 1 /\ (k < in_ring(N, r) => q \in 0 .. N - 1 /\ q = IF p + 1 < N THEN p + 1 ELSE 0)
  <2> DEFINE t == r.tail
             L == in_ring(N, r)
  <2>1. t \in 0 .. N - 1 /\ L \in 0 .. N - 1 /\ k \in 0 .. L BY <1>1
  <2>2. p = IF t + k < N THEN t + k ELSE t + k - N BY DEF place
  <2>3. q = IF t + (k + 1) < N THEN t + (k + 1) ELSE t + (k + 1) - N BY DEF place
  <2> HIDE DEF t, L, p, q
  <2>4. p \in 0 .. N - 1 BY <2>1, <2>2
  <2>5. k < L => q \in 0 .. N - 1 /\ q = IF p + 1 < N THEN p + 1 ELSE 0 BY <2>1, <2>2, <2>3
  <2> QED BY <2>4, <2>5 DEF L
<1>3. at(k) \in Ring(N, E) /\ at(k).head = r.head /\ at(k).tail = p BY <1>1, <1>2 DEF Ring
<1>4. ring_size(at(k)) = N BY <1>3, RingSizeIs
<1>5. has_event(at(k)) <=> k < in_ring(N, r) BY <1>1, <1>3 DEF has_event, place, in_ring
<1>6. k < in_ring(N, r) => (p + 1) % N = q
  <2> DEFINE a == p + 1
  <2>1. a \in Nat /\ a < N + N /\ a <= N BY <1>2
  <2>2. k < in_ring(N, r) => q = IF a < N THEN a ELSE 0 BY <1>2
  <2> HIDE DEF a, q
  <2>3. a % N = IF a < N THEN a ELSE a - N BY <2>1, WrapsUp
  <2>4. k < in_ring(N, r) => a % N = q BY <2>1, <2>2, <2>3
  <2> QED BY <2>4 DEF a
<1>7. [at(k) EXCEPT !.tail = q] = at(k + 1) BY DEF Ring
<1>8. read_event(at(k)) = IF has_event(at(k)) THEN [at(k) EXCEPT !.tail = (at(k).tail + 1) % ring_size(at(k))] ELSE at(k)
  BY DEF read_event
<1>9. from(N, r, k) = at(k) /\ from(N, r, k + 1) = at(k + 1) BY DEF from
<1> QED BY <1>3, <1>4, <1>5, <1>6, <1>7, <1>8, <1>9

\* The loop of kbd_read_events and mouse_read, as the function read_events
\* is defined by.
IsLoop(g, r, n) == g = [i \in 0 .. n |-> IF i = 0 THEN r ELSE read_event(g[i - 1])]
least(a, b) == IF a < b THEN a ELSE b

\* n reads take the n oldest, or all there are.
LEMMA ReadsAre ==
  ASSUME NEW N \in Nat \ {0, 1}, NEW E, NEW r \in Ring(N, E), NEW n \in Nat
  PROVE  read_events(r, n) = from(N, r, least(n, in_ring(N, r)))
<1> DEFINE L == in_ring(N, r)
           f == [i \in 0 .. n |-> from(N, r, least(i, L))]
           g == CHOOSE h : IsLoop(h, r, n)
<1>1. L \in 0 .. N - 1 BY WaitingIs
<1>2. from(N, r, 0) = r
  <2>1. place(N, r, 0) = r.tail BY DEF place, Ring
  <2> QED BY <2>1 DEF from, Ring
<1>3. \A k \in 0 .. L : read_event(from(N, r, k)) = IF k < L THEN from(N, r, k + 1) ELSE from(N, r, k)
  BY ReadIs
<1> HIDE DEF L
<1>4. \A i \in 0 .. n : f[i] = IF i = 0 THEN r ELSE read_event(f[i - 1])
  <2> SUFFICES ASSUME NEW i \in 0 .. n PROVE f[i] = IF i = 0 THEN r ELSE read_event(f[i - 1]) OBVIOUS
  <2>1. CASE i = 0
    <3>1. least(0, L) = 0 BY <1>1 DEF least
    <3> QED BY <1>2, <2>1, <3>1
  <2>2. CASE i # 0
    <3>1. i - 1 \in 0 .. n /\ f[i - 1] = from(N, r, least(i - 1, L)) BY <2>2
    <3>2. least(i - 1, L) \in 0 .. L /\ least(i, L) = IF least(i - 1, L) < L THEN least(i - 1, L) + 1 ELSE least(i - 1, L)
      BY <1>1, <2>2 DEF least
    <3> QED BY <1>3, <2>2, <3>1, <3>2
  <2> QED BY <2>1, <2>2
<1>5. IsLoop(f, r, n)
  <2> DEFINE e == [i \in 0 .. n |-> IF i = 0 THEN r ELSE read_event(f[i - 1])]
  <2>1. f = e BY <1>4
  <2> HIDE DEF f
  <2> QED BY <2>1 DEF IsLoop
<1> HIDE DEF f
<1>6. IsLoop(g, r, n) BY <1>5
<1> HIDE DEF g
<1>7. \A i \in 0 .. n : g[i] = f[i]
  <2> DEFINE B == {i \in 0 .. n : g[i] # f[i]}
  <2> SUFFICES ASSUME B # {} PROVE FALSE OBVIOUS
  <2>0. B \in SUBSET Nat OBVIOUS
  <2>1. PICK i \in B : \A j \in B : i <= j BY <2>0, LeastNumber
  <2>2. i \in 0 .. n /\ g[i] # f[i] BY <2>1
  <2>3. g[i] = IF i = 0 THEN r ELSE read_event(g[i - 1]) BY <1>6, <2>2 DEF IsLoop
  <2>4. i # 0 /\ i - 1 \in 0 .. n /\ i - 1 \notin B BY <1>4, <2>1, <2>2, <2>3
  <2>5. g[i - 1] = f[i - 1] BY <2>4
  <2> QED BY <1>4, <2>2, <2>3, <2>4, <2>5
<1>8. read_events(r, n) = g[n] BY DEF read_events, IsLoop, g
<1>9. n \in 0 .. n OBVIOUS
<1> QED BY <1>7, <1>8, <1>9 DEF f, L

\* What is left after reading.
LEMMA ReadLeaves ==
  ASSUME NEW N \in Nat \ {0, 1}, NEW E, NEW r \in Ring(N, E), NEW n \in Nat
  PROVE  /\ read_events(r, n) \in Ring(N, E)
         /\ LET q == Waiting(r) IN
            Waiting(read_events(r, n)) = SubSeq(q, (IF n < Len(q) THEN n ELSE Len(q)) + 1, Len(q))
<1> DEFINE q == Waiting(r)
           L == in_ring(N, r)
           k == least(n, L)
           s == from(N, r, k)
<1>1. /\ L \in 0 .. N - 1 /\ q \in Seq(E) /\ Len(q) = L
      /\ q = [i \in 1 .. L |-> r.buf[place(N, r, i - 1)]]
  BY WaitingIs
<1>2. k \in 0 .. L BY <1>1 DEF least
<1>3. s \in Ring(N, E) BY <1>2, ReadIs
<1>4. s.buf = r.buf /\ s.head = r.head /\ s.tail = place(N, r, k) BY DEF from, Ring
<1>5. r.head \in 0 .. N - 1 /\ r.tail \in 0 .. N - 1 BY DEF Ring
<1>6. read_events(r, n) = s BY ReadsAre
<1> HIDE DEF s, k, q
<1>7. in_ring(N, s) = L - k BY <1>1, <1>2, <1>4, <1>5 DEF in_ring, place
<1>8. \A i \in 1 .. L - k : place(N, s, i - 1) = place(N, r, (k + i) - 1)
  <2> SUFFICES ASSUME NEW i \in 1 .. L - k PROVE place(N, s, i - 1) = place(N, r, (k + i) - 1) OBVIOUS
  <2> DEFINE t == r.tail
             u == s.tail
  <2>1. /\ t \in 0 .. N - 1 /\ k \in Nat /\ i \in Nat /\ i >= 1 /\ L \in Nat /\ k + i <= L /\ L <= N - 1
    BY <1>1, <1>2, <1>5
  <2>2. u = IF t + k < N THEN t + k ELSE t + k - N BY <1>4 DEF place
  <2>3. place(N, s, i - 1) = IF u + (i - 1) < N THEN u + (i - 1) ELSE u + (i - 1) - N BY DEF place
  <2>4. place(N, r, (k + i) - 1) = IF t + ((k + i) - 1) < N THEN t + ((k + i) - 1) ELSE t + ((k + i) - 1) - N BY DEF place
  <2> HIDE DEF t, u, L
  <2> QED BY <2>1, <2>2, <2>3, <2>4
<1>9. /\ Waiting(s) = [i \in 1 .. in_ring(N, s) |-> s.buf[place(N, s, i - 1)]]
      /\ Waiting(s) \in Seq(E) /\ Len(Waiting(s)) = in_ring(N, s)
  BY <1>3, WaitingIs
<1> HIDE DEF L
<1>10. /\ SubSeq(q, k + 1, L) \in Seq(E) /\ Len(SubSeq(q, k + 1, L)) = L - k
       /\ \A i \in 1 .. L - k : SubSeq(q, k + 1, L)[i] = q[k + i]
  <2>1. k + 1 \in Int /\ L \in Int /\ k \in Int BY <1>1, <1>2
  <2>2. \A i \in k + 1 .. L : q[i] \in E BY <1>1, <1>2
  <2>3. /\ SubSeq(q, k + 1, L) \in Seq(E)
        /\ Len(SubSeq(q, k + 1, L)) = IF k + 1 <= L THEN L - (k + 1) + 1 ELSE 0
        /\ \A i \in 1 .. L - (k + 1) + 1 : SubSeq(q, k + 1, L)[i] = q[(k + 1) + i - 1]
    BY <2>1, <2>2, SubSeqProperties
  <2> QED BY <1>1, <1>2, <2>3
<1>11. \A i \in 1 .. L - k : Waiting(s)[i] = q[k + i]
  <2> SUFFICES ASSUME NEW i \in 1 .. L - k PROVE Waiting(s)[i] = q[k + i] OBVIOUS
  <2>1. Waiting(s)[i] = r.buf[place(N, r, (k + i) - 1)] BY <1>4, <1>7, <1>8, <1>9
  <2>2. k + i \in 1 .. L BY <1>1, <1>2
  <2> DEFINE m == k + i
  <2>3. Waiting(s)[i] = r.buf[place(N, r, m - 1)] BY <2>1
  <2> HIDE DEF m
  <2>4. q[m] = r.buf[place(N, r, m - 1)] BY <1>1, <2>2 DEF m
  <2> QED BY <2>3, <2>4 DEF m
<1>12. Waiting(s) = SubSeq(q, k + 1, L)
  <2> DEFINE a == Waiting(s)
             b == SubSeq(q, k + 1, L)
  <2>1. a \in Seq(E) /\ b \in Seq(E) /\ Len(a) = Len(b) BY <1>7, <1>9, <1>10
  <2>2. \A i \in 1 .. Len(a) : a[i] = b[i] BY <1>7, <1>9, <1>10, <1>11
  <2> HIDE DEF a, b
  <2>3. a = b BY <2>1, <2>2, SeqEqual
  <2> QED BY <2>3 DEF a, b
<1> QED BY <1>1, <1>3, <1>6, <1>12 DEF least, k, q, L
-----------------------------------------------------------------------------
(* The queues.                                                             *)

LEMMA RingStarts ==
  ASSUME NEW N \in Nat \ {0, 1}, NEW E, NEW e \in E
  PROVE  ring_init(N, e) \in Ring(N, E)
BY DEF ring_init, Ring

\* A ring acts as a queue.
LEMMA RingIsQueue ==
  ASSUME NEW N \in Nat \ {0, 1}, NEW E, NEW r \in Ring(N, E)
  PROVE  /\ \A ev \in E : Waiting(push_event(r, ev)) =
                IF Len(Waiting(r)) < ring_size(r) - 1 THEN Append(Waiting(r), ev) ELSE Waiting(r)
         /\ \A n \in 0 .. N : Waiting(read_events(r, n)) =
                SubSeq(Waiting(r), (IF n < Len(Waiting(r)) THEN n ELSE Len(Waiting(r))) + 1, Len(Waiting(r)))
<1>1. ring_size(r) = N BY RingSizeIs
<1>2. \A ev \in E : Waiting(push_event(r, ev)) =
                IF Len(Waiting(r)) < N - 1 THEN Append(Waiting(r), ev) ELSE Waiting(r)
  BY PushIs
<1>3. \A n \in 0 .. N : n \in Nat OBVIOUS
<1>4. \A n \in 0 .. N : Waiting(read_events(r, n)) =
                SubSeq(Waiting(r), (IF n < Len(Waiting(r)) THEN n ELSE Len(Waiting(r))) + 1, Len(Waiting(r)))
  BY <1>3, ReadLeaves
<1> QED BY <1>1, <1>2, <1>4

-----------------------------------------------------------------------------
(* The keyboard: the handler's state follows the bytes on the wire.        *)

\* The codes of the keys in use, the bytes made of them, and the events.
Makes == {"E0"} \cup UNION {{k.make : k \in K} : K \in KeySets}
Codes == Makes \cup {"RCTRL", "RALT", "UP", "A", KEY_NONE}
KeyEvents == [code : Codes, value : {0, 1}, modifiers : SUBSET {"shift", "ctrl", "alt", "caps"}]
Bytes == [make : Makes, pressed : BOOLEAN]

\* The driver's state, and what a byte makes of it.
Driver(m, x) == [m |-> m, x |-> x]
after_byte(s, b) ==
    IF b = SC_EXTENDED THEN Driver(s.m, TRUE)
    ELSE Driver(IF s.x THEN modified_extended(s.m, extended_to_key(b.make), b.pressed)
                ELSE modified(s.m, b.make, b.pressed), FALSE)

\* The bytes w take the driver from s to t, through the states tr.
Trace(tr, s, w, t) ==
    /\ tr[0] = s /\ tr[Len(w)] = t
    /\ \A i \in 1 .. Len(w) : tr[i] = after_byte(tr[i - 1], w[i])
Leads(s, w, t) == \E tr : Trace(tr, s, w, t)

\* Without a byte the driver stays as it is.
LEMMA NoByte == ASSUME NEW s, NEW t PROVE Leads(s, <<>>, t) <=> s = t
<1>1. Leads(s, <<>>, t) => s = t BY DEF Leads, Trace
<1>2. ASSUME s = t PROVE Leads(s, <<>>, t)
  <2> DEFINE tr == [i \in 0 .. 0 |-> s]
  <2>1. Trace(tr, s, <<>>, t) BY <1>2 DEF Trace
  <2> QED BY <2>1 DEF Leads
<1> QED BY <1>1, <1>2

\* The handler takes the first byte.
LEMMA TakesByte ==
  ASSUME NEW s, NEW t, NEW w \in Seq(Bytes), w # <<>>, Leads(s, w, t)
  PROVE  Leads(after_byte(s, Head(w)), Tail(w), t)
<1>1. PICK tr : Trace(tr, s, w, t) BY DEF Leads
<1> DEFINE n == Len(w)
           u == [i \in 0 .. n - 1 |-> tr[i + 1]]
           v == Tail(w)
<1>2. n \in Nat \ {0} /\ Len(v) = n - 1 /\ Head(w) = w[1] /\ \A i \in 1 .. n - 1 : v[i] = w[i + 1] OBVIOUS
<1>3. tr[0] = s /\ tr[n] = t /\ \A i \in 1 .. n : tr[i] = after_byte(tr[i - 1], w[i]) BY <1>1 DEF Trace
<1> HIDE DEF n, v
<1>4. u[0] = after_byte(s, Head(w))
  <2>1. u[0] = tr[1] /\ 1 \in 1 .. n BY <1>2
  <2>2. tr[1] = after_byte(tr[0], w[1]) BY <1>3, <2>1
  <2> QED BY <1>2, <1>3, <2>1, <2>2
<1>5. u[n - 1] = t BY <1>2, <1>3
<1>6. \A i \in 1 .. n - 1 : u[i] = after_byte(u[i - 1], v[i])
  <2> SUFFICES ASSUME NEW i \in 1 .. n - 1 PROVE u[i] = after_byte(u[i - 1], v[i]) OBVIOUS
  <2> DEFINE j == i + 1
  <2>1. j \in 1 .. n /\ j - 1 = i /\ i - 1 \in 0 .. n - 1 /\ i \in 0 .. n - 1 BY <1>2
  <2>2. u[i] = tr[j] /\ u[i - 1] = tr[i] /\ v[i] = w[j] BY <1>2, <2>1
  <2>3. tr[j] = after_byte(tr[j - 1], w[j]) BY <1>3, <2>1
  <2> QED BY <2>1, <2>2, <2>3
<1> HIDE DEF u
<1>7. Trace(u, after_byte(s, Head(w)), v, t) BY <1>2, <1>4, <1>5, <1>6 DEF Trace
<1> QED BY <1>7 DEF Leads, v

\* The keyboard sends one more.
LEMMA SendsByte ==
  ASSUME NEW s, NEW t, NEW w \in Seq(Bytes), NEW b \in Bytes, Leads(s, w, t)
  PROVE  Leads(s, Append(w, b), after_byte(t, b))
<1>1. PICK tr : Trace(tr, s, w, t) BY DEF Leads
<1> DEFINE n == Len(w)
           v == Append(w, b)
           z == after_byte(t, b)
           u == [i \in 0 .. n + 1 |-> IF i <= n THEN tr[i] ELSE z]
<1>2. n \in Nat /\ Len(v) = n + 1 /\ v[n + 1] = b /\ \A i \in 1 .. n : v[i] = w[i] OBVIOUS
<1>3. tr[0] = s /\ tr[n] = t /\ \A i \in 1 .. n : tr[i] = after_byte(tr[i - 1], w[i]) BY <1>1 DEF Trace
<1> HIDE DEF n, v
<1>4. z = after_byte(t, b) OBVIOUS
<1> HIDE DEF z
<1>5. u[0] = s /\ u[n + 1] = z BY <1>2, <1>3
<1>6. \A i \in 1 .. n + 1 : u[i] = after_byte(u[i - 1], v[i])
  <2> SUFFICES ASSUME NEW i \in 1 .. n + 1 PROVE u[i] = after_byte(u[i - 1], v[i]) OBVIOUS
  <2>1. CASE i = n + 1
    <3>1. i - 1 = n /\ u[n] = tr[n] /\ u[i] = z /\ v[i] = b BY <1>2, <2>1
    <3> QED BY <1>3, <1>4, <3>1
  <2>2. CASE i # n + 1
    <3>1. i \in 1 .. n /\ u[i] = tr[i] /\ u[i - 1] = tr[i - 1] /\ v[i] = w[i] BY <1>2, <2>2
    <3> QED BY <1>3, <3>1
  <2> QED BY <2>1, <2>2
<1> HIDE DEF u
<1>7. Trace(u, s, v, z) BY <1>2, <1>5, <1>6 DEF Trace
<1> QED BY <1>7 DEF Leads, v, z

\* What a key does to the modifiers when its bytes are through.
Keys == [make : Makes, ext : BOOLEAN]
settles(m, k, p) ==
    IF k.ext THEN modified_extended(m, extended_to_key(k.make), p) ELSE modified(m, k.make, p)

\* The bytes of one more key lead from where the bytes before it led.
LEMMA SendsKey ==
  ASSUME NEW s, NEW m, NEW w \in Seq(Bytes), NEW k \in Keys, k.make # "E0", NEW p \in BOOLEAN,
         Leads(s, w, Driver(m, FALSE))
  PROVE  /\ w \o bytes(k, p) \in Seq(Bytes)
         /\ Leads(s, w \o bytes(k, p), Driver(settles(m, k, p), FALSE))
<1> DEFINE b == [make |-> k.make, pressed |-> p]
<1>1. b \in Bytes /\ b.make = k.make /\ b.pressed = p /\ SC_EXTENDED \in Bytes
  <2>1. k.make \in Makes BY DEF Keys
  <2>2. b \in Bytes /\ b.make = k.make /\ b.pressed = p BY <2>1 DEF Bytes
  <2>3. SC_EXTENDED \in Bytes
    <3>1. "E0" \in Makes BY DEF Makes
    <3>2. \A x \in Makes, y \in BOOLEAN : [make |-> x, pressed |-> y] \in Bytes BY DEF Bytes
    <3>3. TRUE \in BOOLEAN OBVIOUS
    <3> QED BY <3>1, <3>2, <3>3 DEF SC_EXTENDED
  <2> QED BY <2>2, <2>3
<1>2. b # SC_EXTENDED BY <1>1 DEF SC_EXTENDED
<1> HIDE DEF b
<1>3. k.ext \in BOOLEAN BY DEF Keys
<1>4. CASE k.ext
  <2> DEFINE v == Append(w, SC_EXTENDED)
  <2>1. bytes(k, p) = <<SC_EXTENDED>> \o <<b>> BY <1>4 DEF bytes, b
  <2>2. w \o bytes(k, p) = Append(v, b) /\ v \in Seq(Bytes) /\ Append(v, b) \in Seq(Bytes)
    <3>1. <<SC_EXTENDED>> \in Seq(Bytes) /\ <<b>> \in Seq(Bytes) BY <1>1
    <3>2. w \o (<<SC_EXTENDED>> \o <<b>>) = (w \o <<SC_EXTENDED>>) \o <<b>> BY <3>1, ConcatAssociative
    <3>3. v = w \o <<SC_EXTENDED>> /\ v \in Seq(Bytes) BY <1>1, AppendIsConcat
    <3>4. Append(v, b) = v \o <<b>> /\ Append(v, b) \in Seq(Bytes) BY <1>1, <3>3, AppendIsConcat
    <3> QED BY <2>1, <3>2, <3>3, <3>4
  <2> HIDE DEF v
  <2>3. after_byte(Driver(m, FALSE), SC_EXTENDED) = Driver(m, TRUE) BY DEF after_byte, Driver
  <2>4. Leads(s, v, Driver(m, TRUE)) BY <1>1, <2>3, SendsByte DEF v
  <2>5. after_byte(Driver(m, TRUE), b) = Driver(settles(m, k, p), FALSE)
    BY <1>1, <1>2, <1>4 DEF after_byte, Driver, settles
  <2>6. Leads(s, Append(v, b), Driver(settles(m, k, p), FALSE)) BY <1>1, <2>2, <2>4, <2>5, SendsByte
  <2> QED BY <2>2, <2>6
<1>5. CASE ~ k.ext
  <2>1. bytes(k, p) = <<b>>
    <3>1. bytes(k, p) = <<>> \o <<b>> BY <1>5 DEF bytes, b
    <3> QED BY <3>1
  <2>2. w \o bytes(k, p) = Append(w, b) /\ Append(w, b) \in Seq(Bytes) BY <1>1, <2>1
  <2>3. after_byte(Driver(m, FALSE), b) = Driver(settles(m, k, p), FALSE)
    BY <1>1, <1>2, <1>5 DEF after_byte, Driver, settles
  <2>4. Leads(s, Append(w, b), Driver(settles(m, k, p), FALSE)) BY <1>1, <2>3, SendsByte
  <2> QED BY <2>2, <2>4
<1> QED BY <1>3, <1>4, <1>5

\* The modifiers the person holds.
HoldsShift(d) == \E k \in d : k.make \in Shifts /\ ~k.ext
HoldsCtrl(d) == \E k \in d : k.make = "LCTRL"
HoldsAlt(d) == \E k \in d : k.make = "LALT"
Modifiers(a, b, c, d) == [shift |-> a, ctrl |-> b, alt |-> c, caps |-> d]
Truth(d, l) == Modifiers(HoldsShift(d), HoldsCtrl(d), HoldsAlt(d), l)
Exclusive(d) == \A k, x \in d : same_modifier(k, x) => k = x

\* What settles computes, field by field.
LEMMA SettlesIs ==
  ASSUME NEW a, NEW b, NEW c, NEW l, NEW k \in Keys, k.ext => k.make # "CAPS", NEW p \in BOOLEAN
  PROVE  settles(Modifiers(a, b, c, l), k, p) =
           Modifiers(IF k.make \in Shifts /\ ~k.ext THEN p ELSE a,
                     IF k.make = "LCTRL" THEN p ELSE b,
                     IF k.make = "LALT" THEN p ELSE c,
                     IF k.make = "CAPS" /\ p THEN ~l ELSE l)
<1> DEFINE m == Modifiers(a, b, c, l)
<1>1. k.ext \in BOOLEAN BY DEF Keys
<1>2. /\ \A q : [m EXCEPT !.shift = q] = Modifiers(q, b, c, l)
      /\ \A q : [m EXCEPT !.ctrl = q] = Modifiers(a, q, c, l)
      /\ \A q : [m EXCEPT !.alt = q] = Modifiers(a, b, q, l)
      /\ [m EXCEPT !.caps = ~m.caps] = Modifiers(a, b, c, ~l)
  BY DEF Modifiers
<1> HIDE DEF m
<1>3. CASE k.ext
  <2>1. settles(m, k, p) = modified_extended(m, extended_to_key(k.make), p) BY <1>3 DEF settles
  <2>2. CASE k.make = "LCTRL" BY <1>2, <1>3, <2>1, <2>2 DEF modified_extended, extended_to_key, m, Shifts
  <2>3. CASE k.make = "LALT" BY <1>2, <1>3, <2>1, <2>3 DEF modified_extended, extended_to_key, m, Shifts
  <2>4. CASE k.make # "LALT" /\ k.make # "LCTRL"
    BY <1>2, <1>3, <2>1, <2>4 DEF modified_extended, extended_to_key, m, Shifts, KEY_NONE
  <2> QED BY <2>2, <2>3, <2>4
<1>4. CASE ~ k.ext
  <2>1. settles(m, k, p) = modified(m, k.make, p) BY <1>4 DEF settles
  <2>2. CASE k.make \in Shifts BY <1>2, <1>4, <2>1, <2>2 DEF modified, m, Shifts
  <2>3. CASE k.make = "LCTRL" BY <1>2, <1>4, <2>1, <2>3 DEF modified, m, Shifts
  <2>4. CASE k.make = "LALT" BY <1>2, <1>4, <2>1, <2>4 DEF modified, m, Shifts
  <2>5. CASE k.make = "CAPS" BY <1>2, <1>4, <2>1, <2>5 DEF modified, m, Shifts
  <2>6. CASE k.make \notin Shifts /\ k.make # "LALT" /\ k.make # "LCTRL" /\ k.make # "CAPS"
    BY <1>2, <1>4, <2>1, <2>6 DEF modified, m, Shifts
  <2> QED BY <2>2, <2>3, <2>4, <2>5, <2>6
<1> QED BY <1>1, <1>3, <1>4 DEF m

\* A key that goes down, comes up or repeats changes the modifiers as it
\* changes the keys that are held.
LEMMA Pressed ==
  ASSUME NEW d \in SUBSET Keys, NEW l \in BOOLEAN, NEW k \in Keys, k.ext => k.make # "CAPS"
  PROVE  settles(Truth(d, l), k, TRUE) =
           Truth(d \cup {k}, IF k.make = "CAPS" THEN ~l ELSE l)
<1> DEFINE e == d \cup {k}
<1>1. HoldsShift(e) = IF k.make \in Shifts /\ ~k.ext THEN TRUE ELSE HoldsShift(d) BY DEF HoldsShift
<1>2. HoldsCtrl(e) = IF k.make = "LCTRL" THEN TRUE ELSE HoldsCtrl(d) BY DEF HoldsCtrl
<1>3. HoldsAlt(e) = IF k.make = "LALT" THEN TRUE ELSE HoldsAlt(d) BY DEF HoldsAlt
<1> HIDE DEF e
<1>4. settles(Truth(d, l), k, TRUE) =
           Modifiers(IF k.make \in Shifts /\ ~k.ext THEN TRUE ELSE HoldsShift(d),
                     IF k.make = "LCTRL" THEN TRUE ELSE HoldsCtrl(d),
                     IF k.make = "LALT" THEN TRUE ELSE HoldsAlt(d),
                     IF k.make = "CAPS" /\ TRUE THEN ~l ELSE l)
  BY SettlesIs DEF Truth
<1> QED BY <1>1, <1>2, <1>3, <1>4 DEF Truth, e

\* Releasing a key leaves the modifiers true to the keys still down.
LEMMA Lifted ==
  ASSUME NEW d \in SUBSET Keys, NEW l \in BOOLEAN, NEW k \in d, k.ext => k.make # "CAPS",
         Exclusive(d)
  PROVE  settles(Truth(d, l), k, FALSE) = Truth(d \ {k}, l)
<1> DEFINE e == d \ {k}
<1>0. \A x \in e : ~ same_modifier(k, x) BY DEF Exclusive
<1>1. HoldsShift(e) = IF k.make \in Shifts /\ ~k.ext THEN FALSE ELSE HoldsShift(d)
  BY <1>0 DEF HoldsShift, same_modifier, Shifts
<1>2. HoldsCtrl(e) = IF k.make = "LCTRL" THEN FALSE ELSE HoldsCtrl(d)
  BY <1>0 DEF HoldsCtrl, same_modifier
<1>3. HoldsAlt(e) = IF k.make = "LALT" THEN FALSE ELSE HoldsAlt(d)
  BY <1>0 DEF HoldsAlt, same_modifier
<1> HIDE DEF e
<1>4. settles(Truth(d, l), k, FALSE) =
           Modifiers(IF k.make \in Shifts /\ ~k.ext THEN FALSE ELSE HoldsShift(d),
                     IF k.make = "LCTRL" THEN FALSE ELSE HoldsCtrl(d),
                     IF k.make = "LALT" THEN FALSE ELSE HoldsAlt(d),
                     IF k.make = "CAPS" /\ FALSE THEN ~l ELSE l)
  <2>1. k \in Keys OBVIOUS
  <2> QED BY <2>1, SettlesIs DEF Truth
<1> QED BY <1>1, <1>2, <1>3, <1>4 DEF Truth, e

\* A key that repeats changes no modifier, caps lock aside.
LEMMA Repeated ==
  ASSUME NEW d \in SUBSET Keys, NEW l \in BOOLEAN, NEW k \in d, k.make # "CAPS"
  PROVE  settles(Truth(d, l), k, TRUE) = Truth(d, l)
<1>1. d \cup {k} = d OBVIOUS
<1>2. k \in Keys OBVIOUS
<1> QED BY <1>1, <1>2, Pressed

\* The invariant: the bytes on the wire will take the driver to the keys
\* that are held.
KeyTypes ==
    /\ keys \in KeySets /\ down \subseteq keys /\ light \in BOOLEAN
    /\ wire \in Seq(Bytes) /\ extended \in BOOLEAN
    /\ kq \in Ring(KBD_QUEUE_SIZE, KeyEvents)
KeysLead == Leads(Driver(mods, extended), wire, Driver(Truth(down, light), FALSE))
KeyInv == KeyTypes /\ Exclusive(down) /\ KeysLead

\* What KeyboardAssumption says of a single key.
LEMMA KeysAre ==
  ASSUME NEW K \in KeySets, NEW k \in K
  PROVE  k \in Keys /\ k.make # "E0" /\ (k.ext => k.make # "CAPS")
<1>1. K \subseteq [make : STRING, ext : BOOLEAN] /\ k.make # "E0" /\ (k.ext => k.make # "CAPS")
  BY KeyboardAssumption
<1>2. k \in [make : STRING, ext : BOOLEAN] BY <1>1
<1>3. k.make \in Makes BY DEF Makes
<1>4. k \in Keys BY <1>2, <1>3 DEF Keys
<1> QED BY <1>1, <1>4

\* KeyInv holds at first.
LEMMA KeyboardStarts == KeyboardInit => KeyInv
<1> SUFFICES ASSUME KeyboardInit PROVE KeyInv OBVIOUS
<1>1. KeyTypes
  <2>1. NoEvent \in KeyEvents BY DEF NoEvent, KeyEvents, Codes
  <2>2. kq \in Ring(KBD_QUEUE_SIZE, KeyEvents)
    BY <2>1, KeyboardAssumption, RingStarts DEF KeyboardInit
  <2>3. wire \in Seq(Bytes) BY DEF KeyboardInit
  <2>4. down \subseteq keys /\ keys \in KeySets /\ light \in BOOLEAN /\ extended \in BOOLEAN
    BY DEF KeyboardInit
  <2> QED BY <2>2, <2>3, <2>4 DEF KeyTypes
<1>2. Exclusive(down) BY DEF KeyboardInit, Exclusive
<1>3. KeysLead
  <2>1. ~ HoldsShift({}) /\ ~ HoldsCtrl({}) /\ ~ HoldsAlt({}) BY DEF HoldsShift, HoldsCtrl, HoldsAlt
  <2>2. Truth({}, FALSE) = Modifiers(FALSE, FALSE, FALSE, FALSE)
    <3>1. HoldsShift({}) = FALSE /\ HoldsCtrl({}) = FALSE /\ HoldsAlt({}) = FALSE BY <2>1
    <3> QED BY <3>1 DEF Truth
  <2>3. mods = Truth({}, FALSE) BY <2>2 DEF KeyboardInit, no_mods, Modifiers
  <2>4. Driver(mods, extended) = Driver(Truth(down, light), FALSE) BY <2>3 DEF KeyboardInit
  <2>5. wire = <<>> BY DEF KeyboardInit
  <2> QED BY <2>4, <2>5, NoByte DEF KeysLead
<1> QED BY <1>1, <1>2, <1>3 DEF KeyInv

\* The handler takes a byte.
LEMMA HandlerKeepsKeys == ASSUME KeyInv, keyboard_irq_handler PROVE KeyInv'
<1> DEFINE sc == Head(wire)
           code == IF extended THEN extended_to_key(sc.make) ELSE sc_to_key(sc.make)
           m == IF extended THEN modified_extended(mods, code, sc.pressed)
                ELSE modified(mods, sc.make, sc.pressed)
           ev == [code |-> code, value |-> IF sc.pressed THEN 1 ELSE 0, modifiers |-> build_modifiers(m)]
<1>1. /\ wire # <<>> /\ wire' = Tail(wire) /\ keys' = keys /\ down' = down /\ light' = light
      /\ IF sc = SC_EXTENDED THEN extended' = TRUE /\ mods' = mods /\ kq' = kq
         ELSE extended' = FALSE /\ mods' = m /\ kq' = IF code = KEY_NONE THEN kq ELSE push_event(kq, ev)
  BY DEF keyboard_irq_handler, input_report_key, kbd_push_event
<1>2. KeyTypes BY DEF KeyInv
<1>3. sc \in Bytes /\ Tail(wire) \in Seq(Bytes) BY <1>1, <1>2 DEF KeyTypes
<1>4. sc.make \in Makes /\ sc.pressed \in BOOLEAN BY <1>3 DEF Bytes
<1>5. code \in Codes
  <2>1. extended_to_key(sc.make) \in {"RCTRL", "RALT", "UP", KEY_NONE} BY DEF extended_to_key
  <2>2. sc_to_key(sc.make) \in {KEY_NONE, sc.make} BY DEF sc_to_key
  <2> QED BY <1>4, <2>1, <2>2 DEF Codes
<1>6. ev \in KeyEvents
  <2>1. build_modifiers(m) \in SUBSET {"shift", "ctrl", "alt", "caps"} BY DEF build_modifiers
  <2>2. (IF sc.pressed THEN 1 ELSE 0) \in {0, 1} OBVIOUS
  <2> HIDE DEF code, m, sc
  <2> QED BY <1>5, <2>1, <2>2 DEF KeyEvents
<1>7. kq' \in Ring(KBD_QUEUE_SIZE, KeyEvents)
  <2>1. push_event(kq, ev) \in Ring(KBD_QUEUE_SIZE, KeyEvents)
    BY <1>2, <1>6, PushIs, KeyboardAssumption DEF KeyTypes
  <2> HIDE DEF ev, code, m, sc
  <2> QED BY <1>1, <1>2, <2>1 DEF KeyTypes
<1>8. KeyTypes'
  <2>1. extended' \in BOOLEAN BY <1>1
  <2> QED BY <1>1, <1>2, <1>3, <1>7, <2>1 DEF KeyTypes
<1>9. Driver(mods', extended') = after_byte(Driver(mods, extended), sc)
  <2>1. Driver(mods, extended).m = mods /\ Driver(mods, extended).x = extended BY DEF Driver
  <2>2. CASE sc = SC_EXTENDED BY <1>1, <2>1, <2>2 DEF after_byte
  <2>3. CASE sc # SC_EXTENDED
    <3>1. m = IF extended THEN modified_extended(mods, extended_to_key(sc.make), sc.pressed)
              ELSE modified(mods, sc.make, sc.pressed)
      BY <1>2 DEF KeyTypes
    <3> HIDE DEF m, sc
    <3> QED BY <1>1, <2>1, <2>3, <3>1 DEF after_byte
  <2> QED BY <2>2, <2>3
<1>10. KeysLead'
  <2>1. Leads(after_byte(Driver(mods, extended), sc), Tail(wire), Driver(Truth(down, light), FALSE))
    BY <1>1, <1>2, TakesByte DEF KeyInv, KeysLead, KeyTypes
  <2>2. Leads(Driver(mods', extended'), wire', Driver(Truth(down', light'), FALSE))
    BY <1>1, <1>9, <2>1
  <2> QED BY <2>2 DEF KeysLead
<1>11. Exclusive(down)' BY <1>1 DEF KeyInv, Exclusive
<1> QED BY <1>8, <1>10, <1>11 DEF KeyInv

\* A key is pressed, lifted or repeats.
LEMMA KeySent ==
  ASSUME KeyInv, NEW k \in keys, NEW p \in BOOLEAN, sends(k, p),
         down' \subseteq keys, light' \in BOOLEAN, Exclusive(down'),
         settles(Truth(down, light), k, p) = Truth(down', light')
  PROVE  KeyInv'
<1>1. KeyTypes BY DEF KeyInv
<1>2. wire' = wire \o bytes(k, p) /\ keys' = keys /\ mods' = mods /\ extended' = extended /\ kq' = kq
  BY DEF sends
<1>3. k \in Keys /\ k.make # "E0" BY <1>1, KeysAre DEF KeyTypes
<1>4. Leads(Driver(mods, extended), wire, Driver(Truth(down, light), FALSE)) BY DEF KeyInv, KeysLead
<1>5. /\ wire \o bytes(k, p) \in Seq(Bytes)
      /\ Leads(Driver(mods, extended), wire \o bytes(k, p), Driver(settles(Truth(down, light), k, p), FALSE))
  BY <1>1, <1>3, <1>4, SendsKey DEF KeyTypes
<1>6. KeyTypes' BY <1>1, <1>2, <1>5 DEF KeyTypes
<1>7. KeysLead'
  <2>1. Leads(Driver(mods', extended'), wire', Driver(Truth(down', light'), FALSE)) BY <1>2, <1>5
  <2> QED BY <2>1 DEF KeysLead
<1>8. Exclusive(down)' OBVIOUS
<1> QED BY <1>6, <1>7, <1>8 DEF KeyInv

\* No two keys of one modifier are held together, and caps lock does not
\* repeat: what the driver's flags can keep apart.
Apart == KeySituations = {}

\* Every step of keyboard, handler and reader keeps KeyInv.
LEMMA KeyboardSteps ==
  ASSUME Apart, KeyInv, [KeyboardNext]_keyvars
  PROVE  KeyInv'
<1>1. KeyTypes /\ Exclusive(down) BY DEF KeyInv
<1>2. CASE keyboard_irq_handler BY <1>2, HandlerKeepsKeys
<1>3. ASSUME NEW n \in 0 .. KBD_QUEUE_SIZE, kbd_read(n) PROVE KeyInv'
  <2>1. n \in Nat BY KeyboardAssumption
  <2>2. kq' \in Ring(KBD_QUEUE_SIZE, KeyEvents)
    BY <1>1, <1>3, <2>1, ReadLeaves, KeyboardAssumption DEF kbd_read, KeyTypes
  <2>3. keys' = keys /\ down' = down /\ light' = light /\ wire' = wire /\ mods' = mods /\ extended' = extended
    BY <1>3 DEF kbd_read
  <2>4. KeyTypes' BY <1>1, <2>2, <2>3 DEF KeyTypes
  <2>5. KeysLead'
    <3>1. Leads(Driver(mods', extended'), wire', Driver(Truth(down', light'), FALSE))
      BY <2>3 DEF KeyInv, KeysLead
    <3> QED BY <3>1 DEF KeysLead
  <2>6. Exclusive(down)' BY <1>1, <2>3 DEF Exclusive
  <2> QED BY <2>4, <2>5, <2>6 DEF KeyInv
<1>4. ASSUME NEW k \in keys, press(k) \/ lift(k) \/ repeat(k) PROVE KeyInv'
  <2>1. keys \in KeySets /\ down \subseteq keys /\ light \in BOOLEAN BY <1>1 DEF KeyTypes
  <2>2. \A x \in keys : x \in Keys /\ x.make # "E0" /\ (x.ext => x.make # "CAPS") BY <2>1, KeysAre
  <2>3. down \in SUBSET Keys /\ k \in Keys /\ (k.ext => k.make # "CAPS") BY <2>1, <2>2
  <2>4. CASE press(k)
    <3>1. /\ k \notin down /\ sends(k, TRUE) /\ down' = down \cup {k}
          /\ light' = IF k.make = "CAPS" THEN ~light ELSE light
          /\ \A x \in down : ~ same_modifier(k, x)
      BY <2>4 DEF press, Apart
    <3>2. settles(Truth(down, light), k, TRUE) = Truth(down', light') BY <2>1, <2>3, <3>1, Pressed
    <3>3. down' \subseteq keys BY <2>1, <3>1
    <3>4. light' \in BOOLEAN BY <2>1, <3>1
    <3>5. Exclusive(down')
      <4>1. \A x \in down : ~ same_modifier(x, k)
        <5>1. ASSUME NEW x \in down, same_modifier(x, k) PROVE FALSE
          <6>1. {x.make, k.make} = {k.make, x.make} OBVIOUS
          <6>2. same_modifier(k, x) BY <5>1, <6>1 DEF same_modifier
          <6> QED BY <3>1, <6>2
        <5> QED BY <5>1
      <4> QED BY <1>1, <3>1, <4>1 DEF Exclusive
    <3>6. TRUE \in BOOLEAN OBVIOUS
    <3> QED BY <3>1, <3>2, <3>3, <3>4, <3>5, <3>6, KeySent
  <2>5. CASE lift(k)
    <3>1. k \in down /\ sends(k, FALSE) /\ down' = down \ {k} /\ light' = light BY <2>5 DEF lift
    <3>2. settles(Truth(down, light), k, FALSE) = Truth(down', light')
      BY <1>1, <2>1, <2>3, <3>1, Lifted
    <3>3. down' \subseteq keys BY <2>1, <3>1
    <3>4. light' \in BOOLEAN BY <2>1, <3>1
    <3>5. Exclusive(down') BY <1>1, <3>1 DEF Exclusive
    <3>6. FALSE \in BOOLEAN OBVIOUS
    <3> QED BY <3>1, <3>2, <3>3, <3>4, <3>5, <3>6, KeySent
  <2>6. CASE repeat(k)
    <3>1. k \in down /\ sends(k, TRUE) /\ down' = down /\ light' = light /\ k.make # "CAPS"
      BY <2>6 DEF repeat, Apart
    <3>2. settles(Truth(down, light), k, TRUE) = Truth(down', light')
      BY <1>1, <2>1, <2>3, <3>1, Repeated
    <3>3. down' \subseteq keys BY <2>1, <3>1
    <3>4. light' \in BOOLEAN BY <2>1, <3>1
    <3>5. Exclusive(down') BY <1>1, <3>1
    <3>6. TRUE \in BOOLEAN OBVIOUS
    <3> QED BY <3>1, <3>2, <3>3, <3>4, <3>5, <3>6, KeySent
  <2> QED BY <1>4, <2>4, <2>5, <2>6
<1>5. CASE UNCHANGED keyvars
  <2>1. keys' = keys /\ down' = down /\ light' = light /\ wire' = wire /\ mods' = mods
        /\ extended' = extended /\ kq' = kq
    BY <1>5 DEF keyvars
  <2>2. KeyTypes' BY <1>1, <2>1 DEF KeyTypes
  <2>3. KeysLead'
    <3>1. Leads(Driver(mods', extended'), wire', Driver(Truth(down', light'), FALSE))
      BY <2>1 DEF KeyInv, KeysLead
    <3> QED BY <3>1 DEF KeysLead
  <2>4. Exclusive(down)' BY <1>1, <2>1 DEF Exclusive
  <2> QED BY <2>2, <2>3, <2>4 DEF KeyInv
<1> QED BY <1>2, <1>3, <1>4, <1>5 DEF KeyboardNext

\* KeyInv gives what a reader of the keyboard is promised.
LEMMA KeysKept == KeyInv => KbdIsQueue /\ ModifiersTrue
<1> SUFFICES ASSUME KeyInv PROVE KbdIsQueue /\ ModifiersTrue OBVIOUS
<1>1. KeyTypes BY DEF KeyInv
<1>2. KbdIsQueue
  <2> DEFINE a == [NoEvent EXCEPT !.code = "A"]
  <2>1. NoEvent \in KeyEvents /\ a \in KeyEvents
    <3>1. NoEvent \in KeyEvents BY DEF NoEvent, KeyEvents, Codes
    <3>2. "A" \in Codes BY DEF Codes
    <3> QED BY <3>1, <3>2 DEF KeyEvents
  <2> HIDE DEF a
  <2>2. {NoEvent, a} \subseteq KeyEvents BY <2>1
  <2>3. /\ \A ev \in KeyEvents : Waiting(push_event(kq, ev)) =
                IF Len(Waiting(kq)) < ring_size(kq) - 1 THEN Append(Waiting(kq), ev) ELSE Waiting(kq)
        /\ \A n \in 0 .. KBD_QUEUE_SIZE : Waiting(read_events(kq, n)) =
                SubSeq(Waiting(kq), (IF n < Len(Waiting(kq)) THEN n ELSE Len(Waiting(kq))) + 1, Len(Waiting(kq)))
    BY <1>1, RingIsQueue, KeyboardAssumption DEF KeyTypes
  <2> QED BY <2>2, <2>3 DEF KbdIsQueue, ActsAsQueue, kbd_push_event, a
<1>3. ASSUME wire = <<>>
      PROVE  /\ ~extended
             /\ mods = [shift |-> \E k \in down : k.make \in Shifts /\ ~k.ext,
                        ctrl  |-> \E k \in down : k.make = "LCTRL",
                        alt   |-> \E k \in down : k.make = "LALT",
                        caps  |-> light]
  <2>1. Driver(mods, extended) = Driver(Truth(down, light), FALSE)
    BY <1>3, NoByte DEF KeyInv, KeysLead
  <2>2. mods = Truth(down, light) /\ extended = FALSE BY <2>1 DEF Driver
  <2> QED BY <2>2 DEF Truth, Modifiers, HoldsShift, HoldsCtrl, HoldsAlt
<1> QED BY <1>2, <1>3 DEF ModifiersTrue
-----------------------------------------------------------------------------
(* The mouse: its queue, whatever bytes come and are lost.                 *)

MoveEvents == [code : {"none", "X", "Y", "LEFT", "RIGHT", "MIDDLE"}, value : Int]
MouseBytes ==
    /\ sending \in Seq(0 .. 255) /\ packet \in [1 .. 3 -> 0 .. 255] /\ packet_index \in 0 .. 2
    /\ buttons \in 0 .. 7 /\ mq \in Ring(MOUSE_QUEUE_SIZE, MoveEvents)

\* MouseBytes holds at first.
LEMMA MouseBytesStart == MouseInit => MouseBytes
<1> SUFFICES ASSUME MouseInit PROVE MouseBytes OBVIOUS
<1>1. NoMove \in MoveEvents BY DEF NoMove, MoveEvents
<1>2. mq \in Ring(MOUSE_QUEUE_SIZE, MoveEvents) BY <1>1, MouseAssumption, RingStarts DEF MouseInit
<1>3. <<0, 0, 0>> \in [1 .. 3 -> 0 .. 255] OBVIOUS
<1>4. sending \in Seq(0 .. 255) BY DEF MouseInit
<1> QED BY <1>2, <1>3, <1>4 DEF MouseInit, MouseBytes

\* One event is reported, or none.
LEMMA MovePushed ==
  ASSUME NEW q \in Ring(MOUSE_QUEUE_SIZE, MoveEvents),
         NEW c \in {"none", "X", "Y", "LEFT", "RIGHT", "MIDDLE"}
  PROVE  /\ \A v \in Int : input_report_rel(q, c, v) \in Ring(MOUSE_QUEUE_SIZE, MoveEvents)
         /\ \A o, n \in 0 .. 7, b \in {1, 2, 4} :
               report_button(q, o, n, b, c) \in Ring(MOUSE_QUEUE_SIZE, MoveEvents)
<1>1. ASSUME NEW v \in Int PROVE push_event(q, [code |-> c, value |-> v]) \in Ring(MOUSE_QUEUE_SIZE, MoveEvents)
  <2>1. [code |-> c, value |-> v] \in MoveEvents BY DEF MoveEvents
  <2> QED BY <2>1, PushIs, MouseAssumption
<1>2. \A n \in 0 .. 7, b \in {1, 2, 4} : bit(n, b) \in Int BY DEF bit
<1>3. \A v \in Int : input_report_rel(q, c, v) \in Ring(MOUSE_QUEUE_SIZE, MoveEvents)
  BY <1>1 DEF input_report_rel, mouse_push_event
<1>4. \A o, n \in 0 .. 7, b \in {1, 2, 4} :
               report_button(q, o, n, b, c) \in Ring(MOUSE_QUEUE_SIZE, MoveEvents)
  BY <1>1, <1>2 DEF report_button, mouse_push_event
<1> QED BY <1>3, <1>4

\* A whole packet is reported.
LEMMA PacketReported ==
  ASSUME MouseBytes, NEW p \in [1 .. 3 -> 0 .. 255]
  PROVE  reported(p) \in Ring(MOUSE_QUEUE_SIZE, MoveEvents) /\ p[1] % 8 \in 0 .. 7
<1> DEFINE R == Ring(MOUSE_QUEUE_SIZE, MoveEvents)
           n == p[1] % 8
           x == input_report_rel(mq, "X", i8(p[2]))
           y == input_report_rel(x, "Y", -i8(p[3]))
           l == report_button(y, buttons, n, 1, "LEFT")
           r == report_button(l, buttons, n, 2, "RIGHT")
<1>1. p[1] \in 0 .. 255 /\ p[2] \in 0 .. 255 /\ p[3] \in 0 .. 255 OBVIOUS
<1>2. n \in 0 .. 7 BY <1>1
<1>3. i8(p[2]) \in Int /\ -i8(p[3]) \in Int BY <1>1 DEF i8
<1>4. mq \in R /\ buttons \in 0 .. 7 BY DEF MouseBytes
<1> HIDE DEF n
<1>5. x \in R BY <1>3, <1>4, MovePushed
<1> HIDE DEF x
<1>6. y \in R BY <1>3, <1>5, MovePushed
<1> HIDE DEF y
<1>7. l \in R BY <1>2, <1>4, <1>6, MovePushed
<1> HIDE DEF l
<1>8. r \in R BY <1>2, <1>4, <1>7, MovePushed
<1> HIDE DEF r
<1>9. report_button(r, buttons, n, 4, "MIDDLE") \in R BY <1>2, <1>4, <1>8, MovePushed
<1> QED BY <1>2, <1>9 DEF reported, r, l, y, x, n

\* Every step of mouse, handler and reader keeps MouseBytes.
LEMMA MouseBytesStep == MouseBytes /\ [MouseNext]_mousevars => MouseBytes'
<1> SUFFICES ASSUME MouseBytes, [MouseNext]_mousevars PROVE MouseBytes' OBVIOUS
<1> USE DEF MouseBytes
<1>1. CASE mouse_irq_handler
  <2> DEFINE byte == Head(sending)
             p == [packet EXCEPT ![packet_index + 1] = byte]
  <2>1. sending # <<>> /\ sending' = Tail(sending) BY <1>1 DEF mouse_irq_handler
  <2>2. byte \in 0 .. 255 /\ sending' \in Seq(0 .. 255)
    <3>1. sending \in Seq(0 .. 255) OBVIOUS
    <3>2. Head(sending) \in 0 .. 255 /\ Tail(sending) \in Seq(0 .. 255) BY <2>1, <3>1, HeadTailProperties
    <3> QED BY <2>1, <3>2
  <2>3. packet_index + 1 \in 1 .. 3 OBVIOUS
  <2>4. p \in [1 .. 3 -> 0 .. 255] BY <2>2, <2>3
  <2>5. \/ packet' = packet /\ packet_index' = packet_index /\ buttons' = buttons /\ mq' = mq
        \/ /\ packet' = p /\ packet_index' = IF packet_index = 2 THEN 0 ELSE packet_index + 1
           /\ \/ mq' = reported(p) /\ buttons' = p[1] % 8
              \/ mq' = mq /\ buttons' = buttons
    BY <1>1 DEF mouse_irq_handler
  <2> HIDE DEF p
  <2>6. reported(p) \in Ring(MOUSE_QUEUE_SIZE, MoveEvents) /\ p[1] % 8 \in 0 .. 7 BY <2>4, PacketReported
  <2>7. packet_index' \in 0 .. 2 BY <2>5
  <2> QED BY <2>2, <2>4, <2>5, <2>6, <2>7
<1>2. ASSUME NEW n \in 0 .. MOUSE_QUEUE_SIZE, mouse_read(n) PROVE MouseBytes'
  <2>1. n \in Nat BY MouseAssumption
  <2>2. mq' \in Ring(MOUSE_QUEUE_SIZE, MoveEvents)
    BY <1>2, <2>1, ReadLeaves, MouseAssumption DEF mouse_read
  <2> QED BY <1>2, <2>2 DEF mouse_read
<1>3. ASSUME NEW f \in FirstBytes, NEW dx \in Deltas, NEW dy \in Deltas, moves(f, dx, dy) PROVE MouseBytes'
  <2>1. f \in 0 .. 255 /\ dx \in 0 .. 255 /\ dy \in 0 .. 255 BY MouseAssumption
  <2>2. sending' = <<f, dx, dy>> BY <1>3 DEF moves
  <2>3. sending' \in Seq(0 .. 255) BY <2>1, <2>2
  <2> QED BY <1>3, <2>3 DEF moves
<1>4. CASE lost
  <2>1. sending # <<>> /\ sending' = Tail(sending) BY <1>4 DEF lost
  <2>2. sending' \in Seq(0 .. 255) BY <2>1
  <2> QED BY <1>4, <2>2 DEF lost
<1>5. CASE UNCHANGED mousevars BY <1>5 DEF mousevars
<1> QED BY <1>1, <1>2, <1>3, <1>4, <1>5 DEF MouseNext

\* MouseBytes gives what a reader of the mouse is promised.
LEMMA MouseKept == MouseBytes => MouseIsQueue
<1> SUFFICES ASSUME MouseBytes PROVE MouseIsQueue OBVIOUS
<1> DEFINE a == [NoMove EXCEPT !.code = "X"]
<1>1. NoMove \in MoveEvents /\ a \in MoveEvents BY DEF NoMove, MoveEvents
<1> HIDE DEF a
<1>2. {NoMove, a} \subseteq MoveEvents BY <1>1
<1>3. /\ \A ev \in MoveEvents : Waiting(push_event(mq, ev)) =
                IF Len(Waiting(mq)) < ring_size(mq) - 1 THEN Append(Waiting(mq), ev) ELSE Waiting(mq)
      /\ \A n \in 0 .. MOUSE_QUEUE_SIZE : Waiting(read_events(mq, n)) =
                SubSeq(Waiting(mq), (IF n < Len(Waiting(mq)) THEN n ELSE Len(Waiting(mq))) + 1, Len(Waiting(mq)))
  BY RingIsQueue, MouseAssumption DEF MouseBytes
<1> QED BY <1>2, <1>3 DEF MouseIsQueue, ActsAsQueue, mouse_push_event, a

\* The queues of kbd.c and mouse.c are queues at every size of their arrays,
\* wherever head and tail have got to and whatever bytes come, and once its
\* bytes are through the keyboard's modifiers are the keys that are held:
\* for any set of keys and any wire, as long as no two keys of one modifier
\* are held together and caps lock does not repeat.
THEOREM InputIsKept == ASSUME Apart PROVE KeyboardSpec /\ MouseSpec => []InputKept
<1>1. KeyboardInit => KeyInv BY KeyboardStarts
<1>2. KeyInv /\ [KeyboardNext]_keyvars => KeyInv' BY KeyboardSteps
<1>3. KeyInv => KbdIsQueue /\ ModifiersTrue BY KeysKept
<1>4. MouseInit => MouseBytes BY MouseBytesStart
<1>5. MouseBytes /\ [MouseNext]_mousevars => MouseBytes' BY MouseBytesStep
<1>6. MouseBytes => MouseIsQueue BY MouseKept
<1>7. KbdIsQueue /\ ModifiersTrue /\ MouseIsQueue <=> InputKept BY DEF InputKept
<1> QED BY <1>1, <1>2, <1>3, <1>4, <1>5, <1>6, <1>7, PTL DEF KeyboardSpec, MouseSpec

-----------------------------------------------------------------------------
(* Mouse: how long a lost byte keeps the handler out of step.              *)

Packets == [1 .. 3 -> 0 .. 255]

\* Where the handler stands (k) against what the mouse has still to send:
\* anywhere while it is out of step; in a packet that brings it back, only
\* where that packet can have put it.
AtStart(k) ==
    /\ sending = <<last[1], last[2], last[3]>>
    /\ since = "step" => k = 0
AfterFirst(k) ==
    /\ sending = <<last[2], last[3]>>
    /\ since = "step" => k = 1 /\ packet[1] = last[1]
AfterSecond(k) ==
    /\ sending = <<last[3]>>
    /\ since = "step" => k = 2 /\ packet[1] = last[1] /\ packet[2] = last[2]
    /\ since = "back" => k \in {0, 2}
Through(k) ==
    /\ sending = <<>>
    /\ since = "step" => k = 0 /\ packet = last /\ (~overflowed(last) => buttons = last[1] % 8)
    /\ since = "back" => k = 0

MouseTypes ==
    /\ last \in Packets /\ packet \in Packets /\ since \in {"out", "back", "step"}
    /\ packet_index \in 0 .. 2
    /\ sending # <<>> => last[1] \in FirstBytes
    /\ since = "back" => unmistakable(last[2], last[3])

MouseInv ==
    /\ MouseTypes
    /\ \/ AtStart(packet_index) \/ AfterFirst(packet_index)
       \/ AfterSecond(packet_index) \/ Through(packet_index)

\* A packet is its three bytes.
LEMMA PacketIs ==
  /\ \A a, b, c \in 0 .. 255 : /\ <<a, b, c>> \in Packets
                               /\ <<a, b, c>>[1] = a /\ <<a, b, c>>[2] = b /\ <<a, b, c>>[3] = c
  /\ \A p, q \in Packets : p[1] = q[1] /\ p[2] = q[2] /\ p[3] = q[3] => p = q
<1>1. ASSUME NEW a \in 0 .. 255, NEW b \in 0 .. 255, NEW c \in 0 .. 255
      PROVE  /\ <<a, b, c>> \in Packets
             /\ <<a, b, c>>[1] = a /\ <<a, b, c>>[2] = b /\ <<a, b, c>>[3] = c
  BY DEF Packets
<1>2. ASSUME NEW p \in Packets, NEW q \in Packets, p[1] = q[1], p[2] = q[2], p[3] = q[3]
      PROVE  p = q
  <2>1. \A i \in 1 .. 3 : i = 1 \/ i = 2 \/ i = 3 OBVIOUS
  <2>2. \A i \in 1 .. 3 : p[i] = q[i] BY <1>2, <2>1
  <2> QED BY <2>2 DEF Packets
<1> QED BY <1>1, <1>2

\* The bytes leave in order.
LEMMA BytesLeave ==
  ASSUME NEW a, NEW b, NEW c
  PROVE  /\ <<a, b, c>> # <<>> /\ Head(<<a, b, c>>) = a /\ Tail(<<a, b, c>>) = <<b, c>>
         /\ <<b, c>> # <<>> /\ Head(<<b, c>>) = b /\ Tail(<<b, c>>) = <<c>>
         /\ <<c>> # <<>> /\ Head(<<c>>) = c /\ Tail(<<c>>) = <<>>
OBVIOUS

\* mouse_irq_handler, by whether the byte is taken.
LEMMA HandlerIs ==
  ASSUME MouseInv, mouse_irq_handler
  PROVE  /\ sending # <<>> /\ sending' = Tail(sending) /\ last' = last /\ since' = since
         /\ IF packet_index = 0 /\ bit(Head(sending), 8) = 0
            THEN packet' = packet /\ packet_index' = packet_index /\ buttons' = buttons
            ELSE /\ packet' = [packet EXCEPT ![packet_index + 1] = Head(sending)]
                 /\ packet_index' = IF packet_index = 2 THEN 0 ELSE packet_index + 1
                 /\ packet_index = 2 /\ ~ overflowed(packet') => buttons' = packet'[1] % 8
BY DEF mouse_irq_handler, skips

\* A byte arrives.
LEMMA HandlerKeeps ==
  ASSUME MouseInv, mouse_irq_handler
  PROVE  MouseInv'
<1>1. /\ sending # <<>> /\ sending' = Tail(sending) /\ last' = last /\ since' = since
      /\ IF packet_index = 0 /\ bit(Head(sending), 8) = 0
         THEN packet' = packet /\ packet_index' = packet_index /\ buttons' = buttons
         ELSE /\ packet' = [packet EXCEPT ![packet_index + 1] = Head(sending)]
              /\ packet_index' = IF packet_index = 2 THEN 0 ELSE packet_index + 1
              /\ packet_index = 2 /\ ~ overflowed(packet') => buttons' = packet'[1] % 8
  BY HandlerIs
<1>2. /\ last \in Packets /\ packet \in Packets /\ since \in {"out", "back", "step"}
      /\ packet_index \in 0 .. 2 /\ last[1] \in FirstBytes
      /\ since = "back" => bit(last[2], 8) = 0 /\ bit(last[3], 8) = 0
  BY <1>1 DEF MouseInv, MouseTypes, unmistakable
<1>3. bit(last[1], 8) # 0
  <2>1. \A b \in FirstBytes : bit(b, 8) = 1 BY MouseAssumption
  <2> QED BY <1>2, <2>1
<1>4. last[1] \in 0 .. 255 /\ last[2] \in 0 .. 255 /\ last[3] \in 0 .. 255 BY <1>2 DEF Packets
\* What a byte does to the packet, wherever it is put.
<1>5. ASSUME NEW b \in 0 .. 255, Head(sending) = b
      PROVE  /\ packet' \in Packets /\ packet_index' \in 0 .. 2
             /\ ~ (packet_index = 0 /\ bit(b, 8) = 0) => packet'[packet_index + 1] = b
  <2>1. CASE packet_index = 0 /\ bit(b, 8) = 0 BY <1>1, <1>2, <1>5, <2>1
  <2>2. CASE ~ (packet_index = 0 /\ bit(b, 8) = 0)
    <3>1. packet' = [packet EXCEPT ![packet_index + 1] = b] BY <1>1, <1>5, <2>2
    <3>2. packet_index' \in 0 .. 2 BY <1>1, <1>2, <1>5, <2>2
    <3>3. packet_index + 1 \in 1 .. 3 BY <1>2
    <3>4. packet' \in Packets /\ packet'[packet_index + 1] = b BY <1>2, <3>1, <3>3 DEF Packets
    <3> QED BY <3>2, <3>4
  <2> QED BY <2>1, <2>2
<1>t. ASSUME packet' \in Packets, packet_index' \in 0 .. 2 PROVE MouseTypes'
  BY <1>1, <1>2, <1>t DEF MouseTypes, unmistakable
<1>6. CASE AtStart(packet_index)
  <2>1. Head(sending) = last[1] /\ sending' = <<last[2], last[3]>>
    BY <1>1, <1>6, BytesLeave DEF AtStart
  <2>2. /\ packet' \in Packets /\ packet_index' \in 0 .. 2
        /\ packet_index' = IF packet_index = 2 THEN 0 ELSE packet_index + 1
        /\ packet'[packet_index + 1] = last[1]
    BY <1>1, <1>3, <1>4, <1>5, <2>1
  <2>3. AfterFirst(packet_index)'
    BY <1>1, <1>2, <1>6, <2>1, <2>2 DEF AtStart, AfterFirst
  <2> QED BY <2>2, <2>3, <1>t DEF MouseInv
<1>7. CASE AfterFirst(packet_index)
  <2>1. Head(sending) = last[2] /\ sending' = <<last[3]>>
    BY <1>1, <1>7, BytesLeave DEF AfterFirst
  <2>2. packet' \in Packets /\ packet_index' \in 0 .. 2 BY <1>4, <1>5, <2>1
  <2>3. packet_index = 1 => packet_index' = 2 /\ packet'[2] = last[2] /\ packet'[1] = packet[1]
    BY <1>1, <1>2, <1>4, <2>1 DEF Packets
  <2>4. since = "back" => packet_index' \in {0, 2} BY <1>1, <1>2, <2>1
  <2>5. AfterSecond(packet_index)'
    BY <1>1, <1>7, <2>1, <2>3, <2>4 DEF AfterFirst, AfterSecond
  <2> QED BY <2>2, <2>5, <1>t DEF MouseInv
<1>8. CASE AfterSecond(packet_index)
  <2>1. Head(sending) = last[3] /\ sending' = <<>>
    BY <1>1, <1>8, BytesLeave DEF AfterSecond
  <2>2. packet' \in Packets /\ packet_index' \in 0 .. 2 BY <1>4, <1>5, <2>1
  <2>3. since = "back" => packet_index' = 0
    BY <1>1, <1>2, <1>8, <2>1 DEF AfterSecond
  <2>4. packet_index = 2 =>
        /\ packet_index' = 0 /\ packet'[3] = last[3] /\ packet'[1] = packet[1] /\ packet'[2] = packet[2]
        /\ ~ overflowed(packet') => buttons' = packet'[1] % 8
    BY <1>1, <1>2, <1>4, <2>1 DEF Packets
  <2>5. ASSUME since = "step"
        PROVE  packet_index' = 0 /\ packet' = last /\ (~ overflowed(last) => buttons' = last[1] % 8)
    <3>1. packet_index = 2 /\ packet[1] = last[1] /\ packet[2] = last[2]
      BY <1>8, <2>5 DEF AfterSecond
    <3>2. packet' = last
      <4>1. packet'[1] = last[1] /\ packet'[2] = last[2] /\ packet'[3] = last[3] BY <2>4, <3>1
      <4>2. packet' \in Packets /\ last \in Packets BY <1>2, <2>2
      <4> QED BY <4>1, <4>2, PacketIs
    <3> QED BY <2>4, <3>1, <3>2
  <2>6. Through(packet_index)'
    <3>1. overflowed(last)' = overflowed(last) BY <1>1 DEF overflowed
    <3> QED BY <1>1, <2>1, <2>3, <2>5, <3>1 DEF Through
  <2> QED BY <2>2, <2>6, <1>t DEF MouseInv
<1>9. ~ Through(packet_index) BY <1>1 DEF Through
<1> QED BY <1>6, <1>7, <1>8, <1>9 DEF MouseInv

\* The mouse begins a packet.
LEMMA MovesKeeps ==
  ASSUME MouseInv, NEW CONSTANT f \in FirstBytes, NEW CONSTANT dx \in Deltas, NEW CONSTANT dy \in Deltas,
         moves(f, dx, dy)
  PROVE  MouseInv'
<1>1. /\ sending = <<>> /\ sending' = <<f, dx, dy>> /\ last' = <<f, dx, dy>>
      /\ packet' = packet /\ packet_index' = packet_index
  BY DEF moves
<1>2. f \in 0 .. 255 /\ dx \in 0 .. 255 /\ dy \in 0 .. 255 BY MouseAssumption
<1>3. last' \in Packets /\ last'[1] = f /\ last'[2] = dx /\ last'[3] = dy BY <1>1, <1>2, PacketIs
<1>4. packet \in Packets /\ since \in {"out", "back", "step"} /\ packet_index \in 0 .. 2
  BY DEF MouseInv, MouseTypes
<1>5. /\ since' \in {"out", "back", "step"}
      /\ since' = "back" => unmistakable(dx, dy)
      /\ since' = "step" => since \in {"back", "step"}
  BY <1>4 DEF moves
<1>6. Through(packet_index)
  BY <1>1, BytesLeave DEF MouseInv, AtStart, AfterFirst, AfterSecond
<1>7. AtStart(packet_index)'
  <2>1. sending' = <<last'[1], last'[2], last'[3]>> BY <1>1, <1>3
  <2> QED BY <1>1, <1>5, <1>6, <2>1 DEF Through, AtStart
<1>8. MouseTypes' BY <1>1, <1>3, <1>4, <1>5 DEF MouseTypes, unmistakable
<1> QED BY <1>7, <1>8 DEF MouseInv

\* A byte is lost.
LEMMA LossKeeps == ASSUME MouseInv, lost PROVE MouseInv'
<1>1. /\ sending # <<>> /\ sending' = Tail(sending) /\ since' = "out" /\ last' = last
      /\ packet' = packet /\ packet_index' = packet_index
  BY DEF lost
<1>2. MouseTypes BY DEF MouseInv
<1>3. MouseTypes' BY <1>1, <1>2 DEF MouseTypes
<1>4. CASE AtStart(packet_index)
  <2>1. sending' = <<last[2], last[3]>> BY <1>4, <1>1, BytesLeave DEF AtStart
  <2>2. AfterFirst(packet_index)' BY <1>1, <2>1 DEF AfterFirst
  <2> QED BY <1>3, <2>2 DEF MouseInv
<1>5. CASE AfterFirst(packet_index)
  <2>1. sending' = <<last[3]>> BY <1>5, <1>1, BytesLeave DEF AfterFirst
  <2>2. AfterSecond(packet_index)' BY <1>1, <2>1 DEF AfterSecond
  <2> QED BY <1>3, <2>2 DEF MouseInv
<1>6. CASE AfterSecond(packet_index)
  <2>1. sending' = <<>> BY <1>6, <1>1, BytesLeave DEF AfterSecond
  <2>2. Through(packet_index)' BY <1>1, <2>1 DEF Through
  <2> QED BY <1>3, <2>2 DEF MouseInv
<1>7. ~ Through(packet_index) BY <1>1 DEF Through
<1> QED BY <1>4, <1>5, <1>6, <1>7 DEF MouseInv

\* read does not touch the decoder.
LEMMA ReadKeeps ==
  ASSUME MouseInv, sending' = sending, last' = last, since' = since, packet' = packet,
         packet_index' = packet_index, buttons' = buttons
  PROVE  MouseInv'
BY DEF MouseInv, MouseTypes, AtStart, AfterFirst, AfterSecond, Through, overflowed

\* Wherever lost bytes have left mouse_irq_handler, one whole packet whose
\* movements have bit 3 clear puts it back to the start of a packet; from the
\* next packet on it has what the mouse sent, and the buttons of that packet,
\* whatever the movements are, until another byte is lost.
THEOREM MouseResyncs == MouseSpec => []Resyncs
<1>1. MouseInit => MouseInv
  <2> SUFFICES ASSUME MouseInit PROVE MouseInv OBVIOUS
  <2>1. /\ sending = <<>> /\ last = <<0, 0, 0>> /\ since = "step" /\ packet = <<0, 0, 0>>
        /\ packet_index = 0 /\ buttons = 0
    BY DEF MouseInit
  <2>2. 0 \in 0 .. 255 OBVIOUS
  <2>3. <<0, 0, 0>> \in Packets /\ <<0, 0, 0>>[1] = 0 BY <2>2, PacketIs
  <2>4. MouseTypes BY <2>1, <2>3 DEF MouseTypes
  <2>5. Through(packet_index) BY <2>1, <2>3 DEF Through
  <2> QED BY <2>4, <2>5 DEF MouseInv
<1>2. MouseInv /\ [MouseNext]_mousevars => MouseInv'
  <2> SUFFICES ASSUME MouseInv, [MouseNext]_mousevars PROVE MouseInv' OBVIOUS
  <2>1. CASE mouse_irq_handler BY <2>1, HandlerKeeps
  <2>2. ASSUME NEW n \in 0 .. MOUSE_QUEUE_SIZE, mouse_read(n) PROVE MouseInv'
    BY <2>2, ReadKeeps DEF mouse_read
  <2>3. ASSUME NEW f \in FirstBytes, NEW dx \in Deltas, NEW dy \in Deltas, moves(f, dx, dy)
        PROVE  MouseInv'
    BY <2>3, MovesKeeps
  <2>4. CASE lost BY <2>4, LossKeeps
  <2>5. CASE UNCHANGED mousevars BY <2>5, ReadKeeps DEF mousevars
  <2> QED BY <2>1, <2>2, <2>3, <2>4, <2>5 DEF MouseNext
<1>3. MouseInv => Resyncs
  BY BytesLeave DEF MouseInv, AtStart, AfterFirst, AfterSecond, Through, Resyncs
<1> QED BY <1>1, <1>2, <1>3, PTL DEF MouseSpec

-----------------------------------------------------------------------------
(* Ps2Init: ps2_mouse_init confuses no answers and leaves both ports at    *)
(* work, however often it tries, whatever the mouse answers and whenever   *)
(* interrupts come.                                                        *)

Config == [irq1 : BOOLEAN, irq12 : BOOLEAN, kbd : BOOLEAN, aux : BOOLEAN]

Ps2TypeOK ==
    /\ cfg \in Config /\ config \in Config
    /\ streaming \in BOOLEAN /\ hooked \in BOOLEAN

\* Between turning the clocks off and reading the configuration nothing but
\* the controller can put a byte into the buffer.
ConfigAwaited ==
    /\ stage \in {"drain", "ask", "config"} => ~cfg.kbd /\ ~cfg.aux
    /\ stage = "ask" => obuf = <<>>
    /\ stage = "config" => obuf = <<>> \/ obuf[1].from = "ctl"

\* What has been reached on the way to success.
Progress ==
    /\ stage \in {"register", "loud", "enable_kbd", "0"} => streaming
    /\ stage \in {"loud", "enable_kbd", "0"} => hooked
    /\ stage = "loud" => config = AllOn
    /\ stage \in {"enable_kbd", "0"} => cfg = AllOn

\* The answer to F4 is awaited, or F4 sent again, with the answer to F6 taken.
F4Awaited == stage \in {"F4", "F4 reply", "register"} => took = "aux"

Ps2Inv ==
    /\ Ps2TypeOK /\ ConfigAwaited /\ Progress /\ F4Awaited
    /\ stage = "quiet" => took = "ctl"

\* The invariant holds when ps2_mouse_init is called.
LEMMA Ps2InvInit == Ps2Start => Ps2Inv
<1> SUFFICES ASSUME Ps2Start PROVE Ps2Inv OBVIOUS
<1>1. AllOn \in Config BY DEF AllOn, Config
<1>2. cfg \in Config BY DEF Ps2Start, Config
<1>3. config = AllOn /\ streaming = FALSE /\ hooked = FALSE /\ stage = "disable" BY DEF Ps2Start
<1>4. Ps2TypeOK BY <1>1, <1>2, <1>3 DEF Ps2TypeOK
<1> QED BY <1>3, <1>4 DEF Ps2Inv, ConfigAwaited, Progress, F4Awaited

\* Every step of ps2_mouse_init keeps the invariant.
LEMMA Ps2InitStep == Ps2Inv /\ ps2_mouse_init => Ps2Inv'
<1> SUFFICES ASSUME Ps2Inv, ps2_mouse_init PROVE Ps2Inv' OBVIOUS
<1> USE DEF Ps2Inv, goes
<1>1. CASE disable
  BY <1>1 DEF disable, Ps2TypeOK, Config, ConfigAwaited, Progress, F4Awaited
<1>2. CASE drain_output
  BY <1>2 DEF drain_output, Ps2TypeOK, Config, ConfigAwaited, Progress, F4Awaited
<1>3. CASE ask_config
  <2>1. UNCHANGED <<cfg, config, streaming, hooked, took>> /\ stage = "ask" BY <1>3 DEF ask_config
  <2>2. stage' \in {"config", "-2"} BY <1>3 DEF ask_config
  <2>3. stage' = "config" => obuf' = <<[from |-> "ctl", data |-> "cfg"]>>
    BY <1>3, <2>1 DEF ask_config, ConfigAwaited
  <2>4. obuf' = <<[from |-> "ctl", data |-> "cfg"]>> => obuf'[1].from = "ctl" OBVIOUS
  <2>5. ConfigAwaited' BY <2>1, <2>2, <2>3, <2>4 DEF ConfigAwaited
  <2> QED BY <2>1, <2>2, <2>5 DEF Ps2TypeOK, Progress, F4Awaited
<1>4. CASE read_controller_byte
  BY <1>4 DEF read_controller_byte, Ps2TypeOK, Config, ConfigAwaited, Progress, F4Awaited
<1>5. CASE write_quiet
  BY <1>5 DEF write_quiet, Ps2TypeOK, Config, ConfigAwaited, Progress, F4Awaited
<1>6. CASE enable_aux
  BY <1>6 DEF enable_aux, Ps2TypeOK, Config, ConfigAwaited, Progress, F4Awaited
<1>7. ASSUME NEW c \in Commands, write_mouse(c) PROVE Ps2Inv'
  <2>1. UNCHANGED <<cfg, config, streaming, hooked, took>> /\ stage = c BY <1>7 DEF write_mouse
  <2>2. stage' \in {reply_to[c], err(c)} BY <1>7 DEF write_mouse
  <2>3. CASE c = "F6"
    <3>1. stage' \in {"F6 reply", "no F6"} BY <2>2, <2>3 DEF reply_to, err
    <3> QED BY <2>1, <3>1 DEF Ps2TypeOK, ConfigAwaited, Progress, F4Awaited
  <2>4. CASE c = "F4"
    <3>1. stage' \in {"F4 reply", "no F4"} BY <2>2, <2>4 DEF reply_to, err
    <3> QED BY <2>1, <2>4, <3>1 DEF Ps2TypeOK, ConfigAwaited, Progress, F4Awaited
  <2> QED BY <2>3, <2>4 DEF Commands
<1>8. ASSUME NEW c \in Commands, read_mouse_reply(c) PROVE Ps2Inv'
  <2>1. UNCHANGED <<cfg, config, hooked>> /\ stage = reply_to[c] BY <1>8 DEF read_mouse_reply
  <2>2. \/ UNCHANGED <<stage, streaming, took>>
        \/ stage' = err(c) /\ UNCHANGED <<streaming, took>>
        \/ /\ took' = "aux" /\ streaming' \in BOOLEAN /\ (streaming => streaming')
           /\ stage' \in {after(c), c, err(c)}
           /\ stage' = after(c) /\ c = "F4" => streaming'
    BY <1>8 DEF read_mouse_reply, is_reply, Ps2TypeOK, Commands, after, err
  <2>3. CASE c = "F6"
    <3>1. stage = "F6 reply" /\ after(c) = "F4" /\ err(c) = "no F6"
      BY <2>1, <2>3 DEF reply_to, after, err
    <3> QED BY <2>1, <2>2, <2>3, <3>1 DEF Ps2TypeOK, ConfigAwaited, Progress, F4Awaited
  <2>4. CASE c = "F4"
    <3>1. stage = "F4 reply" /\ after(c) = "register" /\ err(c) = "no F4"
      BY <2>1, <2>4 DEF reply_to, after, err
    <3> QED BY <2>1, <2>2, <2>4, <3>1 DEF Ps2TypeOK, ConfigAwaited, Progress, F4Awaited
  <2> QED BY <2>3, <2>4 DEF Commands
<1>9. CASE give_up
  BY <1>9 DEF give_up, Ps2TypeOK, Config, ConfigAwaited, Progress, F4Awaited
<1>10. CASE register
  <2>1. AllOn \in Config BY DEF AllOn, Config
  <2> QED BY <1>10, <2>1 DEF register, Ps2TypeOK, ConfigAwaited, Progress, F4Awaited
<1>11. CASE write_loud
  BY <1>11 DEF write_loud, Ps2TypeOK, Config, ConfigAwaited, Progress, F4Awaited
<1>12. CASE enable_both
  <2>1. cfg = AllOn /\ stage = "enable_kbd" /\ UNCHANGED <<config, streaming, hooked>>
    BY <1>12 DEF enable_both, Progress
  <2>2. [AllOn EXCEPT !.kbd = TRUE] = AllOn /\ [AllOn EXCEPT !.kbd = TRUE, !.aux = TRUE] = AllOn
    <3>1. [AllOn EXCEPT !.kbd = TRUE] = AllOn
      <4>1. [AllOn EXCEPT !.kbd = TRUE] = [AllOn EXCEPT !.kbd = AllOn.kbd] BY DEF AllOn
      <4> QED BY <4>1 DEF AllOn
    <3>2. [AllOn EXCEPT !.aux = TRUE] = AllOn
      <4>1. [AllOn EXCEPT !.aux = TRUE] = [AllOn EXCEPT !.aux = AllOn.aux] BY DEF AllOn
      <4> QED BY <4>1 DEF AllOn
    <3> QED BY <3>1, <3>2
  <2>3. cfg' = AllOn /\ stage' \in {"0", "-8"} BY <1>12, <2>1, <2>2 DEF enable_both
  <2> QED BY <2>1, <2>3 DEF Ps2TypeOK, ConfigAwaited, Progress, F4Awaited
<1> QED BY <1>1, <1>2, <1>3, <1>4, <1>5, <1>6, <1>7, <1>8, <1>9, <1>10, <1>11, <1>12
        DEF ps2_mouse_init

\* So do interrupts, keys and movements, which come between any two of them.
LEMMA Ps2DeviceStep == Ps2Inv /\ (irq1 \/ irq12 \/ key \/ move) => Ps2Inv'
<1> SUFFICES ASSUME Ps2Inv, irq1 \/ irq12 \/ key \/ move PROVE Ps2Inv' OBVIOUS
<1>1. UNCHANGED <<stage, cfg, config, attempt, streaming, hooked, took>>
  BY DEF irq1, irq12, key, move
<1>2. \/ obuf' = <<>>
      \/ cfg.kbd /\ obuf' = <<[from |-> "kbd", data |-> "key"]>>
      \/ cfg.aux /\ obuf' = <<[from |-> "aux", data |-> "move"]>>
  BY DEF irq1, irq12, key, move
<1>3. Ps2TypeOK' BY <1>1 DEF Ps2Inv, Ps2TypeOK
<1>4. ConfigAwaited' BY <1>1, <1>2 DEF Ps2Inv, ConfigAwaited
<1> QED BY <1>1, <1>3, <1>4 DEF Ps2Inv, Progress, F4Awaited

\* What ps2_mouse_init takes for the configuration is the controller's, what it
\* takes for an answer is the mouse's, and if it returns success both ports are
\* at work (Ps2Sound): for any number of attempts.
THEOREM Ps2IsSound == Ps2Spec => []Ps2Sound
<1>1. Ps2Inv /\ [Ps2Next]_ps2vars => Ps2Inv'
  <2> SUFFICES ASSUME Ps2Inv, UNCHANGED ps2vars PROVE Ps2Inv'
    BY Ps2InitStep, Ps2DeviceStep DEF Ps2Next
  <2> QED BY DEF ps2vars, Ps2Inv, Ps2TypeOK, ConfigAwaited, Progress, F4Awaited
<1>2. Ps2Inv => Ps2Sound
  BY DEF Ps2Inv, F4Awaited, Progress, Ps2Sound, RepliesNotConfused, BothPortsServed
<1> QED BY <1>1, <1>2, Ps2InvInit, PTL DEF Ps2Spec

-----------------------------------------------------------------------------
(* Console: the screens stay on the display and inside their arrays.       *)

Names == {"BS1", "BS2", "BS3", "BS4"}

\* bootscreen_t, without its colours.
Screen == [x : Nat, y : Nat, width : Nat, height : Nat, pixels : BOOLEAN,
           cursor_x : Nat, cursor_y : Nat, buf_len : Nat, visible : BOOLEAN]

\* A screen lies on the display, and its pixels fit its array.
Placed(s) ==
    /\ s.x + s.width <= display.w /\ s.y + s.height <= display.h
    /\ s.width * s.height <= BS_MAX_PIXELS

\* Its cursor and its copy are where a character leaves them.
Kept(s) ==
    /\ s.cursor_x <= s.width \/ s.cursor_x <= GLYPH
    /\ s.height > line_h => s.cursor_y + line_h <= s.height
    /\ s.buf_len + 1 <= BS_BUF_SIZE

\* DrawnInside for one rectangle, which comes from one of the screens or from
\* bs_putpixel.
Shown(r) ==
    /\ r.on \in Names \cup {"display"} /\ r.w >= 0
    /\ r.x + r.w <= display.w /\ r.y + r.h <= display.h
    /\ r.on # "display" =>
          /\ screen[r.on].x <= r.x /\ r.x + r.w <= screen[r.on].x + screen[r.on].width
          /\ screen[r.on].y <= r.y /\ r.y + r.h <= screen[r.on].y + screen[r.on].height

\* CursorInside and CopyEnds for all four screens, used or not, and that they lie
\* on the display, which is what DrawnInside comes from.
ConsoleInv ==
    /\ display \in [w : Nat \ {0}, h : Nat \ {0}]
    /\ screen \in [Names -> Screen]
    /\ active_screen \in Names
    /\ \A n \in Names : Placed(screen[n]) /\ Kept(screen[n])
    /\ \A r \in drawn : Shown(r)

\* The clamped height is no more than was asked for and fits the array.
LEMMA Clamped ==
  ASSUME NEW w \in Nat, NEW h \in Nat
  PROVE  /\ bs_size_clamp(w, h) \in Nat /\ bs_size_clamp(w, h) <= h
         /\ w * bs_size_clamp(w, h) <= BS_MAX_PIXELS
<1>1. BS_MAX_PIXELS \in Nat BY ConsoleAssumption
<1>2. CASE w = 0 \/ w * h <= BS_MAX_PIXELS BY <1>1, <1>2 DEF bs_size_clamp
<1>3. CASE w # 0 /\ ~(w * h <= BS_MAX_PIXELS)
  <2> DEFINE q == BS_MAX_PIXELS \div w
  <2>1. q \in Nat /\ w * q <= BS_MAX_PIXELS BY <1>1, <1>3
  <2>2. w * h \in Nat /\ w * q < w * h BY <1>1, <1>3, <2>1
  <2> HIDE DEF q
  <2>3. q <= h
    <3> SUFFICES ASSUME q > h PROVE FALSE BY <2>1
    <3>1. w * h <= w * q BY <2>1
    <3> QED BY <2>2, <3>1, <2>1
  <2>4. bs_size_clamp(w, h) = q BY <1>3 DEF bs_size_clamp, q
  <2> QED BY <2>1, <2>3, <2>4
<1> QED BY <1>2, <1>3

\* Types of the sizes all lines share.
LEMMA Line == line_h \in Nat \ {0} /\ GLYPH \in Nat \ {0} /\ GLYPH <= line_h /\ BS_BUF_SIZE \in Nat \ {0}
BY ConsoleAssumption DEF line_h

\* A screen that is set up on the display stays on it.
LEMMA SetUp ==
  ASSUME NEW p \in BOOLEAN, NEW x \in Nat, NEW y \in Nat, NEW w \in Nat, NEW h \in Nat,
         display \in [w : Nat \ {0}, h : Nat \ {0}], x + w <= display.w, y + h <= display.h
  PROVE  LET s == bs_setup_screen(p, x, y, w, h) IN s \in Screen /\ Placed(s) /\ Kept(s)
<1> DEFINE c == bs_size_clamp(w, h)
<1>1. c \in Nat /\ c <= h /\ w * c <= BS_MAX_PIXELS BY Clamped
<1> HIDE DEF c
<1>2. bs_setup_screen(p, x, y, w, h) =
        [x |-> x, y |-> y, width |-> w, height |-> c, pixels |-> p,
         cursor_x |-> 0, cursor_y |-> 0, buf_len |-> 0, visible |-> TRUE]
  BY DEF bs_setup_screen, c
<1> DEFINE s == bs_setup_screen(p, x, y, w, h)
<1>3. s \in Screen BY <1>1, <1>2 DEF Screen
<1>4. Placed(s) BY <1>1, <1>2 DEF Placed
<1>5. Kept(s) BY <1>1, <1>2, Line DEF Kept
<1> QED BY <1>3, <1>4, <1>5

\* The layout of bootscreen_layout_init is sound.
LEMMA ConsoleStarts == ConsoleInit => ConsoleInv
<1> SUFFICES ASSUME ConsoleInit PROVE ConsoleInv OBVIOUS
<1>1. display \in [w : Nat \ {0}, h : Nat \ {0}] BY ConsoleAssumption DEF ConsoleInit
<1> DEFINE half == display.w \div 2
           mid == display.h \div 2
<1>2. /\ half \in Nat /\ mid \in Nat /\ display.w \in Nat /\ display.h \in Nat /\ display.h - mid \in Nat
      /\ half + half <= display.w /\ half <= display.w /\ mid <= display.h
  BY <1>1
<1>3. screen = [BS1 |-> bs_setup_screen(TRUE, 0, 0, half, display.h),
                BS2 |-> bs_setup_screen(TRUE, half, 0, half, mid),
                BS3 |-> bs_setup_screen(FALSE, 0, 0, display.w, display.h),
                BS4 |-> bs_setup_screen(TRUE, half, mid, half, display.h - mid)]
  BY DEF ConsoleInit, bootscreen_layout_init
<1> HIDE DEF half, mid
<1>4. \A n \in Names : screen[n] \in Screen /\ Placed(screen[n]) /\ Kept(screen[n])
  <2>0. /\ 0 + half <= display.w /\ 0 + display.w <= display.w /\ 0 + display.h <= display.h
        /\ 0 + mid <= display.h /\ mid + (display.h - mid) <= display.h /\ 0 \in Nat
    BY <1>2
  <2>1. LET s == screen.BS1 IN s \in Screen /\ Placed(s) /\ Kept(s) BY <1>1, <1>2, <1>3, <2>0, SetUp
  <2>2. LET s == screen.BS2 IN s \in Screen /\ Placed(s) /\ Kept(s) BY <1>1, <1>2, <1>3, <2>0, SetUp
  <2>3. LET s == screen.BS3 IN s \in Screen /\ Placed(s) /\ Kept(s) BY <1>1, <1>2, <1>3, <2>0, SetUp
  <2>4. LET s == screen.BS4 IN s \in Screen /\ Placed(s) /\ Kept(s) BY <1>1, <1>2, <1>3, <2>0, SetUp
  <2> QED BY <2>1, <2>2, <2>3, <2>4 DEF Names
<1>5. screen \in [Names -> Screen] BY <1>3, <1>4 DEF Names
<1>6. \A r \in drawn : Shown(r) BY DEF ConsoleInit
<1> QED BY <1>1, <1>4, <1>5, <1>6 DEF ConsoleInv, ConsoleInit, Names

\* A rectangle that starts left of its screen's right edge is shown, whatever
\* its height: if it starts below the screen there is nothing to show.
LEMMA Flushed ==
  ASSUME NEW n \in Names, screen[n] \in Screen, Placed(screen[n]),
         NEW x \in Nat, NEW y \in Nat, NEW w \in Nat, NEW h \in Nat,
         display \in [w : Nat \ {0}, h : Nat \ {0}], x <= screen[n].width
  PROVE  \A r \in bs_flush_rect(n, x, y, w, h) : Shown(r)
<1> DEFINE s == screen[n]
<1>1. s.x \in Nat /\ s.y \in Nat /\ s.width \in Nat /\ s.height \in Nat BY DEF Screen
<1>2. display.w \in Nat /\ display.h \in Nat OBVIOUS
<1> DEFINE cw == clip(x + w, s.width)
           ch == clip(y + h, s.height)
<1>3. cw \in Nat /\ x <= cw /\ cw <= s.width BY <1>1 DEF clip
<1>4. ch \in Nat /\ ch <= s.height BY <1>1 DEF clip
<1> HIDE DEF cw, ch
<1> DEFINE r == [on |-> n, x |-> s.x + x, y |-> s.y + y, w |-> cw - x, h |-> ch - y]
<1>5. bs_flush_rect(n, x, y, w, h) = IF s.pixels /\ y < ch THEN {r} ELSE {}
  BY DEF bs_flush_rect, cw, ch
<1>6. ASSUME y < ch PROVE Shown(r)
  <2>1. /\ (s.x + x) + (cw - x) <= display.w /\ cw - x >= 0
        /\ s.x <= s.x + x /\ (s.x + x) + (cw - x) <= s.x + s.width
    BY <1>1, <1>2, <1>3 DEF Placed
  <2>2. /\ (s.y + y) + (ch - y) <= display.h
        /\ s.y <= s.y + y /\ (s.y + y) + (ch - y) <= s.y + s.height
    BY <1>1, <1>2, <1>4 DEF Placed
  <2>3. r.on = n /\ r.x = s.x + x /\ r.y = s.y + y /\ r.w = cw - x /\ r.h = ch - y OBVIOUS
  <2> HIDE DEF r
  <2> QED BY <2>1, <2>2, <2>3 DEF Shown
<1> QED BY <1>5, <1>6

\* So is a whole screen.
LEMMA FlushedWhole ==
  ASSUME NEW n \in Names, screen[n] \in Screen, Placed(screen[n]),
         display \in [w : Nat \ {0}, h : Nat \ {0}]
  PROVE  \A r \in bs_flush(n) : Shown(r)
<1>1. screen[n].width \in Nat /\ screen[n].height \in Nat /\ 0 <= screen[n].width BY DEF Screen
<1> QED BY <1>1, Flushed DEF bs_flush

\* The place of a screen on the display.
Frame(s) == <<s.x, s.y, s.width, s.height>>

\* Replacing one screen by a sound one at the same place.
LEMMA OneScreen ==
  ASSUME ConsoleInv, NEW CONSTANT n \in Names, NEW t \in Screen, Placed(t), Kept(t),
         Frame(t) = Frame(screen[n]),
         screen' = [screen EXCEPT ![n] = t], display' = display, active_screen' \in Names,
         \A r \in drawn' : Shown(r)
  PROVE  ConsoleInv'
<1>1. screen' \in [Names -> Screen] BY DEF ConsoleInv
<1>2. \A m \in Names : screen'[m] = IF m = n THEN t ELSE screen[m] BY DEF ConsoleInv
<1>3. \A m \in Names : Placed(screen'[m]) /\ Kept(screen'[m]) BY <1>2 DEF ConsoleInv
<1>4. \A m \in Names : Placed(screen[m])' /\ Kept(screen[m])'
  BY <1>3 DEF Placed, Kept, line_h
<1>5. \A m \in Names : /\ screen'[m].x = screen[m].x /\ screen'[m].y = screen[m].y
                       /\ screen'[m].width = screen[m].width /\ screen'[m].height = screen[m].height
  BY <1>2 DEF Frame
<1>6. (\A r \in drawn : Shown(r))' BY <1>5 DEF Shown, Names
<1> QED BY <1>1, <1>4, <1>6 DEF ConsoleInv

\* Moving the cursor moves nothing else.
moved(s, x, y) == [s EXCEPT !.cursor_x = x, !.cursor_y = y]

\* Moving the cursor leaves the rest of the screen alone.
LEMMA Moved ==
  ASSUME NEW s \in Screen, Placed(s), NEW x \in Nat, NEW y \in Nat
  PROVE  /\ moved(s, x, y) \in Screen /\ Placed(moved(s, x, y))
         /\ moved(s, x, y).cursor_x = x /\ moved(s, x, y).cursor_y = y
         /\ Frame(moved(s, x, y)) = Frame(s)
<1> DEFINE r == [s EXCEPT !.cursor_x = x]
           t == [r EXCEPT !.cursor_y = y]
<1>1. r \in Screen BY DEF Screen
<1> HIDE DEF r
<1>2. t \in Screen BY <1>1 DEF Screen
<1> USE DEF r
<1>3. t = moved(s, x, y) BY DEF moved
<1> QED BY <1>2, <1>3 DEF Placed, Screen, Frame

\* bs_scroll leaves the cursor on the screen.
LEMMA Scrolled ==
  ASSUME NEW s \in Screen, Placed(s), s.buf_len + 1 <= BS_BUF_SIZE
  PROVE  bs_scroll(s) \in Screen /\ Placed(bs_scroll(s)) /\ Kept(bs_scroll(s))
         /\ bs_scroll(s).buf_len = s.buf_len /\ Frame(bs_scroll(s)) = Frame(s)
<1>1. s.height \in Nat /\ s.width \in Nat /\ s.buf_len \in Nat BY DEF Screen
<1>2. CASE ~s.pixels \/ line_h >= s.height
  <2>1. bs_scroll(s) = [s EXCEPT !.cursor_x = 0, !.cursor_y = 0] BY <1>2 DEF bs_scroll
  <2>2. bs_scroll(s) \in Screen
    <3>1. bs_scroll(s) = moved(s, 0, 0) BY <2>1 DEF moved
    <3> QED BY <3>1, Moved
  <2>3. Placed(bs_scroll(s)) BY <2>1 DEF Placed, Screen
  <2>4. Kept(bs_scroll(s)) BY <1>1, <2>1, Line DEF Kept, Screen
  <2> QED BY <2>1, <2>2, <2>3, <2>4 DEF Screen, Frame
<1>3. CASE ~(~s.pixels \/ line_h >= s.height)
  <2>1. bs_scroll(s) = [s EXCEPT !.cursor_x = 0, !.cursor_y = s.height - line_h] BY <1>3 DEF bs_scroll
  <2>0. s.height - line_h \in Nat BY <1>1, <1>3, Line
  <2>2. bs_scroll(s) \in Screen
    <3>1. bs_scroll(s) = moved(s, 0, s.height - line_h) BY <2>1 DEF moved
    <3> QED BY <2>0, <3>1, Moved
  <2>3. Placed(bs_scroll(s)) BY <2>1 DEF Placed, Screen
  <2>4. Kept(bs_scroll(s)) BY <1>1, <2>1, Line DEF Kept, Screen
  <2> QED BY <2>1, <2>2, <2>3, <2>4 DEF Screen, Frame
<1> QED BY <1>2, <1>3

\* bs_putchar: the cursor moves, wraps or scrolls, and stays on its screen.
LEMMA PutStep ==
  ASSUME ConsoleInv, NEW CONSTANT c, bs_putchar(c)
  PROVE  ConsoleInv'
<1> DEFINE s == screen[active_screen]
           at == IF c = "newline" \/ wraps(s) THEN newline(s) ELSE s
           next == IF c = "newline" THEN at ELSE [at EXCEPT !.cursor_x = at.cursor_x + GLYPH]
           full == out_of_space(next)
           end == IF full THEN bs_scroll(next) ELSE next
           t == [end EXCEPT !.buf_len = IF logs(s) THEN s.buf_len + 1 ELSE s.buf_len]
<1>1. /\ s \in Screen /\ Placed(s) /\ Kept(s) /\ display \in [w : Nat \ {0}, h : Nat \ {0}]
      /\ active_screen \in Names
  BY DEF ConsoleInv
<1>2. display' = display /\ active_screen' = active_screen BY DEF bs_putchar
<1>3. CASE ~s.visible
  <2>1. screen' = screen /\ drawn' = drawn BY <1>3 DEF bs_putchar
  <2> QED BY <1>2, <2>1 DEF ConsoleInv, Placed, Kept, line_h, Shown
<1>4. CASE s.visible
  <2>1. /\ screen' = [screen EXCEPT ![active_screen] = t]
        /\ drawn' \subseteq bs_flush_rect(active_screen, at.cursor_x, at.cursor_y, GLYPH, GLYPH)
                            \cup bs_flush(active_screen)
    BY <1>4 DEF bs_putchar
  <2> HIDE DEF s
  <2>2. /\ s.width \in Nat /\ s.height \in Nat /\ s.cursor_x \in Nat /\ s.cursor_y \in Nat
        /\ s.buf_len \in Nat /\ s.buf_len + 1 <= BS_BUF_SIZE
    BY <1>1 DEF Screen, Kept
  <2>3. /\ at \in Screen /\ Placed(at) /\ at.width = s.width /\ at.height = s.height
        /\ Frame(at) = Frame(s)
        /\ at.buf_len = s.buf_len /\ at.cursor_x \in Nat /\ at.cursor_y \in Nat
        /\ at.cursor_x = 0 \/ at.cursor_x + GLYPH < at.width \/ c = "newline"
        /\ at.cursor_x = 0 \/ at.cursor_x + GLYPH < at.width
    <3>1. newline(s) = [s EXCEPT !.cursor_x = 0, !.cursor_y = s.cursor_y + line_h] BY DEF newline
    <3>2. s.cursor_y + line_h \in Nat BY <2>2, Line
    <3>3. newline(s) \in Screen /\ Placed(newline(s)) 
      <4> DEFINE below == s.cursor_y + line_h
      <4>1. newline(s) = moved(s, 0, below) BY <3>1 DEF moved
      <4>2. below \in Nat /\ s \in Screen /\ Placed(s) BY <1>1, <3>2
      <4> HIDE DEF below
      <4> QED BY <4>1, <4>2, Moved
    <3>4. /\ newline(s).width = s.width /\ newline(s).height = s.height
          /\ newline(s).buf_len = s.buf_len /\ newline(s).cursor_x = 0
          /\ newline(s).cursor_y = s.cursor_y + line_h /\ Frame(newline(s)) = Frame(s)
      BY <1>1, <3>1 DEF Screen, Frame
    <3>5. ~wraps(s) => s.cursor_x + GLYPH < s.width BY <2>2, Line DEF wraps
    <3> QED BY <1>1, <2>2, <3>2, <3>3, <3>4, <3>5
  <2> HIDE DEF at
  <2>4. /\ next \in Screen /\ Placed(next) /\ next.width = s.width /\ next.height = s.height
        /\ next.buf_len = s.buf_len /\ next.cursor_y = at.cursor_y /\ next.cursor_x \in Nat
        /\ next.cursor_x <= next.width \/ next.cursor_x <= GLYPH
        /\ Frame(next) = Frame(s)
    <3>1. at.cursor_x + GLYPH \in Nat BY <2>3, Line
    <3>2. CASE c = "newline" BY <2>2, <2>3, <3>2, Line
    <3>3. CASE c # "newline"
      <4>1. next \in Screen BY <2>3, <3>1, <3>3 DEF Screen
      <4>2. Placed(next) BY <2>3, <3>3 DEF Placed, Screen
      <4>3. next.cursor_x = at.cursor_x + GLYPH /\ next.width = s.width /\ next.height = s.height
            /\ next.buf_len = s.buf_len /\ next.cursor_y = at.cursor_y /\ Frame(next) = Frame(s)
        BY <2>3, <3>3 DEF Screen, Frame
      <4>4. at.cursor_x + GLYPH <= s.width \/ at.cursor_x + GLYPH <= GLYPH BY <2>2, <2>3, Line
      <4> HIDE DEF next
      <4> QED BY <3>1, <4>1, <4>2, <4>3, <4>4
    <3> QED BY <3>2, <3>3
  <2> HIDE DEF next
  <2>5. ~full => next.cursor_y + line_h < next.height BY <2>2, <2>3, <2>4, Line DEF out_of_space
  <2>6. end \in Screen /\ Placed(end) /\ Kept(end) /\ end.buf_len = s.buf_len /\ Frame(end) = Frame(s)
    <3>1. full => /\ end \in Screen /\ Placed(end) /\ Kept(end) /\ end.buf_len = s.buf_len
                  /\ Frame(end) = Frame(s)
      BY <2>2, <2>4, Scrolled
    <3>2. ~full => Kept(next) BY <2>2, <2>3, <2>4, <2>5, Line DEF Kept
    <3> QED BY <2>4, <3>1, <3>2
  <2>7. \A r \in bs_flush_rect(active_screen, at.cursor_x, at.cursor_y, GLYPH, GLYPH) : Shown(r)
    <3>1. at.cursor_x <= s.width BY <2>2, <2>3, Line
    <3> QED BY <1>1, <2>3, <3>1, Flushed, Line DEF s
  <2>8. \A r \in drawn' : Shown(r) BY <1>1, <2>1, <2>7, FlushedWhole DEF s
  <2> HIDE DEF full, end
  <2> DEFINE n == IF logs(s) THEN s.buf_len + 1 ELSE s.buf_len
  <2>9. n \in Nat /\ n + 1 <= BS_BUF_SIZE BY <2>2, Line DEF logs
  <2> HIDE DEF n
  <2>10. t = [end EXCEPT !.buf_len = n] BY DEF n
  <2>11. t \in Screen BY <2>6, <2>9, <2>10 DEF Screen
  <2>12. Placed(t) /\ Frame(t) = Frame(screen[active_screen]) BY <2>6, <2>10 DEF Placed, Screen, Frame, s
  <2>13. Kept(t) BY <2>6, <2>9, <2>10 DEF Kept, Screen
  <2> HIDE DEF t
  <2> QED BY <1>1, <1>2, <2>1, <2>8, <2>11, <2>12, <2>13, OneScreen
<1> QED BY <1>3, <1>4

\* The other calls.
LEMMA OtherStep ==
  ASSUME ConsoleInv,
         \/ bootscreen_bs3_init_backbuffer
         \/ \E n \in Screens : bs_clear(n) \/ bs_switch_screen(n)
         \/ \E n \in Screens, on \in BOOLEAN : bs_screens_visible(n, on)
         \/ \E x \in {0, display.w - 1}, y \in {0, display.h} : bs_putpixel(x, y)
  PROVE  ConsoleInv'
<1>1. /\ screen \in [Names -> Screen] /\ active_screen \in Names /\ Screens \subseteq Names
      /\ \A n \in Names : Placed(screen[n]) /\ Kept(screen[n])
      /\ display \in [w : Nat \ {0}, h : Nat \ {0}] /\ (\A r \in drawn : Shown(r))
  BY ConsoleAssumption DEF ConsoleInv, Names
<1>2. CASE bootscreen_bs3_init_backbuffer
  <2> DEFINE s == screen["BS3"]
             t == [s EXCEPT !.pixels = TRUE]
  <2>1. s \in Screen /\ Placed(s) /\ Kept(s) /\ "BS3" \in Names BY <1>1 DEF Names
  <2>2. screen' = [screen EXCEPT !["BS3"] = t] BY <1>2 DEF bootscreen_bs3_init_backbuffer
  <2> HIDE DEF s
  <2>3. t \in Screen /\ Placed(t) /\ Kept(t) /\ Frame(t) = Frame(s) BY <2>1 DEF Screen, Placed, Kept, Frame
  <2>4. display' = display /\ active_screen' = active_screen /\ drawn' = drawn
    BY <1>2 DEF bootscreen_bs3_init_backbuffer
  <2> HIDE DEF t
  <2> QED BY <1>1, <2>1, <2>2, <2>3, <2>4, OneScreen DEF s
<1>3. ASSUME NEW n \in Screens, bs_clear(n) PROVE ConsoleInv'
  <2> DEFINE s == screen[n]
             m == moved(s, 0, 0)
             t == [m EXCEPT !.buf_len = 0]
  <2>1. s \in Screen /\ Placed(s) /\ Kept(s) /\ n \in Names BY <1>1
  <2>2. screen' = [screen EXCEPT ![n] = t] BY <1>1, <1>3 DEF bs_clear, moved
  <2> HIDE DEF s
  <2>3. m \in Screen /\ Placed(m) /\ m.cursor_x = 0 /\ m.cursor_y = 0 /\ Frame(m) = Frame(s)
    BY <2>1, Moved
  <2> HIDE DEF m
  <2>4. t \in Screen /\ Placed(t) /\ Frame(t) = Frame(s) BY <2>3 DEF Screen, Placed, Frame
  <2>5. Kept(t) BY <2>3, Line DEF Screen, Kept
  <2>6. (\A r \in drawn' : Shown(r)) /\ display' = display /\ active_screen' = active_screen
    BY <1>1, <1>3, <2>1, FlushedWhole DEF bs_clear, s
  <2> HIDE DEF t
  <2> QED BY <1>1, <2>1, <2>2, <2>4, <2>5, <2>6, OneScreen DEF s
<1>4. ASSUME NEW n \in Screens, NEW on \in BOOLEAN, bs_screens_visible(n, on) PROVE ConsoleInv'
  <2> DEFINE s == screen[n]
             t == [s EXCEPT !.visible = on]
  <2>1. s \in Screen /\ Placed(s) /\ Kept(s) /\ n \in Names BY <1>1
  <2>2. screen' = [screen EXCEPT ![n] = t] BY <1>4 DEF bs_screens_visible
  <2> HIDE DEF s
  <2>3. t \in Screen /\ Placed(t) /\ Kept(t) /\ Frame(t) = Frame(s) BY <2>1 DEF Screen, Placed, Kept, Frame
  <2>4. display' = display /\ active_screen' = active_screen /\ drawn' = drawn
    BY <1>4 DEF bs_screens_visible
  <2> HIDE DEF t
  <2> QED BY <1>1, <2>1, <2>2, <2>3, <2>4, OneScreen DEF s
<1>5. ASSUME screen' = screen, display' = display, active_screen' \in Names, (\A r \in drawn' : Shown(r))
      PROVE  ConsoleInv'
  BY <1>5, <1>1 DEF ConsoleInv, Placed, Kept, line_h, Shown
<1>6. ASSUME NEW n \in Screens, bs_switch_screen(n) PROVE ConsoleInv'
  BY <1>1, <1>5, <1>6 DEF bs_switch_screen
<1>7. ASSUME NEW x \in {0, display.w - 1}, NEW y \in {0, display.h}, bs_putpixel(x, y)
      PROVE  ConsoleInv'
  <2> DEFINE s == screen[active_screen]
  <2>1. s.x \in Nat /\ s.y \in Nat /\ x \in Nat /\ y \in Nat /\ display.w \in Nat /\ display.h \in Nat
    BY <1>1 DEF Screen
  <2>2. /\ drawn' = IF s.x + x < display.w /\ s.y + y < display.h
                    THEN {[on |-> "display", x |-> s.x + x, y |-> s.y + y, w |-> 1, h |-> 1]} ELSE {}
        /\ screen' = screen /\ display' = display /\ active_screen' = active_screen
    BY <1>7 DEF bs_putpixel
  <2> HIDE DEF s
  <2>3. (\A r \in drawn' : Shown(r)) BY <2>1, <2>2 DEF Shown
  <2> QED BY <1>1, <1>5, <2>2, <2>3
<1> QED BY <1>2, <1>3, <1>4, <1>6, <1>7

\* Whatever is printed, cleared and switched, on a display of any size with
\* a font of any scale: what a screen copies to the frame buffer lies inside
\* both, with no row of a length below zero, a pixel inside the frame buffer, the
\* cursor stays on its screen and the copy of the text in its array (bs_putchar,
\* bs_scroll, bs_flush_rect, bs_clear).
THEOREM ScreensAreSound == ConsoleSpec => []ScreenSound
<1>1. ConsoleInv /\ [ConsoleNext]_convars => ConsoleInv'
  <2> SUFFICES ASSUME ConsoleInv, UNCHANGED convars PROVE ConsoleInv'
    BY PutStep, OtherStep DEF ConsoleNext
  <2> QED BY DEF convars, ConsoleInv, Placed, Kept, line_h, Shown
<1>2. ConsoleInv => ScreenSound
  <2> SUFFICES ASSUME ConsoleInv PROVE ScreenSound OBVIOUS
  <2>1. Screens \subseteq Names BY ConsoleAssumption DEF Names
  <2>2. CursorInside BY <2>1 DEF ConsoleInv, Placed, Kept, CursorInside
  <2>3. CopyEnds BY <2>1 DEF ConsoleInv, Kept, CopyEnds
  <2>4. DrawnInside BY DEF ConsoleInv, Shown, DrawnInside
  <2> QED BY <2>2, <2>3, <2>4 DEF ScreenSound
<1> QED BY <1>1, <1>2, ConsoleStarts, PTL DEF ConsoleSpec

-----------------------------------------------------------------------------
(* Irq: no interrupt is shut out, for any number of threads, though the    *)
(* timer's handler may leave as many of them inside irq_handler as there are. *)

States == {"off", "run", "entered", "acked", "return"}

IrqTypeOK ==
    /\ running \in IrqThreads
    /\ pc \in [IrqThreads -> States]
    /\ vector \in [IrqThreads -> All]

\* A thread that is switched away from has acknowledged its interrupt.
OneInHandler ==
    \A t \in IrqThreads : pc[t] \in {"entered", "acked"} => t = running

\* What is in service goes with the acknowledgement that is due.
Acknowledged ==
    /\ pc[running] # "entered" => service = {}
    /\ pc[running] = "entered" => irq_ack(service, vector[running]) = {}

\* Before ps2_mouse_init, and inside it with the keyboard silent.
Early == {"irq_install", "timer_init", "keyboard_init", "keyboard_register"}
Quiet == {"ask", "config", "quiet", "enable_aux", "commands", "mouse_register", "loud"}

\* From ps2_mouse_init on the keyboard's handler is registered.  While the
\* controller is set up the keyboard cannot send, and afterwards it can only
\* with its interrupt on: a byte that waits has it raised, or being handled.
KeyOnItsWay ==
    /\ boot \notin Early => 1 \in irq_handlers
    /\ boot # "up" => mouse_status = "none"
    /\ boot = "drain_output" \/ boot \in Quiet => ~kbd_clock
    /\ boot \in Quiet => ~typed
    /\ mouse_status \notin {"-5", "-6"} /\ kbd_clock => kbd_irq
    /\ boot \in {"enable", "up"} /\ mouse_status \notin {"-1", "-5", "-6"} /\ typed =>
          1 \in raised \/ (pc[running] \in {"entered", "acked"} /\ vector[running] = 1)

IrqInv == IrqTypeOK /\ OneInHandler /\ Acknowledged /\ RegisteredGetsThrough /\ KeyOnItsWay

\* The boot thread is a thread.
LEMMA BootThreadIs == BootThread \in IrqThreads
BY IrqAssumption DEF BootThread

\* Acknowledging takes the only line in service out of it.
LEMMA EoiOne ==
  ASSUME NEW k \in Int, NEW L, k \in L
  PROVE  eoi({k}, L) = {}
<1>1. {k} \cap L = {k} OBVIOUS
<1>2. (CHOOSE x \in {k} : \A j \in {k} : x <= j) = k OBVIOUS
<1> QED BY <1>1, <1>2 DEF eoi

\* One acknowledgement is due for whatever the controllers deliver.
LEMMA AckAll ==
  /\ irq_ack({0}, 0) = {} /\ irq_ack({1}, 1) = {} /\ irq_ack({12, 2}, 12) = {}
  /\ irq_ack({}, 7) = {} /\ irq_ack({2}, 15) = {}
<1>1. eoi({0}, 0 .. 7) = {} /\ eoi({1}, 0 .. 7) = {} /\ eoi({2}, 0 .. 7) = {} BY EoiOne
<1>2. eoi({2}, 8 .. 15) = {2} /\ eoi({}, 0 .. 7) = {} BY DEF eoi
<1>3. eoi({12, 2}, 8 .. 15) = {2}
  <2>1. {12, 2} \cap (8 .. 15) = {12} OBVIOUS
  <2>2. (CHOOSE x \in {12} : \A j \in {12} : x <= j) = 12 OBVIOUS
  <2> QED BY <2>1, <2>2 DEF eoi
<1> QED BY <1>1, <1>2, <1>3 DEF irq_ack

\* The invariant holds at boot.
LEMMA IrqInvInit == IrqInit => IrqInv
<1> SUFFICES ASSUME IrqInit PROVE IrqInv OBVIOUS
<1>1. IrqTypeOK BY BootThreadIs DEF IrqInit, IrqTypeOK, States, All
<1>2. pc[running] = "off" BY BootThreadIs DEF IrqInit
<1>3. OneInHandler BY DEF IrqInit, OneInHandler
<1> QED BY <1>1, <1>2, <1>3 DEF IrqInit, IrqInv, Acknowledged, RegisteredGetsThrough, KeyOnItsWay, Early, Quiet

\* Registering a handler opens the way for its line and closes none.
LEMMA Registers ==
  ASSUME RegisteredGetsThrough, NEW CONSTANT k \in Devices, irq_register_handler(k)
  PROVE  RegisteredGetsThrough'
<1>1. irq_handlers' = irq_handlers \cup {k} /\ masked' = irq_unmask(masked, k)
  BY DEF irq_register_handler
<1>2. masked' \subseteq masked BY <1>1 DEF irq_unmask
<1>3. way(k) \cap masked' = {} BY <1>1 DEF irq_unmask, way, Devices
<1>4. \A irq \in irq_handlers : way(irq) \cap masked = {} BY DEF RegisteredGetsThrough
<1>5. \A irq \in irq_handlers' : way(irq) \cap masked' = {} BY <1>1, <1>2, <1>3, <1>4
<1> QED BY <1>5 DEF RegisteredGetsThrough, way

\* The steps of the boot thread keep the invariant.
LEMMA BootStep ==
  ASSUME IrqInv, irq_install \/ timer_init \/ keyboard_init \/ mouse_init
  PROVE  IrqInv'
<1> USE DEF IrqInv, booting
<1>1. CASE irq_install
  BY <1>1 DEF irq_install, IrqTypeOK, OneInHandler, Acknowledged, RegisteredGetsThrough, KeyOnItsWay,
              ctlvars, Early, Quiet
<1>2. CASE timer_init
  <2>1. /\ irq_register_handler(0) /\ running = BootThread /\ pc[running] \in {"off", "run"}
        /\ pc' = [pc EXCEPT ![running] = "run"] /\ UNCHANGED <<service, running, vector>>
        /\ boot = "timer_init" /\ boot' = "keyboard_init" /\ UNCHANGED ctlvars
    BY <1>2 DEF timer_init
  <2>2. RegisteredGetsThrough' BY <2>1, Registers DEF Devices
  <2>3. IrqTypeOK' /\ OneInHandler' BY <2>1 DEF IrqTypeOK, OneInHandler, States
  <2>4. Acknowledged' BY <2>1 DEF Acknowledged, IrqTypeOK
  <2> QED BY <2>1, <2>2, <2>3, <2>4 DEF KeyOnItsWay, ctlvars, Early, Quiet
<1>3. CASE keyboard_init
  <2>1. UNCHANGED <<raised, service, running, pc, vector, ctlvars>> BY <1>3 DEF keyboard_init
  <2>2. IrqTypeOK' /\ OneInHandler' /\ Acknowledged' BY <2>1 DEF IrqTypeOK, OneInHandler, Acknowledged
  <2>3. CASE boot = "keyboard_init" /\ boot' = "keyboard_register" /\ UNCHANGED <<masked, irq_handlers>>
    BY <2>1, <2>2, <2>3 DEF RegisteredGetsThrough, KeyOnItsWay, ctlvars, Early, Quiet
  <2>4. CASE boot = "keyboard_register" /\ boot' = "disable" /\ irq_register_handler(1)
    <3>1. RegisteredGetsThrough' BY <2>4, Registers DEF Devices
    <3>2. 1 \in irq_handlers' BY <2>4 DEF irq_register_handler
    <3> QED BY <2>1, <2>2, <2>4, <3>1, <3>2 DEF KeyOnItsWay, ctlvars, Early, Quiet
  <2> QED BY <1>3, <2>3, <2>4 DEF keyboard_init
<1>4. CASE mouse_init
  <2>1. UNCHANGED <<service, running, pc, vector>> BY <1>4 DEF mouse_init
  <2>2. IrqTypeOK' /\ OneInHandler' /\ Acknowledged' BY <2>1 DEF IrqTypeOK, OneInHandler, Acknowledged
  <2>3. \/ UNCHANGED <<masked, irq_handlers>>
        \/ irq_register_handler(12)
    BY <1>4 DEF mouse_init, mouse_quiet, mouse_commands, mouse_on
  <2>4. RegisteredGetsThrough' BY <2>3, Registers DEF Devices, RegisteredGetsThrough
  <2>5. irq_handlers \subseteq irq_handlers' BY <2>3 DEF irq_register_handler
  <2>6. ASSUME mouse_quiet PROVE KeyOnItsWay'
    BY <2>1, <2>5, <2>6 DEF mouse_quiet, goes_on, returns, KeyOnItsWay, Early, Quiet
  <2>7. ASSUME mouse_commands PROVE KeyOnItsWay'
    BY <2>1, <2>5, <2>7 DEF mouse_commands, goes_on, returns, KeyOnItsWay, Early, Quiet
  <2>8. ASSUME mouse_on PROVE KeyOnItsWay'
    BY <2>1, <2>5, <2>8 DEF mouse_on, goes_on, returns, KeyOnItsWay, Early, Quiet
  <2> QED BY <1>4, <2>2, <2>4, <2>6, <2>7, <2>8 DEF mouse_init
<1> QED BY <1>1, <1>2, <1>3, <1>4

\* System calls and switches in them keep it.
LEMMA ThreadStep ==
  ASSUME IrqInv, syscall \/ sched_block \/ iretq
  PROVE  IrqInv'
<1> USE DEF IrqInv
<1>1. RegisteredGetsThrough' BY DEF syscall, sched_block, iretq, RegisteredGetsThrough
<1>2. CASE syscall
  BY <1>1, <1>2 DEF syscall, IrqTypeOK, States, OneInHandler, Acknowledged, KeyOnItsWay, ctlvars
<1>3. CASE sched_block
  <2>1. pc[running] = "off" /\ running' \in IrqThreads
        /\ UNCHANGED <<boot, raised, service, irq_handlers, pc, vector, typed, ctlvars>>
    BY <1>3 DEF sched_block
  <2>2. pc[running'] \notin {"entered", "acked"} BY <2>1 DEF OneInHandler
  <2> QED BY <1>1, <2>1, <2>2 DEF IrqTypeOK, OneInHandler, Acknowledged, KeyOnItsWay, ctlvars
<1>4. CASE iretq
  BY <1>1, <1>4 DEF iretq, IrqTypeOK, States, All, OneInHandler, Acknowledged, KeyOnItsWay, ctlvars
<1> QED BY <1>2, <1>3, <1>4

\* The handler acknowledges first, and may come back as another thread.
LEMMA HandlerStep ==
  ASSUME IrqInv, irq_handler
  PROVE  IrqInv'
<1> USE DEF IrqInv
<1>1. RegisteredGetsThrough' /\ UNCHANGED <<boot, raised, irq_handlers, vector, ctlvars>>
  BY DEF irq_handler, RegisteredGetsThrough
<1>2. CASE pc[running] = "entered"
  <2>1. service' = irq_ack(service, vector[running]) /\ UNCHANGED <<typed, running>>
        /\ pc' = [pc EXCEPT ![running] = "acked"]
    BY <1>2 DEF irq_handler
  <2>2. service' = {} BY <1>2, <2>1 DEF Acknowledged
  <2> QED BY <1>1, <1>2, <2>1, <2>2 DEF IrqTypeOK, States, OneInHandler, Acknowledged, KeyOnItsWay, ctlvars
<1>3. CASE pc[running] = "acked"
  <2>1. handle(vector[running]) /\ service' = service /\ pc' = [pc EXCEPT ![running] = "return"]
    BY <1>3 DEF irq_handler
  <2>2. running' \in IrqThreads BY <2>1 DEF handle, timer_handler, IrqTypeOK
  <2>3. \A t \in IrqThreads : pc'[t] \notin {"entered", "acked"}
    BY <2>1 DEF IrqTypeOK, OneInHandler
  <2>4. service' = {} BY <1>3, <2>1 DEF Acknowledged
  <2>5. IrqTypeOK' /\ OneInHandler' /\ Acknowledged'
    BY <1>1, <2>1, <2>2, <2>3, <2>4 DEF IrqTypeOK, States, OneInHandler, Acknowledged
  <2>6. KeyOnItsWay'
    <3>1. CASE vector[running] = 1 /\ 1 \in irq_handlers
      <4>1. typed' = FALSE BY <2>1, <3>1 DEF handle
      <4> QED BY <1>1, <3>1, <4>1 DEF KeyOnItsWay, ctlvars
    <3>2. CASE vector[running] # 1
      <4>1. typed' = typed BY <2>1, <3>2 DEF handle, timer_handler
      <4> QED BY <1>1, <3>2, <4>1 DEF KeyOnItsWay, ctlvars
    <3>3. CASE vector[running] = 1 /\ 1 \notin irq_handlers
      <4>1. typed' = typed BY <2>1, <3>3 DEF handle, timer_handler
      <4> QED BY <1>1, <3>3, <4>1 DEF KeyOnItsWay, ctlvars, Early
    <3> QED BY <3>1, <3>2, <3>3
  <2> QED BY <1>1, <2>5, <2>6
<1> QED BY <1>2, <1>3 DEF irq_handler

\* An interrupt is delivered only when none is in service.
LEMMA DeliveryStep ==
  ASSUME IrqInv, spurious \/ \E irq \in Devices : delivers(irq)
  PROVE  IrqInv'
<1> USE DEF IrqInv
<1>1. PICK irq \in {0, 1, 12, 7, 15} :
         /\ interrupts(irq)
         /\ irq_ack(service', irq) = {}
         /\ raised' = raised \/ (raised' = raised \ {irq})
  <2>1. service = {} BY DEF spurious, delivers, interrupts, Acknowledged
  <2>2. ASSUME NEW irq \in Devices, delivers(irq) PROVE irq_ack(service', irq) = {}
    <3>1. service' = way(irq) BY <2>1, <2>2 DEF delivers
    <3> QED BY <3>1, AckAll DEF way, Devices
  <2>3. CASE \E irq \in Devices : delivers(irq) BY <2>2, <2>3 DEF delivers, Devices
  <2>4. CASE spurious BY <2>1, <2>4, AckAll DEF spurious
  <2> QED BY <2>3, <2>4
<1>2. /\ pc[running] = "run" /\ pc' = [pc EXCEPT ![running] = "entered"]
      /\ vector' = [vector EXCEPT ![running] = irq]
      /\ UNCHANGED <<boot, masked, irq_handlers, running, typed, ctlvars>>
  BY <1>1 DEF interrupts
<1>3. irq \in All BY <1>1 DEF All
<1>4. IrqTypeOK' /\ OneInHandler' BY <1>2, <1>3 DEF IrqTypeOK, States, OneInHandler
<1>5. pc'[running'] = "entered" /\ vector'[running'] = irq BY <1>2 DEF IrqTypeOK
<1>6. Acknowledged' BY <1>1, <1>5 DEF Acknowledged
<1>7. KeyOnItsWay' BY <1>1, <1>2, <1>5 DEF KeyOnItsWay, ctlvars
<1>8. RegisteredGetsThrough' BY <1>2 DEF RegisteredGetsThrough
<1> QED BY <1>4, <1>6, <1>7, <1>8

\* A line that is raised keeps it.
LEMMA RaiseStep ==
  ASSUME IrqInv, types \/ rises(0) \/ rises(12)
  PROVE  IrqInv'
<1>1. UNCHANGED <<boot, masked, service, irq_handlers, running, pc, vector, ctlvars>> BY DEF types, rises
<1>2. IrqTypeOK' /\ OneInHandler' /\ Acknowledged' /\ RegisteredGetsThrough'
  BY <1>1 DEF IrqInv, IrqTypeOK, OneInHandler, Acknowledged, RegisteredGetsThrough
<1>3. ASSUME types PROVE KeyOnItsWay'
  BY <1>1, <1>3 DEF types, IrqInv, KeyOnItsWay, ctlvars, Early, Quiet
<1>4. ASSUME rises(0) \/ rises(12) PROVE KeyOnItsWay'
  BY <1>1, <1>4 DEF rises, IrqInv, KeyOnItsWay, ctlvars
<1> QED BY <1>2, <1>3, <1>4 DEF IrqInv

\* Whenever interrupts are on none is in service, a line with a handler is not
\* masked, and no key waits without an interrupt (InterruptsGetThrough): for any
\* number of threads that are in the handler at once, and with every way out of
\* ps2_mouse_init but the three that KeyNotStuck names.
THEOREM InterruptsAreServed == IrqSpec => []InterruptsGetThrough
<1>1. IrqInv /\ [IrqNext]_irqvars => IrqInv'
  <2> SUFFICES ASSUME IrqInv, UNCHANGED irqvars PROVE IrqInv'
    BY BootStep, ThreadStep, HandlerStep, DeliveryStep, RaiseStep DEF IrqNext
  <2> QED BY DEF irqvars, IrqInv, IrqTypeOK, OneInHandler, Acknowledged, RegisteredGetsThrough,
                 KeyOnItsWay, ctlvars, Early, Quiet
<1>2. IrqInv => InterruptsGetThrough
  BY DEF IrqInv, IrqTypeOK, Acknowledged, KeyOnItsWay, InterruptsGetThrough, NoneInService, KeyNotStuck
<1> QED BY <1>1, <1>2, IrqInvInit, PTL DEF IrqSpec

-----------------------------------------------------------------------------
(* The devices on the PCI buses.                                           *)

\* The two loops as steps: one turn of pci_device_scan_bus, and one bridge
\* further into the machine.
PciTurn(loop, bus, x, k) ==
    IF loop = "scan" THEN scan_place(x, bus, k - 1) ELSE x \cup behind(x)
PciLoop(f, loop, bus, a, n) ==
    f = [k \in 0 .. n |-> IF k = 0 THEN a ELSE PciTurn(loop, bus, f[k - 1], k)]

\* A loop has a result after every number of turns: of the numbers it could
\* fail at there would be a least one.
LEMMA PciLoopIs ==
    ASSUME NEW loop, NEW bus, NEW a, NEW n \in Nat
    PROVE  \E f : PciLoop(f, loop, bus, a, n)
<1> DEFINE S(x, k) == PciTurn(loop, bus, x, k)
           Turns(f, l) == /\ f[0] = a
                          /\ \A k \in 1 .. l : f[k] = S(f[k - 1], k)
           Is(f) == f = [k \in 0 .. n |-> IF k = 0 THEN a ELSE S(f[k - 1], k)]
<1> HIDE DEF S
<1>1. \A l \in 0 .. n : \E f : Turns(f, l)
  <2> DEFINE B == {l \in 0 .. n : ~ \E f : Turns(f, l)}
  <2> SUFFICES ASSUME B # {} PROVE FALSE
    OBVIOUS
  <2>1. B \in SUBSET Nat
    OBVIOUS
  <2>2. PICK l \in B : \A k \in B : l <= k
    BY <2>1, LeastNumber
  <2>3. l # 0
    <3> SUFFICES Turns([k \in 0 .. 0 |-> a], 0)
      OBVIOUS
    <3> QED
      OBVIOUS
  <2> DEFINE h == l - 1
  <2>4. h \in 0 .. n /\ h \notin B /\ h + 1 = l /\ l \in 0 .. n
    <3>1. l \in 0 .. n
      OBVIOUS
    <3>2. h \in 0 .. n /\ h + 1 = l /\ ~ (l <= h)
      BY <2>3, <3>1
    <3> HIDE DEF h, B
    <3> QED
      BY <2>2, <3>1, <3>2
  <2>5. PICK f : Turns(f, h)
    BY <2>4
  <2> DEFINE w == [k \in 0 .. l |-> IF k = l THEN S(f[h], l) ELSE f[k]]
  <2> HIDE DEF h, B
  <2>6. \A k \in 0 .. h : w[k] = f[k]
    BY <2>4
  <2>7. w[l] = S(f[h], l)
    BY <2>4
  <2> HIDE DEF w
  <2>8. w[0] = a
    BY <2>4, <2>5, <2>6
  <2>9. ASSUME NEW k \in 1 .. l PROVE w[k] = S(w[k - 1], k)
    <3>1. CASE k = l
      <4>1. k - 1 = h /\ h \in 0 .. h
        BY <2>4, <3>1
      <4> QED
        BY <2>6, <2>7, <3>1, <4>1
    <3>2. CASE k # l
      <4>1. k \in 1 .. h /\ k \in 0 .. h /\ k - 1 \in 0 .. h
        BY <2>4, <3>2
      <4> QED
        BY <2>5, <2>6, <4>1
    <3> QED
      BY <3>1, <3>2
  <2>10. Turns(w, l)
    BY <2>8, <2>9
  <2> QED
    BY <2>2, <2>10 DEF B
<1>2. \E f : Is(f)
  <2>1. PICK f : Turns(f, n)
    <3> HIDE DEF Turns
    <3> QED
      BY <1>1
  <2> DEFINE e == [k \in 0 .. n |-> f[k]]
             d == [k \in 0 .. n |-> IF k = 0 THEN a ELSE S(e[k - 1], k)]
  <2>2. \A k \in 0 .. n : k = 0 \/ (k \in 1 .. n /\ k - 1 \in 0 .. n)
    OBVIOUS
  <2>3. \A k \in 0 .. n : d[k] = e[k]
    BY <2>1, <2>2
  <2>4. d = [k \in 0 .. n |-> d[k]] /\ e = [k \in 0 .. n |-> e[k]]
    OBVIOUS
  <2> HIDE DEF d, e
  <2>5. d = e
    BY <2>3, <2>4
  <2>6. Is(e)
    BY <2>5 DEF d
  <2> HIDE DEF Is
  <2> QED
    BY <2>6
<1> QED
  BY <1>2 DEF S, PciLoop

\* Devices and functions are numbered without gaps.
PciPlace(f) == f.dev * FUNCTIONS + f.fn

\* Dividing a place by the number of functions gives back the device.
LEMMA PlaceSplits ==
    ASSUME NEW p \in Nat
    PROVE  /\ p \div FUNCTIONS \in Nat /\ p % FUNCTIONS \in 0 .. FUNCTIONS - 1
           /\ p = (p \div FUNCTIONS) * FUNCTIONS + (p % FUNCTIONS)
<1> DEFINE F == FUNCTIONS
<1>1. F \in Nat \ {0}
  BY PciAssumption
<1> HIDE DEF F
<1>2. /\ p \div F \in Nat /\ p % F \in 0 .. F - 1
      /\ p = F * (p \div F) + (p % F)
  BY <1>1
<1> DEFINE q == p \div F
<1>3. q \in Nat
  BY <1>2
<1> HIDE DEF q
<1>4. F * q = q * F
  BY <1>1, <1>3
<1> QED
  BY <1>2, <1>4 DEF F, q

\* No two pairs have the same place.
LEMMA PlacesDiffer ==
    ASSUME NEW a \in Nat, NEW c \in Nat, NEW b \in 0 .. FUNCTIONS - 1, NEW d \in 0 .. FUNCTIONS - 1,
           a * FUNCTIONS + b = c * FUNCTIONS + d
    PROVE  a = c /\ b = d
<1> DEFINE F == FUNCTIONS
<1>1. F \in Nat \ {0} /\ b \in 0 .. F - 1 /\ d \in 0 .. F - 1 /\ a * F + b = c * F + d
  BY PciAssumption
<1> HIDE DEF F
<1>2. ASSUME NEW x \in Nat, NEW y \in Nat, x < y PROVE x * F + F <= y * F /\ x * F \in Nat /\ y * F \in Nat
  <2>1. PICK z \in Nat : y = x + 1 + z
    <3>1. y - x - 1 \in Nat /\ y = x + 1 + (y - x - 1)
      BY <1>2
    <3> QED
      BY <3>1
  <2>2. y * F = x * F + F + z * F /\ z * F \in Nat /\ x * F \in Nat
    BY <1>1, <2>1
  <2> QED
    BY <1>1, <2>2
<1>3. a * F \in Nat /\ c * F \in Nat
  BY <1>1
<1>4. ~(a < c)
  <2> SUFFICES ASSUME a < c PROVE FALSE
    OBVIOUS
  <2>1. a * F + F <= c * F
    BY <1>2
  <2> DEFINE u == a * F  v == c * F
  <2> HIDE DEF u, v
  <2>2. u \in Nat /\ v \in Nat /\ u + F <= v /\ u + b = v + d
    BY <1>1, <1>3, <2>1 DEF u, v
  <2> QED
    BY <1>1, <2>2
<1>5. ~(c < a)
  <2> SUFFICES ASSUME c < a PROVE FALSE
    OBVIOUS
  <2>1. c * F + F <= a * F
    BY <1>2
  <2> DEFINE u == a * F  v == c * F
  <2> HIDE DEF u, v
  <2>2. u \in Nat /\ v \in Nat /\ v + F <= u /\ u + b = v + d
    BY <1>1, <1>3, <2>1 DEF u, v
  <2> QED
    BY <1>1, <2>2
<1>6. a = c
  BY <1>4, <1>5
<1> DEFINE u == a * F
<1>7. u \in Nat /\ u + b = u + d
  BY <1>1, <1>3, <1>6
<1> HIDE DEF u
<1> QED
  BY <1>1, <1>6, <1>7

\* A function has a place below the end of the loops.
LEMMA PlaceIs ==
    ASSUME machine \in Machines, NEW f \in machine
    PROVE  /\ f.bus \in Nat /\ f.dev \in Nat /\ f.fn \in 0 .. FUNCTIONS - 1 /\ f.secondary \in Nat
           /\ PciPlace(f) \in Nat /\ PciPlace(f) < DEVICES * FUNCTIONS
<1> DEFINE F == FUNCTIONS  D == DEVICES  x == f.dev  y == f.fn
<1>1. F \in Nat \ {0} /\ D \in Nat \ {0} /\ x \in 0 .. D - 1 /\ y \in 0 .. F - 1
      /\ f.bus \in Nat /\ f.secondary \in Nat
  BY PciAssumption
<1>2. PciPlace(f) = x * F + y
  BY DEF PciPlace
<1> HIDE DEF F, D, x, y
<1>3. PICK z \in Nat : D = x + 1 + z
  <2>1. D - x - 1 \in Nat /\ D = x + 1 + (D - x - 1)
    BY <1>1
  <2> QED
    BY <2>1
<1>4. D * F = x * F + F + z * F /\ z * F \in Nat /\ x * F \in Nat
  BY <1>1, <1>3
<1> DEFINE u == x * F  v == z * F
<1> HIDE DEF u, v
<1>5. u \in Nat /\ v \in Nat /\ D * F = u + F + v /\ PciPlace(f) = u + y
  BY <1>2, <1>4 DEF u, v
<1>6. PciPlace(f) \in Nat /\ PciPlace(f) < D * F
  BY <1>1, <1>5
<1> QED
  BY <1>1, <1>6 DEF F, D, x, y

\* What the code finds at a place: the function there, if it answers.
LEMMA FoundAt ==
    ASSUME machine \in Machines, NEW bus \in Nat, NEW p \in Nat, NEW list
    PROVE  \/ /\ scan_place(list, bus, p) = list
              /\ Len(list) >= MAX_PCI_DEVICES \/ ~ \E f \in Answers : f.bus = bus /\ PciPlace(f) = p
           \/ \E f \in Answers : /\ f.bus = bus /\ PciPlace(f) = p
                                 /\ ~(Len(list) >= MAX_PCI_DEVICES)
                                 /\ scan_place(list, bus, p) = Append(list, f)
<1> DEFINE dev == p \div FUNCTIONS
           fn  == p % FUNCTIONS
           blank == skips_function(bus, dev, fn) \/ ~present(bus, dev, fn)
           g == function_at(bus, dev, fn)
<1>1. dev \in Nat /\ fn \in 0 .. FUNCTIONS - 1 /\ p = dev * FUNCTIONS + fn
  BY PlaceSplits
<1>2. scan_place(list, bus, p) = IF blank \/ Len(list) >= MAX_PCI_DEVICES THEN list ELSE Append(list, g)
  BY DEF scan_place
<1> HIDE DEF dev, fn
<1>3. ASSUME NEW f \in Answers, f.bus = bus, PciPlace(f) = p PROVE ~blank
  <2>1. f \in machine /\ (f.fn > 0 => present(f.bus, f.dev, 0) /\ function_at(f.bus, f.dev, 0).multifunction)
    BY DEF Answers
  <2>2. f.dev = dev /\ f.fn = fn
    BY <1>1, <1>3, <2>1, PlaceIs, PlacesDiffer DEF PciPlace
  <2>3. present(bus, dev, fn)
    BY <1>3, <2>1, <2>2 DEF present
  <2> QED
    BY <1>3, <2>1, <2>2, <2>3 DEF skips_function
<1>4. ASSUME ~blank PROVE g \in Answers /\ g.bus = bus /\ PciPlace(g) = p
  <2>1. \E f \in machine : f.bus = bus /\ f.dev = dev /\ f.fn = fn
    BY <1>4 DEF present
  <2>2. g \in machine /\ g.bus = bus /\ g.dev = dev /\ g.fn = fn
    BY <2>1 DEF function_at
  <2>3. fn > 0 => present(bus, dev, 0) /\ function_at(bus, dev, 0).multifunction
    BY <1>4 DEF skips_function
  <2> HIDE DEF g
  <2> QED
    BY <1>1, <2>2, <2>3 DEF Answers, PciPlace
<1> HIDE DEF blank, g
<1> QED
  BY <1>2, <1>3, <1>4

\* The list r after n places of a bus: what was there, then what answers, in
\* the order of places, and all of it unless the table is full.
Scans(list, bus, r, n) ==
    /\ r \in Seq(Answers) /\ Len(list) <= Len(r) /\ Len(r) <= MAX_PCI_DEVICES
    /\ \A i \in 1 .. Len(list) : r[i] = list[i]
    /\ \A i \in Len(list) + 1 .. Len(r) : r[i].bus = bus /\ PciPlace(r[i]) < n
    /\ \A i, j \in Len(list) + 1 .. Len(r) : i < j => PciPlace(r[i]) < PciPlace(r[j])
    /\ \/ Len(r) = MAX_PCI_DEVICES
       \/ \A f \in Answers : f.bus = bus /\ PciPlace(f) < n =>
            \E i \in Len(list) + 1 .. Len(r) : r[i] = f

\* One place more.
LEMMA ScanTurns ==
    ASSUME machine \in Machines, NEW bus \in Nat, NEW list \in Seq(Answers), NEW r, NEW p \in Nat,
           Scans(list, bus, r, p)
    PROVE  Scans(list, bus, scan_place(r, bus, p), p + 1)
<1> DEFINE L == Len(list)  M == MAX_PCI_DEVICES
<1>1. L \in Nat /\ M \in Nat /\ r \in Seq(Answers) /\ Len(r) \in Nat /\ L <= Len(r) /\ Len(r) <= M
  BY PciAssumption DEF Scans
<1>2. \A f \in Answers : PciPlace(f) \in Nat
  BY PlaceIs DEF Answers
<1>3. \A i \in 1 .. Len(r) : r[i] \in Answers
  BY <1>1
<1>4. CASE /\ scan_place(r, bus, p) = r
           /\ Len(r) >= M \/ ~ \E f \in Answers : f.bus = bus /\ PciPlace(f) = p
  <2>1. \A i \in L + 1 .. Len(r) : PciPlace(r[i]) < p + 1
    <3> SUFFICES ASSUME NEW i \in L + 1 .. Len(r) PROVE PciPlace(r[i]) < p + 1
      OBVIOUS
    <3>1. PciPlace(r[i]) < p
      BY DEF Scans
    <3>2. i \in 1 .. Len(r)
      BY <1>1
    <3>3. PciPlace(r[i]) \in Nat
      BY <1>2, <1>3, <3>2
    <3> QED
      BY <3>1, <3>3
  <2>2. \/ Len(r) = M
        \/ \A f \in Answers : f.bus = bus /\ PciPlace(f) < p + 1 => \E i \in L + 1 .. Len(r) : r[i] = f
    <3>1. CASE Len(r) >= M
      BY <1>1, <3>1
    <3>2. CASE ~(Len(r) >= M)
      <4> SUFFICES ASSUME NEW f \in Answers, f.bus = bus, PciPlace(f) < p + 1
                   PROVE  \E i \in L + 1 .. Len(r) : r[i] = f
        OBVIOUS
      <4>1. PciPlace(f) < p
        BY <1>2, <1>4, <3>2
      <4> QED
        BY <1>1, <3>2, <4>1 DEF Scans
    <3> QED
      BY <3>1, <3>2
  <2> QED
    BY <1>4, <2>1, <2>2 DEF Scans
<1>5. ASSUME NEW f \in Answers, f.bus = bus, PciPlace(f) = p, ~(Len(r) >= M),
             scan_place(r, bus, p) = Append(r, f)
      PROVE  Scans(list, bus, Append(r, f), p + 1)
  <2> DEFINE s == Append(r, f)
  <2>1. /\ s \in Seq(Answers) /\ Len(s) = Len(r) + 1 /\ s[Len(r) + 1] = f
        /\ \A i \in 1 .. Len(r) : s[i] = r[i]
    BY <1>1
  <2> HIDE DEF s
  <2>2. L <= Len(s) /\ Len(s) <= M
    BY <1>1, <1>5, <2>1
  <2>3. \A i \in 1 .. L : s[i] = list[i]
    <3> SUFFICES ASSUME NEW i \in 1 .. L PROVE s[i] = list[i]
      OBVIOUS
    <3>1. i \in 1 .. Len(r) /\ r[i] = list[i]
      BY <1>1 DEF Scans
    <3> QED
      BY <2>1, <3>1
  <2>4. \A i \in L + 1 .. Len(s) :
          i = Len(r) + 1 \/ (i \in L + 1 .. Len(r) /\ i \in 1 .. Len(r) /\ s[i] = r[i])
    BY <1>1, <2>1
  <2>5. \A i \in L + 1 .. Len(r) : r[i].bus = bus /\ PciPlace(r[i]) < p /\ PciPlace(r[i]) \in Nat
    <3> SUFFICES ASSUME NEW i \in L + 1 .. Len(r)
                 PROVE  r[i].bus = bus /\ PciPlace(r[i]) < p /\ PciPlace(r[i]) \in Nat
      OBVIOUS
    <3>1. i \in 1 .. Len(r)
      BY <1>1
    <3> QED
      BY <1>2, <1>3, <3>1 DEF Scans
  <2>6. \A i \in L + 1 .. Len(s) : s[i].bus = bus /\ PciPlace(s[i]) < p + 1
    <3> SUFFICES ASSUME NEW i \in L + 1 .. Len(s) PROVE s[i].bus = bus /\ PciPlace(s[i]) < p + 1
      OBVIOUS
    <3>1. CASE i = Len(r) + 1
      BY <1>5, <2>1, <3>1
    <3>2. CASE i # Len(r) + 1
      BY <2>4, <2>5, <3>2
    <3> QED
      BY <3>1, <3>2
  <2>7. \A i, j \in L + 1 .. Len(s) : i < j => PciPlace(s[i]) < PciPlace(s[j])
    <3> SUFFICES ASSUME NEW i \in L + 1 .. Len(s), NEW j \in L + 1 .. Len(s), i < j
                 PROVE  PciPlace(s[i]) < PciPlace(s[j])
      OBVIOUS
    <3>1. i \in L + 1 .. Len(r) /\ s[i] = r[i]
      BY <1>1, <2>1, <2>4
    <3>2. CASE j = Len(r) + 1
      BY <1>5, <2>1, <2>5, <3>1, <3>2
    <3>3. CASE j # Len(r) + 1
      BY <2>4, <3>1, <3>3 DEF Scans
    <3> QED
      BY <3>2, <3>3
  <2>8. \A g \in Answers : g.bus = bus /\ PciPlace(g) < p + 1 => \E i \in L + 1 .. Len(s) : s[i] = g
    <3> SUFFICES ASSUME NEW g \in Answers, g.bus = bus, PciPlace(g) < p + 1
                 PROVE  \E i \in L + 1 .. Len(s) : s[i] = g
      OBVIOUS
    <3>1. CASE PciPlace(g) = p
      <4>1. g \in machine /\ f \in machine
        BY DEF Answers
      <4>2. g.dev = f.dev /\ g.fn = f.fn
        BY <1>5, <3>1, <4>1, PlaceIs, PlacesDiffer DEF PciPlace
      <4>3. g = f
        BY <1>5, <4>1, <4>2, PciAssumption
      <4> QED
        BY <1>1, <2>1, <4>3
    <3>2. CASE PciPlace(g) # p
      <4>1. PciPlace(g) < p
        BY <1>2, <3>2
      <4>2. PICK i \in L + 1 .. Len(r) : r[i] = g
        BY <1>1, <1>5, <4>1 DEF Scans
      <4> QED
        BY <1>1, <2>1, <4>2
    <3> QED
      BY <3>1, <3>2
  <2> QED
    BY <2>1, <2>2, <2>3, <2>6, <2>7, <2>8 DEF Scans, s
<1>6. ASSUME NEW f \in Answers, f.bus = bus, PciPlace(f) = p, ~(Len(r) >= M),
             scan_place(r, bus, p) = Append(r, f)
      PROVE  Scans(list, bus, scan_place(r, bus, p), p + 1)
  BY <1>5, <1>6
<1>7. \/ /\ scan_place(r, bus, p) = r
         /\ Len(r) >= M \/ ~ \E f \in Answers : f.bus = bus /\ PciPlace(f) = p
      \/ \E f \in Answers : /\ f.bus = bus /\ PciPlace(f) = p /\ ~(Len(r) >= M)
                            /\ scan_place(r, bus, p) = Append(r, f)
  BY FoundAt
<1> HIDE DEF M
<1> QED
  BY <1>4, <1>6, <1>7, Zenon

\* All places of a bus.
LEMMA ScanBusIs ==
    ASSUME machine \in Machines, NEW bus \in Nat, NEW list \in Seq(Answers),
           Len(list) <= MAX_PCI_DEVICES
    PROVE  Scans(list, bus, pci_device_scan_bus(list, bus), DEVICES * FUNCTIONS)
<1> DEFINE n == DEVICES * FUNCTIONS
           Is(f) == f = [k \in 0 .. n |-> IF k = 0 THEN list ELSE scan_place(f[k - 1], bus, k - 1)]
           g == CHOOSE f : Is(f)
<1>1. n \in Nat
  BY PciAssumption
<1>2. pci_device_scan_bus(list, bus) = g[n]
  BY DEF pci_device_scan_bus
<1>3. \E f : Is(f)
  <2> HIDE DEF n
  <2>1. \E f : PciLoop(f, "scan", bus, list, n)
    BY <1>1, PciLoopIs
  <2> QED
    BY <2>1 DEF PciLoop, PciTurn
<1>4. Is(g)
  <2> HIDE DEF Is
  <2> QED
    BY <1>3
<1> HIDE DEF g, n
<1>5. g[0] = list /\ \A k \in 1 .. n : g[k] = scan_place(g[k - 1], bus, k - 1)
  <2>1. \A k \in 0 .. n : g[k] = IF k = 0 THEN list ELSE scan_place(g[k - 1], bus, k - 1)
    BY <1>4
  <2>2. 0 \in 0 .. n /\ \A k \in 1 .. n : k \in 0 .. n /\ k # 0
    BY <1>1
  <2> QED
    BY <2>1, <2>2
<1>6. Scans(list, bus, g[0], 0)
  <2>1. \A f \in Answers : PciPlace(f) \in Nat
    BY PlaceIs DEF Answers
  <2> QED
    BY <1>5, <2>1 DEF Scans
<1> DEFINE B == {k \in 0 .. n : ~Scans(list, bus, g[k], k)}
<1>7. B = {}
  <2> SUFFICES ASSUME B # {} PROVE FALSE
    OBVIOUS
  <2>1. B \in SUBSET Nat
    OBVIOUS
  <2>2. PICK l \in B : \A k \in B : l <= k
    BY <2>1, LeastNumber
  <2> DEFINE h == l - 1
  <2>3. l \in 1 .. n /\ h \in 0 .. n /\ ~(l <= h) /\ h + 1 = l /\ h \in Nat
    BY <1>1, <1>6
  <2>4. h \notin B
    <3> HIDE DEF h, B
    <3> QED
      BY <2>2, <2>3
  <2>5. Scans(list, bus, g[h], h)
    BY <2>3, <2>4
  <2>6. g[l] = scan_place(g[h], bus, h)
    BY <1>5, <2>3
  <2> HIDE DEF h
  <2>7. Scans(list, bus, g[l], l)
    BY <2>3, <2>5, <2>6, ScanTurns
  <2> QED
    BY <2>7
<1> QED
  BY <1>1, <1>2, <1>7 DEF n

\* What a scan of a bus adds to l entries: every function that answers, once,
\* unless the table is full.
Adds(list, l, bus, r) ==
    /\ r \in Seq(Answers) /\ l <= Len(r) /\ Len(r) <= MAX_PCI_DEVICES
    /\ \A i \in 1 .. l : r[i] = list[i]
    /\ \A i \in l + 1 .. Len(r) : r[i].bus = bus
    /\ \A i, j \in l + 1 .. Len(r) : r[i] = r[j] => i = j
    /\ \/ Len(r) = MAX_PCI_DEVICES
       \/ \A f \in Answers : f.bus = bus => \E i \in l + 1 .. Len(r) : r[i] = f

\* That is what pci_device_scan_bus does.
LEMMA ScanAdds ==
    ASSUME machine \in Machines, NEW bus \in Nat, NEW list \in Seq(Answers), NEW l, l = Len(list),
           l <= MAX_PCI_DEVICES
    PROVE  Adds(list, l, bus, pci_device_scan_bus(list, bus))
<1> DEFINE r == pci_device_scan_bus(list, bus)
<1> DEFINE n == DEVICES * FUNCTIONS
<1>1. Scans(list, bus, r, n)
  BY ScanBusIs
<1> HIDE DEF r
<1>2. \A f \in Answers : PciPlace(f) \in Nat /\ PciPlace(f) < n
  BY PlaceIs DEF Answers
<1> HIDE DEF n
<1>3. \A i, j \in Len(list) + 1 .. Len(r) : r[i] = r[j] => i = j
  <2> SUFFICES ASSUME NEW i \in Len(list) + 1 .. Len(r), NEW j \in Len(list) + 1 .. Len(r), r[i] = r[j]
               PROVE  i = j
    OBVIOUS
  <2>0. Len(list) \in Nat /\ r \in Seq(Answers) /\ Len(r) \in Nat
    BY <1>1 DEF Scans
  <2>1. i \in Nat /\ j \in Nat /\ i \in 1 .. Len(r)
    BY <2>0
  <2>2. PciPlace(r[i]) \in Nat
    BY <1>2, <2>0, <2>1
  <2>3. ~(i < j) /\ ~(j < i)
    BY <1>1, <2>2 DEF Scans
  <2> QED
    BY <2>1, <2>3
<1> QED
  BY <1>1, <1>2, <1>3 DEF Scans, Adds, r

\* The buses scanned so far: the first, and those of the bridges followed.
PciStop == IF scanning = "bridges" THEN index ELSE Len(devices) + 1
Scanned(bus) ==
    \/ bus = 0
    \/ \E j \in 1 .. Len(devices) : /\ j < PciStop /\ follows(devices[j])
                                    /\ devices[j].secondary = bus
\* The list: every entry is on bus 0 or behind an earlier one, and all that
\* answers on those buses is in it, unless it is full.
Listing ==
    /\ \A i \in 1 .. Len(devices) :
         \/ devices[i].bus = 0
         \/ \E j \in 1 .. Len(devices) : /\ j < i /\ j < PciStop /\ follows(devices[j])
                                         /\ devices[j].secondary = devices[i].bus
    /\ \/ Len(devices) = MAX_PCI_DEVICES
       \/ \A f \in Answers : Scanned(f.bus) => \E i \in 1 .. Len(devices) : devices[i] = f
PciDistinct == \A i, j \in 1 .. Len(devices) : devices[i] = devices[j] => i = j
Counted(n) == {i \in 1 .. n : pcie_is_device(devices[i])}

PciInv ==
    /\ machine \in Machines /\ devices \in Seq(Answers) /\ Len(devices) <= MAX_PCI_DEVICES
    /\ scanning \in {"bus 0", "bridges", "count", "done"}
    /\ index \in 1 .. Len(devices) + 1
    /\ scanning = "bus 0" => devices = <<>> /\ index = 1
    /\ scanning # "bus 0" => Listing
    /\ scanning \in {"bus 0", "bridges"} => pcie_count = 0
    /\ scanning = "count" => pcie_count = Cardinality(Counted(index - 1))
    /\ scanning = "done" => pcie_count = Cardinality(Counted(Len(devices)))
    /\ Numbered => PciDistinct

\* A bridge the code follows is one of those the numbering is about.
LEMMA FollowsIs ==
    ASSUME NEW f \in Answers
    PROVE  follows(f) <=> f \in Bridges
BY DEF follows, Bridges

\* The first bus.
LEMMA PciFirst ==
    ASSUME PciInv, scan_primary
    PROVE  PciInv'
<1>1. /\ machine' = machine /\ index' = 1 /\ pcie_count' = 0 /\ scanning' = "bridges"
      /\ machine \in Machines /\ devices' = pci_device_scan_bus(<<>>, 0)
  BY DEF PciInv, scan_primary
<1>2. <<>> \in Seq(Answers) /\ Len(<<>>) = 0 /\ 0 \in Nat /\ MAX_PCI_DEVICES \in Nat /\ 0 <= MAX_PCI_DEVICES
  BY PciAssumption
<1> DEFINE d == devices'
<1>0. Adds(<<>>, 0, 0, d)
  BY <1>1, <1>2, ScanAdds
<1> HIDE DEF d
<1>3. /\ d \in Seq(Answers) /\ Len(d) <= MAX_PCI_DEVICES
      /\ \A i \in 0 + 1 .. Len(d) : d[i].bus = 0
      /\ \A i, j \in 0 + 1 .. Len(d) : d[i] = d[j] => i = j
      /\ \/ Len(d) = MAX_PCI_DEVICES
         \/ \A f \in Answers : f.bus = 0 => \E i \in 0 + 1 .. Len(d) : d[i] = f
  BY <1>0 DEF Adds
<1>4. Answers' = Answers /\ Numbered' = Numbered
  BY <1>1 DEF Answers, Numbered, Bridges, present, function_at
<1>5. Listing'
  <2>1. \A f \in Answers : Scanned(f.bus)' => f.bus = 0
    BY <1>1 DEF Scanned, PciStop
  <2> HIDE DEF d
  <2> QED
    BY <1>3, <1>4, <2>1 DEF Listing, d
<1>6. PciDistinct'
  BY <1>3 DEF PciDistinct, d
<1>7. Len(d) \in Nat
  BY <1>3
<1>8. 1 \in 1 .. Len(d) + 1
  BY <1>7
<1> QED
  BY <1>1, <1>3, <1>4, <1>5, <1>6, <1>8 DEF PciInv, d

\* One turn of the loop over bridges.
LEMMA PciFollow ==
    ASSUME PciInv, pci_device_init
    PROVE  PciInv'
<1> DEFINE d == devices  e == devices'  L == Len(devices)  M == MAX_PCI_DEVICES
<1>1. /\ machine' = machine /\ pcie_count' = 0 /\ scanning = "bridges" /\ machine \in Machines
      /\ d \in Seq(Answers) /\ L \in Nat /\ L <= M /\ M \in Nat /\ index \in 1 .. L + 1 /\ Listing
      /\ Numbered => PciDistinct
  BY PciAssumption DEF PciInv, pci_device_init
<1>2. Answers' = Answers /\ Numbered' = Numbered /\ Bridges' = Bridges
  BY <1>1 DEF Answers, Numbered, Bridges, present, function_at
<1>3. CASE index > L
  <2>1. scanning' = "count" /\ index' = 1 /\ devices' = devices
    BY <1>3 DEF pci_device_init
  <2>2. PciStop = PciStop'
    BY <1>1, <1>3, <2>1 DEF PciStop
  <2>3. Listing'
    BY <1>1, <1>2, <2>1, <2>2 DEF Listing, Scanned
  <2>4. PciDistinct' = PciDistinct
    BY <2>1 DEF PciDistinct
  <2>5. Counted(index - 1)' = {}
    BY <2>1 DEF Counted
  <2>6. Cardinality({}) = 0
    BY FS_EmptySet
  <2>7. scanning' = "count" => pcie_count' = Cardinality(Counted(index - 1)')
    BY <1>1, <2>5, <2>6
  <2> QED
    BY <1>1, <1>2, <2>1, <2>3, <2>4, <2>7 DEF PciInv
<1>4. CASE ~(index > L) /\ ~follows(devices[index])
  <2>1. scanning' = "bridges" /\ index' = index + 1 /\ devices' = devices
    BY <1>1, <1>4 DEF pci_device_init
  <2>2. PciStop = index /\ PciStop' = index + 1
    BY <1>1, <2>1 DEF PciStop
  <2>3. \A j \in 1 .. L : follows(d[j]) => (j < index <=> j < index + 1)
    BY <1>1, <1>4
  <2>4. \A bus : Scanned(bus)' <=> Scanned(bus)
    BY <2>1, <2>2, <2>3 DEF Scanned
  <2>5. Listing'
    BY <1>1, <1>2, <2>1, <2>2, <2>3, <2>4 DEF Listing
  <2>6. PciDistinct' = PciDistinct
    BY <2>1 DEF PciDistinct
  <2>7. index' \in 1 .. L + 1
    BY <1>1, <1>4, <2>1
  <2> QED
    BY <1>1, <1>2, <2>1, <2>5, <2>6, <2>7 DEF PciInv
<1>5. CASE ~(index > L) /\ follows(devices[index])
  <2> DEFINE b == devices[index]
  <2>1. /\ scanning' = "bridges" /\ index' = index + 1
        /\ devices' = pci_device_scan_bus(devices, b.secondary)
    BY <1>1, <1>5 DEF pci_device_init
  <2>2. index \in 1 .. L /\ b \in Answers /\ b \in Bridges /\ b.secondary \in Nat /\ b.secondary > 0
    <3>1. index \in 1 .. L /\ b \in Answers
      BY <1>1, <1>5
    <3>2. b \in machine
      BY <3>1 DEF Answers
    <3> QED
      BY <1>1, <1>5, <3>1, <3>2, PlaceIs, FollowsIs DEF follows
  <2> DEFINE s == b.secondary
  <2>3. /\ e \in Seq(Answers) /\ L <= Len(e) /\ Len(e) <= M
        /\ \A i \in 1 .. L : e[i] = d[i]
        /\ \A i \in L + 1 .. Len(e) : e[i].bus = s
        /\ \A i, j \in L + 1 .. Len(e) : e[i] = e[j] => i = j
        /\ \/ Len(e) = M
           \/ \A f \in Answers : f.bus = s => \E i \in L + 1 .. Len(e) : e[i] = f
    <3>1. Adds(d, L, s, e)
      BY <1>1, <2>1, <2>2, ScanAdds
    <3> HIDE DEF d, L, s, e
    <3> QED
      BY <3>1 DEF Adds
  <2>4. Len(e) \in Nat
    BY <2>3
  <2>5. PciStop = index /\ PciStop' = index + 1
    BY <1>1, <2>1 DEF PciStop
  <2>6. e[index] = b
    BY <2>2, <2>3
  <2> HIDE DEF e, d, s, b, L
  <2>7. \A i \in 1 .. Len(e) : i \in 1 .. L \/ i \in L + 1 .. Len(e)
    BY <1>1, <2>4
  <2>8. \A i \in 1 .. L : i \in 1 .. Len(e) /\ e[i] = d[i]
    BY <1>1, <2>3, <2>4
  <2>9. \A i \in 1 .. Len(e) :
          \/ e[i].bus = 0
          \/ \E j \in 1 .. Len(e) : j < i /\ j < index + 1 /\ follows(e[j]) /\ e[j].secondary = e[i].bus
    <3> SUFFICES ASSUME NEW i \in 1 .. Len(e), e[i].bus # 0
                 PROVE  \E j \in 1 .. Len(e) : /\ j < i /\ j < index + 1 /\ follows(e[j])
                                               /\ e[j].secondary = e[i].bus
      OBVIOUS
    <3>1. CASE i \in 1 .. L
      <4>1. PICK j \in 1 .. L : j < i /\ j < index /\ follows(d[j]) /\ d[j].secondary = d[i].bus
        BY <1>1, <2>5, <2>8, <3>1 DEF Listing, d, L
      <4>2. j \in 1 .. Len(e) /\ e[j] = d[j] /\ e[i] = d[i] /\ j < index + 1
        BY <1>1, <2>8, <3>1, <4>1
      <4> QED
        BY <4>1, <4>2
    <3>2. CASE i \in L + 1 .. Len(e)
      <4>1. index < i /\ index \in 1 .. Len(e) /\ index < index + 1
        BY <1>1, <2>2, <2>4, <3>2
      <4>2. e[i].bus = s /\ follows(e[index]) /\ e[index].secondary = s
        BY <1>5, <2>3, <2>6, <3>2 DEF s, b
      <4> QED
        BY <4>1, <4>2
    <3> QED
      BY <2>7, <3>1, <3>2
  <2>10. ASSUME NEW bus, Scanned(bus)' PROVE bus = s \/ Scanned(bus)
    <3>1. CASE bus = 0
      BY <3>1 DEF Scanned
    <3>2. CASE bus # 0
      <4>1. PICK j \in 1 .. Len(e) : j < index + 1 /\ follows(e[j]) /\ e[j].secondary = bus
        BY <2>5, <2>10, <3>2 DEF Scanned, e
      <4>2. j \in 1 .. L /\ (j = index \/ j < index)
        BY <1>1, <2>2, <2>4, <4>1
      <4>3. CASE j = index
        BY <2>6, <4>1, <4>3 DEF s
      <4>4. CASE j < index
        BY <2>5, <2>8, <4>1, <4>2, <4>4 DEF Scanned, d, L
      <4> QED
        BY <4>2, <4>3, <4>4
    <3> QED
      BY <3>1, <3>2
  <2>11. Len(e) = M \/ \A f \in Answers : Scanned(f.bus)' => \E i \in 1 .. Len(e) : e[i] = f
    <3> SUFFICES ASSUME Len(e) # M, NEW f \in Answers, Scanned(f.bus)'
                 PROVE  \E i \in 1 .. Len(e) : e[i] = f
      OBVIOUS
    <3>1. CASE f.bus = s
      <4>1. PICK i \in L + 1 .. Len(e) : e[i] = f
        BY <2>3, <3>1
      <4>2. i \in 1 .. Len(e)
        BY <1>1, <2>4
      <4> QED
        BY <4>1, <4>2
    <3>2. CASE Scanned(f.bus)
      <4>1. L # M
        BY <1>1, <2>3, <2>4
      <4>2. PICK i \in 1 .. L : d[i] = f
        BY <1>1, <3>2, <4>1 DEF Listing, d, L
      <4> QED
        BY <2>8, <4>2
    <3> QED
      BY <2>10, <3>1, <3>2
  <2>12. Listing'
    BY <1>2, <2>5, <2>9, <2>11 DEF Listing, e
  <2>13. ASSUME Numbered PROVE PciDistinct'
    <3>0. \A i, j \in 1 .. L : d[i] = d[j] => i = j
      BY <1>1, <2>13 DEF PciDistinct, d, L
    <3>1. ASSUME NEW i \in 1 .. L, NEW k \in L + 1 .. Len(e) PROVE e[i] # e[k]
      <4> SUFFICES ASSUME e[i] = e[k] PROVE FALSE
        OBVIOUS
      <4>1. d[i].bus = s /\ s \in Nat /\ s # 0
        BY <2>2, <2>3, <2>8, <3>1 DEF s
      <4>2. PICK j \in 1 .. L : j < i /\ j < index /\ follows(d[j]) /\ d[j].secondary = s
        BY <1>1, <2>5, <3>1, <4>1 DEF Listing, d, L
      <4>3. d[j] \in Bridges
        BY <1>1, <4>2, FollowsIs DEF d, L
      <4>4. d[j] = b
        BY <2>2, <2>13, <4>2, <4>3 DEF Numbered, s
      <4>5. d[index] = b
        BY DEF d, b
      <4>6. j = index
        BY <2>2, <3>0, <4>4, <4>5
      <4> QED
        BY <1>1, <4>2, <4>6
    <3>2. \A i, j \in 1 .. Len(e) : e[i] = e[j] => i = j
      BY <2>3, <2>7, <2>8, <3>0, <3>1
    <3> QED
      BY <3>2 DEF PciDistinct, e
  <2>14. index' \in 1 .. Len(e) + 1
    BY <1>1, <2>1, <2>2, <2>3, <2>4
  <2> QED
    BY <1>1, <1>2, <2>1, <2>3, <2>12, <2>13, <2>14 DEF PciInv, e
<1> QED
  BY <1>3, <1>4, <1>5

\* One turn of the loop that counts.
LEMMA PciCount ==
    ASSUME PciInv, pci_init
    PROVE  PciInv'
<1> DEFINE L == Len(devices)
<1>1. /\ machine' = machine /\ devices' = devices /\ scanning = "count" /\ L \in Nat
      /\ index \in 1 .. L + 1 /\ pcie_count = Cardinality(Counted(index - 1))
  BY DEF PciInv, pci_init
<1>2. Answers' = Answers /\ Numbered' = Numbered /\ PciDistinct' = PciDistinct
  BY <1>1 DEF Answers, Numbered, Bridges, present, function_at, PciDistinct
<1>3. scanning' \in {"count", "done"} => Listing'
  <2>1. Listing
    BY <1>1 DEF PciInv
  <2> SUFFICES ASSUME scanning' \in {"count", "done"} PROVE Listing'
    OBVIOUS
  <2>2. PciStop' = PciStop
    BY <1>1 DEF PciStop
  <2> QED
    BY <1>1, <1>2, <2>1, <2>2 DEF Listing, Scanned
<1>4. \A n : Counted(n)' = Counted(n)
  BY <1>1 DEF Counted, pcie_is_device
<1>5. CASE index > L
  <2>1. scanning' = "done" /\ index' = index /\ pcie_count' = pcie_count
    BY <1>5 DEF pci_init
  <2>2. index - 1 = L
    BY <1>1, <1>5
  <2>3. pcie_count' = Cardinality(Counted(Len(devices))')
    BY <1>1, <1>4, <2>1, <2>2
  <2> QED
    BY <1>1, <1>2, <1>3, <2>1, <2>3 DEF PciInv
<1>6. CASE ~(index > L)
  <2>1. /\ scanning' = "count" /\ index' = index + 1
        /\ pcie_count' = pcie_count + (IF pcie_is_device(devices[index]) THEN 1 ELSE 0)
    BY <1>1, <1>6 DEF pci_init
  <2>2. index' \in 1 .. L + 1 /\ index' - 1 = index
    BY <1>1, <1>6, <2>1
  <2>3. Cardinality(Counted(index)) =
          Cardinality(Counted(index - 1)) + (IF pcie_is_device(devices[index]) THEN 1 ELSE 0)
    <3>1. index \in Nat /\ index \notin 1 .. index - 1
          /\ \A i : i \in 1 .. index <=> (i \in 1 .. index - 1 \/ i = index)
      BY <1>1
    <3>2. IsFiniteSet(1 .. index - 1)
      BY <1>1, FS_Interval
    <3>3. IsFiniteSet(Counted(index - 1)) /\ Cardinality(Counted(index - 1)) \in Nat
      <4>1. Counted(index - 1) \subseteq 1 .. index - 1
        BY DEF Counted
      <4> QED
        BY <3>2, <4>1, FS_Subset, FS_CardinalityType
    <3>4. CASE pcie_is_device(devices[index])
      <4>1. Counted(index) = Counted(index - 1) \cup {index} /\ index \notin Counted(index - 1)
        BY <3>1, <3>4 DEF Counted
      <4> QED
        BY <3>3, <3>4, <4>1, FS_AddElement
    <3>5. CASE ~pcie_is_device(devices[index])
      <4>1. Counted(index) = Counted(index - 1)
        BY <3>1, <3>5 DEF Counted
      <4> QED
        BY <3>3, <3>5, <4>1
    <3> QED
      BY <3>4, <3>5
  <2>4. pcie_count' = Cardinality(Counted(index - 1)')
    <3>1. Counted(index - 1)' = Counted(index)
      BY <1>1, <2>2 DEF Counted, pcie_is_device
    <3> QED
      BY <1>1, <2>1, <2>3, <3>1
  <2> QED
    BY <1>1, <1>2, <1>3, <2>1, <2>2, <2>4 DEF PciInv
<1> QED
  BY <1>5, <1>6

\* What can be reached, with n bridges in between.
Near(g) == /\ g[0] = {f \in Answers : f.bus = 0}
           /\ \A k \in 1 .. Cardinality(machine) : g[k] = g[k - 1] \cup behind(g[k - 1])

\* Reached is found that way.
LEMMA ReachedIs ==
    ASSUME Cardinality(machine) \in Nat
    PROVE  \E g : Near(g) /\ Reached = g[Cardinality(machine)]
<1> DEFINE n == Cardinality(machine)
           a == {f \in Answers : f.bus = 0}
           Is(f) == f = [k \in 0 .. n |-> IF k = 0 THEN a ELSE f[k - 1] \cup behind(f[k - 1])]
           g == CHOOSE f : Is(f)
<1>1. n \in Nat
  OBVIOUS
<1>2. Reached = g[n]
  BY DEF Reached
<1>3. \E f : Is(f)
  <2> HIDE DEF n, a
  <2>1. \E f : PciLoop(f, "near", 0, a, n)
    BY <1>1, PciLoopIs
  <2> QED
    BY <2>1 DEF PciLoop, PciTurn
<1>4. Is(g)
  <2> HIDE DEF Is
  <2> QED
    BY <1>3
<1> HIDE DEF g, n, a
<1>5. \A k \in 0 .. n : g[k] = IF k = 0 THEN a ELSE g[k - 1] \cup behind(g[k - 1])
  BY <1>4
<1>6. 0 \in 0 .. n /\ \A k \in 1 .. n : k \in 0 .. n /\ k # 0
  BY <1>1
<1>7. Near(g)
  BY <1>5, <1>6 DEF Near, n, a
<1> QED
  BY <1>2, <1>7 DEF n

\* More bridges reach more.
LEMMA NearGrows ==
    ASSUME NEW g, Near(g), Cardinality(machine) \in Nat, NEW i \in 0 .. Cardinality(machine),
           NEW k \in 0 .. Cardinality(machine), i <= k
    PROVE  g[i] \subseteq g[k] /\ g[k] \subseteq Answers
<1> DEFINE n == Cardinality(machine)
<1>1. /\ n \in Nat /\ g[0] \subseteq Answers /\ i \in 0 .. n /\ k \in 0 .. n
      /\ \A j \in 1 .. n : g[j] = g[j - 1] \cup behind(g[j - 1])
  BY DEF Near
<1>2. \A S : behind(S) \subseteq Answers
  BY DEF behind
<1> HIDE DEF n
<1> DEFINE B == {j \in 0 .. n : ~((i <= j => g[i] \subseteq g[j]) /\ g[j] \subseteq Answers)}
<1>3. B = {}
  <2> SUFFICES ASSUME B # {} PROVE FALSE
    OBVIOUS
  <2>1. B \in SUBSET Nat
    OBVIOUS
  <2>2. PICK l \in B : \A j \in B : l <= j
    BY <2>1, LeastNumber
  <2>3. l \in 0 .. n
    OBVIOUS
  <2>4. l # 0
    <3> SUFFICES ASSUME l = 0 PROVE FALSE
      OBVIOUS
    <3>1. i <= 0 => i = 0
      BY <1>1
    <3> QED
      BY <1>1, <3>1
  <2> DEFINE h == l - 1
  <2>5. h \in 0 .. n /\ ~(l <= h) /\ l \in 1 .. n
    BY <1>1, <2>3, <2>4
  <2>6. h \notin B
    <3> HIDE DEF h, B
    <3> QED
      BY <2>2, <2>5
  <2>7. (i <= h => g[i] \subseteq g[h]) /\ g[h] \subseteq Answers
    BY <2>5, <2>6
  <2>8. g[l] = g[h] \cup behind(g[h])
    BY <1>1, <2>5
  <2>9. i <= l => i <= h \/ i = l
    BY <1>1, <2>3
  <2> HIDE DEF h
  <2>10. (i <= l => g[i] \subseteq g[l]) /\ g[l] \subseteq Answers
    BY <1>2, <2>7, <2>8, <2>9
  <2> QED
    BY <2>10
<1> QED
  BY <1>1, <1>3

\* A list without repetition has as many members as entries.
LEMMA MembersOf ==
    ASSUME NEW T, NEW s \in Seq(T), \A i, j \in 1 .. Len(s) : s[i] = s[j] => i = j
    PROVE  /\ IsFiniteSet({s[i] : i \in 1 .. Len(s)})
           /\ Cardinality({s[i] : i \in 1 .. Len(s)}) = Len(s)
<1> DEFINE n == Len(s)
           R == {s[i] : i \in 1 .. n}
           f == [i \in 1 .. n |-> s[i]]
<1>1. n \in Nat
  OBVIOUS
<1> HIDE DEF n
<1>2. IsFiniteSet(1 .. n) /\ Cardinality(1 .. n) = n
  <2>1. 1 \in Int /\ n \in Int /\ (IF 1 > n THEN 0 ELSE n - 1 + 1) = n
    BY <1>1
  <2> QED
    BY <2>1, FS_Interval
<1>3. f \in Bijection(1 .. n, R)
  <2>1. \A i, j \in 1 .. n : s[i] = s[j] => i = j
    BY DEF n
  <2>2. f \in [1 .. n -> R] /\ \A i \in 1 .. n : f[i] = s[i]
    OBVIOUS
  <2> HIDE DEF f
  <2>3. f \in Injection(1 .. n, R)
    BY <2>1, <2>2 DEF Injection, IsInjective
  <2>4. f \in Surjection(1 .. n, R)
    BY <2>2 DEF Surjection
  <2> QED
    BY <2>3, <2>4 DEF Bijection
<1>4. IsFiniteSet(R) /\ Cardinality(R) = Cardinality(1 .. n)
  BY <1>2, <1>3, FS_Bijection, Zenon DEF ExistsBijection
<1> QED
  BY <1>2, <1>4 DEF n

\* At the end the list holds what can be reached.
LEMMA PciFound ==
    ASSUME PciInv, scanning = "done", Numbered
    PROVE  LET R == {devices[i] : i \in 1 .. Len(devices)} IN
           IF Cardinality(Reached) <= MAX_PCI_DEVICES THEN R = Reached
           ELSE Len(devices) = MAX_PCI_DEVICES
<1> DEFINE d == devices  L == Len(devices)  R == {d[i] : i \in 1 .. L}  n == Cardinality(machine)
           M == MAX_PCI_DEVICES
<1>1. /\ machine \in Machines /\ d \in Seq(Answers) /\ L \in Nat /\ L <= M /\ M \in Nat
      /\ Listing /\ PciDistinct
  BY PciAssumption DEF PciInv
<1>2. IsFiniteSet(machine) /\ n \in Nat
  BY <1>1, PciAssumption, FS_CardinalityType
<1>3. IsFiniteSet(R) /\ Cardinality(R) = L
  BY <1>1, MembersOf DEF PciDistinct
<1>4. R \subseteq Answers /\ Answers \subseteq machine
  BY <1>1 DEF Answers
<1>5. IsFiniteSet(Answers) /\ L <= n
  BY <1>2, <1>3, <1>4, FS_Subset
<1>6. PICK g : Near(g) /\ Reached = g[n]
  BY <1>2, ReachedIs
<1>7. PciStop = L + 1
  BY DEF PciStop
<1>8. /\ \A i \in 1 .. L : \/ d[i].bus = 0
                           \/ \E j \in 1 .. L : j < i /\ follows(d[j]) /\ d[j].secondary = d[i].bus
      /\ L = M \/ \A f \in Answers : Scanned(f.bus) => f \in R
  BY <1>1 DEF Listing
<1>9. \A j \in 1 .. L : d[j] \in Answers
  BY <1>1
<1>10. ASSUME NEW f \in Answers, NEW b \in R \cap Bridges, b.secondary = f.bus PROVE Scanned(f.bus)
  <2>1. PICK j \in 1 .. L : d[j] = b
    OBVIOUS
  <2>2. follows(d[j]) /\ j < PciStop
    BY <1>1, <1>7, <1>9, <1>10, <2>1, FollowsIs
  <2> QED
    BY <1>10, <2>1, <2>2 DEF Scanned
<1> HIDE DEF d, L, n, M
<1>11. \A i \in 1 .. L : d[i] \in g[i - 1]
  <2> DEFINE B == {i \in 1 .. L : d[i] \notin g[i - 1]}
  <2> SUFFICES ASSUME B # {} PROVE FALSE
    OBVIOUS
  <2>1. B \in SUBSET Nat
    BY <1>1
  <2>2. PICK i \in B : \A j \in B : i <= j
    BY <2>1, LeastNumber
  <2>3. i \in 1 .. L /\ d[i] \notin g[i - 1] /\ i - 1 \in 0 .. n /\ 0 \in 0 .. n
    BY <1>1, <1>2, <1>5
  <2>4. CASE d[i].bus = 0
    <3>1. d[i] \in g[0]
      BY <1>6, <1>9, <2>3, <2>4 DEF Near
    <3>2. g[0] \subseteq g[i - 1]
      <4>1. 0 <= i - 1
        BY <2>3
      <4> QED
        BY <1>2, <1>6, <2>3, <4>1, NearGrows DEF n
    <3> QED
      BY <2>3, <3>1, <3>2
  <2>5. CASE d[i].bus # 0
    <3>1. PICK j \in 1 .. L : j < i /\ follows(d[j]) /\ d[j].secondary = d[i].bus
      BY <1>8, <2>3, <2>5
    <3>2. ~(i <= j) /\ j \in 1 .. n /\ j \in 0 .. n /\ j <= i - 1
      BY <1>1, <1>2, <1>5, <2>3, <3>1
    <3>3. d[j] \in g[j - 1]
      BY <2>2, <3>1, <3>2
    <3>4. d[j] \in Bridges /\ d[i] \in Answers
      BY <1>9, <2>3, <3>1, FollowsIs
    <3>5. d[i] \in behind(g[j - 1])
      BY <3>1, <3>3, <3>4 DEF behind
    <3>6. d[i] \in g[j]
      BY <1>6, <3>2, <3>5 DEF Near, n
    <3>7. g[j] \subseteq g[i - 1]
      BY <1>2, <1>6, <2>3, <3>2, NearGrows DEF n
    <3> QED
      BY <2>3, <3>6, <3>7
  <2> QED
    BY <2>4, <2>5
<1>12. R \subseteq Reached /\ Reached \subseteq Answers
  <2>1. n \in 0 .. n /\ n <= n
    BY <1>2
  <2>2. \A i \in 1 .. L : i - 1 \in 0 .. n /\ i - 1 <= n
    BY <1>1, <1>2, <1>5
  <2>3. \A i \in 0 .. n : g[i] \subseteq g[n] /\ g[n] \subseteq Answers
    <3> SUFFICES ASSUME NEW i \in 0 .. n PROVE g[i] \subseteq g[n] /\ g[n] \subseteq Answers
      OBVIOUS
    <3>1. i <= n
      BY <1>2
    <3> QED
      BY <1>2, <1>6, <2>1, <3>1, NearGrows DEF n
  <2> QED
    BY <1>6, <1>11, <2>1, <2>2, <2>3
<1>13. ASSUME L # M PROVE Reached \subseteq R
  <2>0. g[0] \subseteq R
    BY <1>6, <1>8, <1>13 DEF Near, Scanned
  <2> DEFINE B == {k \in 0 .. n : ~(g[k] \subseteq R)}
  <2>1. B = {}
    <3> SUFFICES ASSUME B # {} PROVE FALSE
      OBVIOUS
    <3>1. B \in SUBSET Nat
      BY <1>2
    <3>2. PICK l \in B : \A j \in B : l <= j
      BY <3>1, LeastNumber
    <3> DEFINE h == l - 1
    <3>3. l \in 1 .. n /\ h \in 0 .. n /\ ~(l <= h)
      BY <1>2, <2>0
    <3>4. h \notin B
      <4> HIDE DEF h, B
      <4> QED
        BY <3>2, <3>3
    <3>5. g[h] \subseteq R
      BY <3>3, <3>4
    <3>6. g[l] = g[h] \cup behind(g[h])
      BY <1>6, <3>3 DEF Near, n
    <3> HIDE DEF h
    <3>7. behind(g[h]) \subseteq R
      <4> SUFFICES ASSUME NEW f \in behind(g[h]) PROVE f \in R
        OBVIOUS
      <4>1. f \in Answers /\ \E b \in g[h] \cap Bridges : b.secondary = f.bus
        BY DEF behind
      <4>2. PICK b \in R \cap Bridges : b.secondary = f.bus
        BY <3>5, <4>1
      <4>3. Scanned(f.bus)
        <5> HIDE DEF R
        <5> QED
          BY <1>10, <4>1, <4>2
      <4> QED
        BY <1>8, <1>13, <4>1, <4>3
    <3>8. g[l] \subseteq R
      BY <3>5, <3>6, <3>7
    <3> QED
      BY <3>8
  <2>2. n \in 0 .. n
    BY <1>2
  <2> HIDE DEF R
  <2> QED
    BY <1>6, <2>1, <2>2
<1>14. IsFiniteSet(Reached) /\ L <= Cardinality(Reached) /\ Cardinality(Reached) \in Nat
       /\ (L = Cardinality(Reached) => R = Reached)
  BY <1>3, <1>5, <1>12, FS_Subset, FS_CardinalityType
<1>15. CASE L = M
  <2>1. Cardinality(Reached) <= M => R = Reached
    BY <1>1, <1>14, <1>15
  <2> QED
    BY <1>15, <2>1 DEF d, L, M
<1>16. CASE L # M
  <2>1. R = Reached
    BY <1>12, <1>13, <1>16
  <2>2. Cardinality(Reached) <= M
    BY <1>1, <1>3, <2>1
  <2> QED
    BY <2>1, <2>2 DEF d, L, M
<1> QED
  BY <1>15, <1>16

\* On every machine whose buses are numbered as firmware numbers them the
\* scan of pci_device_init finds each function that can be reached, behind
\* bridges however deep, and finds it once; when there are more than the
\* table holds it is full.  On any other machine it stays within the table.
THEOREM FunctionsAreFound == PciSpec => []EachFoundOnce
<1>1. PciInit => PciInv
  <2> SUFFICES ASSUME PciInit PROVE PciInv
    OBVIOUS
  <2>1. /\ machine \in Machines /\ devices = <<>> /\ scanning = "bus 0" /\ index = 1 /\ pcie_count = 0
        /\ MAX_PCI_DEVICES \in Nat /\ Len(devices) = 0
    BY PciAssumption DEF PciInit
  <2>2. /\ <<>> \in Seq(Answers) /\ 0 <= MAX_PCI_DEVICES /\ 1 \in 1 .. 0 + 1
        /\ \A i : ~(i \in 1 .. 0)
    <3>1. <<>> \in Seq(Answers)
      OBVIOUS
    <3>2. 0 <= MAX_PCI_DEVICES
      BY PciAssumption
    <3>3. 1 \in 1 .. 0 + 1 /\ \A i : ~(i \in 1 .. 0)
      OBVIOUS
    <3> QED
      BY <3>1, <3>2, <3>3
  <2>3. PciDistinct
    BY <2>1, <2>2, Zenon DEF PciDistinct
  <2> QED
    BY <2>1, <2>2, <2>3 DEF PciInv
<1>2. PciInv /\ [PciNext]_pcivars => PciInv'
  <2> SUFFICES ASSUME PciInv, [PciNext]_pcivars PROVE PciInv'
    OBVIOUS
  <2>1. CASE UNCHANGED pcivars
    <3>1. UNCHANGED <<machine, devices, scanning, index, pcie_count>>
      BY <2>1 DEF pcivars
    <3>2. Answers' = Answers /\ Bridges' = Bridges /\ Numbered' = Numbered
      BY <3>1 DEF Numbered, Bridges, Answers, present, function_at
    <3>3. PciStop' = PciStop /\ PciDistinct' = PciDistinct /\ \A n : Counted(n)' = Counted(n)
      BY <3>1 DEF PciStop, PciDistinct, Counted, pcie_is_device
    <3>4. Listing' <=> Listing
      BY <3>1, <3>2, <3>3 DEF Listing, Scanned
    <3>5. /\ Counted(index - 1)' = Counted(index - 1)
          /\ Counted(Len(devices))' = Counted(Len(devices))
      BY <3>1 DEF Counted, pcie_is_device
    <3> QED
      BY <3>1, <3>2, <3>3, <3>4, <3>5 DEF PciInv
  <2> QED
    BY <2>1, PciFirst, PciFollow, PciCount DEF PciNext
<1>3. PciInv => EachFoundOnce
  <2> SUFFICES ASSUME PciInv PROVE EachFoundOnce
    OBVIOUS
  <2>1. Len(devices) <= MAX_PCI_DEVICES /\ DOMAIN devices = 1 .. Len(devices)
    <3>1. devices \in Seq(Answers) /\ Len(devices) <= MAX_PCI_DEVICES
      BY DEF PciInv
    <3> QED
      BY <3>1
  <2>2. ASSUME scanning = "done", Numbered
        PROVE  /\ \A i, j \in DOMAIN devices : devices[i] = devices[j] => i = j
               /\ pcie_count = Cardinality({i \in DOMAIN devices : pcie_is_device(devices[i])})
    BY <2>1, <2>2 DEF PciInv, PciDistinct, Counted
  <2>3. ASSUME scanning = "done", Numbered
        PROVE  IF Cardinality(Reached) <= MAX_PCI_DEVICES
               THEN {devices[i] : i \in DOMAIN devices} = Reached
               ELSE Len(devices) = MAX_PCI_DEVICES
    BY <2>1, <2>3, PciFound
  <2> QED
    BY <2>1, <2>2, <2>3 DEF EachFoundOnce
<1> QED
  BY <1>1, <1>2, <1>3, PTL DEF PciSpec

-----------------------------------------------------------------------------
(* Streams.                                                                *)

FdState == [used : BOOLEAN, offset : Int]
Stream == [live : BOOLEAN, fd : Fds \cup {0}, error : BOOLEAN, eof : BOOLEAN]

\* Streams and open descriptors belong together, one to one.
Paired(d, s) ==
    /\ \A b \in StreamBlocks : s[b].live => s[b].fd \in Fds /\ d[s[b].fd].used
    /\ \A b, c \in StreamBlocks : s[b].live /\ s[c].live /\ s[b].fd = s[c].fd => b = c
    /\ \A f \in Fds : d[f].used => \E b \in StreamBlocks : s[b].live /\ s[b].fd = f
StdioInv ==
    /\ fds \in [Fds -> FdState] /\ streams \in [StreamBlocks -> Stream] /\ fsize \in Int
    /\ Paired(fds, streams)

\* A stream from its fields.
FILE(live, f, error, eof) == [live |-> live, fd |-> f, error |-> error, eof |-> eof]

\* The block of a stream just opened, field by field.
LEMMA OpenedIs ==
  ASSUME NEW l
  PROVE  [NoFile EXCEPT !.live = TRUE, !.fd = l] = FILE(TRUE, l, FALSE, FALSE)
<1> DEFINE Y == TRUE
           N == FALSE
<1>1. NoFile = FILE(N, 0, N, N)
  BY DEF NoFile, FILE
<1> HIDE DEF Y, N
<1>2. [FILE(N, 0, N, N) EXCEPT !.live = Y] = FILE(Y, 0, N, N)
  BY DEF FILE
<1>3. [FILE(Y, 0, N, N) EXCEPT !.fd = l] = FILE(Y, l, N, N)
  BY DEF FILE
<1>4. [NoFile EXCEPT !.live = Y, !.fd = l] = FILE(Y, l, N, N)
  BY <1>1, <1>2, <1>3
<1> QED
  BY <1>4 DEF Y, N

\* StdioInv gives what programs rely on: the pairing is a bijection between
\* the open descriptors and the live streams, so there are as many of both.
LEMMA PairsCount == StdioInv => StreamsOwnFds
<1> SUFFICES ASSUME StdioInv PROVE StreamsOwnFds
  OBVIOUS
<1> DEFINE U == {f \in Fds : fds[f].used}
           B == {b \in StreamBlocks : streams[b].live}
           m == [b \in B |-> streams[b].fd]
<1>1. /\ \A b \in B : m[b] \in U
      /\ \A b, c \in B : m[b] = m[c] => b = c
      /\ \A f \in U : \E b \in B : m[b] = f
  BY DEF StdioInv, Paired
<1>2. m \in Bijection(B, U)
  <2>1. m \in [B -> U]
    BY <1>1
  <2> HIDE DEF m, B, U
  <2> QED
    BY <1>1, <2>1 DEF Bijection, Injection, Surjection, IsInjective
<1>3. ExistsBijection(U, B)
  <2>1. ExistsBijection(B, U)
    BY <1>2 DEF ExistsBijection
  <2> QED
    BY <2>1, Fun_ExistsBijSymmetric
<1>4. IsFiniteSet(U)
  <2>1. IsFiniteSet(Fds)
    BY StdioAssumption, FS_Interval DEF Fds
  <2>2. U \in SUBSET Fds
    OBVIOUS
  <2> QED
    BY <2>1, <2>2, FS_Subset
<1> HIDE DEF U, B, m
<1>5. Cardinality(B) = Cardinality(U)
  BY <1>3, <1>4, FS_Bijection
<1> QED
  BY <1>5 DEF StreamsOwnFds, StdioInv, Paired, U, B

\* A stream that is only marked, and a descriptor that is only moved.
LEMMA MarksOnly ==
  ASSUME StdioInv, NEW b \in StreamBlocks, NEW e \in BOOLEAN, NEW x \in BOOLEAN, NEW o \in Int, streams[b].live,
         fds' = fds \/ fds' = [fds EXCEPT ![streams[b].fd].offset = o],
         streams' = streams \/ streams' = [streams EXCEPT ![b].error = e] \/ streams' = [streams EXCEPT ![b].eof = x],
         fsize' \in Int
  PROVE  StdioInv'
<1>1. streams[b].fd \in Fds
  BY DEF StdioInv, Paired
<1>2. fds' \in [Fds -> FdState] /\ \A f \in Fds : fds'[f].used = fds[f].used
  <2>1. CASE fds' = fds
    BY <2>1 DEF StdioInv
  <2>2. CASE fds' = [fds EXCEPT ![streams[b].fd].offset = o]
    BY <1>1, <2>2 DEF StdioInv, FdState
  <2> QED
    BY <2>1, <2>2
<1>3. streams' \in [StreamBlocks -> Stream]
      /\ \A c \in StreamBlocks : streams'[c].live = streams[c].live /\ streams'[c].fd = streams[c].fd
  <2>1. CASE streams' = streams
    BY <2>1 DEF StdioInv
  <2>2. CASE streams' = [streams EXCEPT ![b].error = e]
    BY <2>2 DEF StdioInv, Stream
  <2>3. CASE streams' = [streams EXCEPT ![b].eof = x]
    BY <2>3 DEF StdioInv, Stream
  <2> QED
    BY <2>1, <2>2, <2>3
<1>4. Paired(fds', streams')
  BY <1>2, <1>3 DEF StdioInv, Paired
<1> QED
  BY <1>2, <1>3, <1>4 DEF StdioInv

\* Every call of the library keeps the pairing: fopen takes both or neither,
\* fclose gives both back, the others leave them alone.
LEMMA StdioStep == StdioInv /\ [StdioNext]_stdiovars => StdioInv'
<1> SUFFICES ASSUME StdioInv, [StdioNext]_stdiovars PROVE StdioInv'
  OBVIOUS
<1>1. CASE UNCHANGED stdiovars
  BY <1>1 DEF stdiovars, StdioInv
<1>2. CASE fopen
  <2>1. CASE free_blocks = {}
    BY <1>2, <2>1 DEF fopen, StdioInv
  <2>2. CASE free_blocks # {}
    <3>1. PICK b \in free_blocks : streams' = [streams EXCEPT ![b] = [NoFile EXCEPT !.live = TRUE, !.fd = lowest]]
      BY <1>2, <2>2 DEF fopen
    <3>2. lowest \in free_fds
      <4>1. free_fds # {} /\ free_fds \in SUBSET Nat
        BY <1>2, StdioAssumption DEF fopen, free_fds, Fds
      <4>2. \E f \in free_fds : \A k \in free_fds : f <= k
        BY <4>1, LeastNumber
      <4> QED
        BY <4>2 DEF lowest
    <3> DEFINE l == lowest
    <3>3. l \in Fds /\ ~fds[l].used /\ b \in StreamBlocks /\ ~streams[b].live
      BY <3>2 DEF free_fds, free_blocks
    <3>4. fds' = [fds EXCEPT ![l] = [used |-> TRUE, offset |-> 0]] /\ fsize' = fsize
      BY <1>2, <2>2 DEF fopen
    <3>5. streams' = [streams EXCEPT ![b] = FILE(TRUE, l, FALSE, FALSE)]
      <4>1. [NoFile EXCEPT !.live = TRUE, !.fd = l] = FILE(TRUE, l, FALSE, FALSE)
        BY OpenedIs
      <4> QED
        BY <3>1, <4>1
    <3> HIDE DEF l
    <3>6. fds' \in [Fds -> FdState] /\ streams' \in [StreamBlocks -> Stream]
      BY <3>3, <3>4, <3>5 DEF StdioInv, FdState, Stream, FILE
    <3>7. /\ \A f \in Fds : fds'[f].used <=> f = l \/ fds[f].used
          /\ \A c \in StreamBlocks : streams'[c].live <=> c = b \/ streams[c].live
          /\ streams'[b].fd = l /\ \A c \in StreamBlocks \ {b} : streams'[c].fd = streams[c].fd
      BY <3>3, <3>4, <3>5 DEF StdioInv, FILE
    <3>8. Paired(fds', streams')
      BY <3>3, <3>7 DEF StdioInv, Paired
    <3> QED
      BY <3>4, <3>6, <3>8 DEF StdioInv
  <2> QED
    BY <2>1, <2>2
<1>3. CASE \E b \in StreamBlocks : fclose(b)
  <2>1. PICK b \in StreamBlocks : fclose(b)
    BY <1>3
  <2>2. streams[b].live /\ streams[b].fd \in Fds
    BY <2>1 DEF fclose, StdioInv, Paired
  <2>3. /\ fds' = [fds EXCEPT ![streams[b].fd] = [used |-> FALSE, offset |-> 0]] /\ fsize' = fsize
        /\ streams' = [streams EXCEPT ![b] = [live |-> FALSE, fd |-> 0, error |-> FALSE, eof |-> FALSE]]
    BY <2>1 DEF fclose, Unused, NoFile
  <2>4. fds' \in [Fds -> FdState] /\ streams' \in [StreamBlocks -> Stream]
    BY <2>2, <2>3 DEF StdioInv, FdState, Stream
  <2>5. /\ \A f \in Fds : fds'[f].used <=> f # streams[b].fd /\ fds[f].used
        /\ \A c \in StreamBlocks : streams'[c].live <=> c # b /\ streams[c].live
        /\ \A c \in StreamBlocks \ {b} : streams'[c].fd = streams[c].fd
    BY <2>2, <2>3 DEF StdioInv
  <2>6. Paired(fds', streams')
    BY <2>2, <2>5 DEF StdioInv, Paired
  <2> QED
    BY <2>3, <2>4, <2>6 DEF StdioInv
<1>4. CASE \E b \in StreamBlocks, n \in Counts : fread(b, n)
  <2>1. PICK b \in StreamBlocks, n \in Counts : fread(b, n)
    BY <1>4
  <2> DEFINE f == streams[b].fd
             got == IF n < available(f) THEN n ELSE available(f)
             o == fds[f].offset + got
             x == streams[b].eof \/ got < n
  <2>2. streams[b].live /\ fsize' = fsize /\ f \in Fds
    BY <2>1 DEF fread, StdioInv, Paired
  <2>3. fds' = [fds EXCEPT ![f].offset = o] /\ streams' = [streams EXCEPT ![b].eof = x]
    BY <2>1, <2>2 DEF fread, StdioInv
  <2>4. fds[f].offset \in Int /\ available(f) \in Int
    BY <2>2 DEF StdioInv, FdState, available
  <2>5. n \in Int
    BY StdioAssumption
  <2>6. o \in Int
    BY <2>4, <2>5
  <2>7. x \in BOOLEAN
    OBVIOUS
  <2>8. fsize' \in Int
    BY <2>2 DEF StdioInv
  <2> HIDE DEF o, x, got
  <2> QED
    BY <2>2, <2>3, <2>6, <2>7, <2>8, MarksOnly
<1>5. CASE \E b \in StreamBlocks, n \in Counts : fwrite(b, n)
  <2>1. PICK b \in StreamBlocks, n \in Counts : fwrite(b, n)
    BY <1>5
  <2>2. n \in Int
    BY StdioAssumption
  <2>3. streams[b].live /\ fds' = fds /\ fsize' \in Int
    BY <2>1, <2>2 DEF fwrite, StdioInv
  <2>4. streams' = streams \/ streams' = [streams EXCEPT ![b].error = TRUE]
    BY <2>1 DEF fwrite
  <2>5. TRUE \in BOOLEAN /\ 0 \in Int
    OBVIOUS
  <2> QED
    BY <2>3, <2>4, <2>5, MarksOnly
<1>6. CASE \E b \in StreamBlocks, offset \in {-1, 1}, origin \in {"SET", "CUR", "END"} : fseek(b, offset, origin)
  <2>1. PICK b \in StreamBlocks, offset \in {-1, 1}, origin \in {"SET", "CUR", "END"} : fseek(b, offset, origin)
    BY <1>6
  <2> DEFINE f == streams[b].fd
             start == CASE origin = "SET" -> 0 [] origin = "CUR" -> fds[f].offset [] OTHER -> fsize
             o == start + offset
  <2>2. streams[b].live /\ fsize' = fsize /\ f \in Fds
    BY <2>1 DEF fseek, StdioInv, Paired
  <2>3. fsize \in Int /\ fds[f].offset \in Int
    BY <2>2 DEF StdioInv, FdState
  <2>4. start \in Int
    BY <2>3
  <2> HIDE DEF start
  <2>5. o \in Int
    BY <2>4
  <2>6. \/ fds' = fds /\ streams' = [streams EXCEPT ![b].error = TRUE]
        \/ fds' = [fds EXCEPT ![f].offset = o] /\ streams' = [streams EXCEPT ![b].eof = FALSE]
    BY <2>1 DEF fseek, start
  <2>7. TRUE \in BOOLEAN /\ FALSE \in BOOLEAN
    OBVIOUS
  <2> HIDE DEF o, f
  <2> QED
    BY <2>2, <2>3, <2>5, <2>6, <2>7, MarksOnly DEF f
<1> QED
  BY <1>1, <1>2, <1>3, <1>4, <1>5, <1>6 DEF StdioNext

\* A descriptor is open exactly as long as one stream has it: fopen without
\* memory for the stream closes it again, fclose closes no other.
THEOREM StreamsKeepFds == StdioSpec => []StreamsOwnFds
<1>1. StdioInit => StdioInv
  <2> SUFFICES ASSUME StdioInit PROVE StdioInv
    OBVIOUS
  <2>1. fds \in [Fds -> FdState] /\ streams \in [StreamBlocks -> Stream] /\ fsize \in Int
    BY StdioAssumption DEF StdioInit, FdState, Stream, Unused, NoFile
  <2>2. (\A f \in Fds : ~fds[f].used) /\ \A b \in StreamBlocks : ~streams[b].live
    BY DEF StdioInit, Unused, NoFile
  <2> QED
    BY <2>1, <2>2 DEF StdioInv, Paired
<1> QED
  BY <1>1, StdioStep, PairsCount, PTL DEF StdioSpec
-----------------------------------------------------------------------------
(* Strings and memory.                                                     *)

Arrays == [Places -> Chars]

\* The n bytes at s are at d, the others where they were.
MovedTo(m, d, s, n) == [i \in Places |-> IF i \in d .. d + n - 1 THEN m[s + (i - d)] ELSE m[i]]

\* The same for the last k of n bytes: how far a copy from the back is.
MovedBack(m, d, s, n, k) == [i \in Places |-> IF i \in d + n - k .. d + n - 1 THEN m[s + (i - d)] ELSE m[i]]

\* The array has a length.
LEMMA PlacesAre == TEXT_SIZE \in Nat \ {0} /\ Places = 0 .. TEXT_SIZE - 1
BY TextAssumption DEF Places

\* Copying from the front is right when the destination does not lie behind
\* the source: what is read has not been written over.
LEMMA FrontCopy ==
  ASSUME NEW m, m = [i \in Places |-> m[i]], NEW d \in Nat, NEW s \in Nat, NEW n \in Nat, d <= s, s + n <= TEXT_SIZE
  PROVE  memcpy(m, d, s, n) = MovedTo(m, d, s, n)
<1> DEFINE P(p, i) == [p EXCEPT ![d + i - 1] = p[s + i - 1]]
           Is(c) == c = [i \in 0 .. n |-> IF i = 0 THEN m ELSE P(c[i - 1], i)]
           f == [i \in 0 .. n |-> MovedTo(m, d, s, i)]
           g == CHOOSE c : Is(c)
<1>1. memcpy(m, d, s, n) = g[n]
  BY DEF memcpy
<1>2. MovedTo(m, d, s, 0) = m
  <2>1. \A i : i \notin d .. d + 0 - 1
    OBVIOUS
  <2> QED
    BY <2>1 DEF MovedTo
<1>3. ASSUME NEW i \in 1 .. n PROVE MovedTo(m, d, s, i) = P(MovedTo(m, d, s, i - 1), i)
  <2> DEFINE w == d + i - 1
             r == s + i - 1
             p == MovedTo(m, d, s, i - 1)
             q == MovedTo(m, d, s, i)
  <2>1. w \in Places /\ r \in Places /\ r \notin d .. d + (i - 1) - 1
    BY PlacesAre
  <2>2. p[r] = m[r]
    BY <2>1 DEF MovedTo
  <2>3. \A k \in Places : k \in d .. d + i - 1 <=> k = w \/ k \in d .. d + (i - 1) - 1
    BY PlacesAre
  <2>4. s + (w - d) = r
    OBVIOUS
  <2>5. \A k \in Places : q[k] = IF k = w THEN p[r] ELSE p[k]
    <3> SUFFICES ASSUME NEW k \in Places PROVE q[k] = IF k = w THEN p[r] ELSE p[k]
      OBVIOUS
    <3>1. CASE k = w
      <4>1. k \in d .. d + i - 1
        BY <2>3, <3>1
      <4>2. q[k] = m[s + (k - d)]
        BY <4>1 DEF MovedTo
      <4> QED
        BY <2>2, <2>4, <3>1, <4>2
    <3>2. CASE k # w
      BY <2>3, <3>2 DEF MovedTo
    <3> QED
      BY <3>1, <3>2
  <2>6. q = [k \in Places |-> q[k]] /\ p = [k \in Places |-> p[k]]
    BY DEF MovedTo
  <2> HIDE DEF p, q, w, r
  <2>7. q = [p EXCEPT ![w] = p[r]]
    BY <2>1, <2>5, <2>6
  <2> QED
    BY <2>7 DEF p, q, w, r
<1>4. Is(f)
  <2> DEFINE h == [i \in 0 .. n |-> IF i = 0 THEN m ELSE P(f[i - 1], i)]
  <2>1. ASSUME NEW i \in 0 .. n PROVE f[i] = h[i]
    <3>1. CASE i = 0
      BY <1>2, <3>1
    <3>2. CASE i # 0
      <4>1. i \in 1 .. n /\ i - 1 \in 0 .. n
        BY <3>2
      <4>2. f[i] = MovedTo(m, d, s, i) /\ f[i - 1] = MovedTo(m, d, s, i - 1)
        BY <4>1
      <4>3. h[i] = P(f[i - 1], i)
        BY <3>2
      <4> HIDE DEF P, f, h
      <4> QED
        BY <1>3, <4>1, <4>2, <4>3
    <3> QED
      BY <3>1, <3>2
  <2>2. f = [i \in 0 .. n |-> f[i]] /\ h = [i \in 0 .. n |-> h[i]]
    OBVIOUS
  <2>3. f = h
    <3> HIDE DEF f, h
    <3> QED
      BY <2>1, <2>2
  <2> HIDE DEF f
  <2> QED
    BY <2>3
<1>5. Is(g)
  <2> HIDE DEF Is, f
  <2> QED
    BY <1>4
<1> HIDE DEF g
<1>6. g[0] = m /\ \A i \in 1 .. n : g[i] = P(g[i - 1], i)
  <2> HIDE DEF P
  <2>1. \A i \in 0 .. n : g[i] = IF i = 0 THEN m ELSE P(g[i - 1], i)
    BY <1>5
  <2> QED
    BY <2>1
<1> HIDE DEF P
<1> DEFINE B == {i \in 0 .. n : g[i] # MovedTo(m, d, s, i)}
<1>7. B = {}
  <2> SUFFICES ASSUME B # {} PROVE FALSE
    OBVIOUS
  <2>1. B \in SUBSET Nat
    OBVIOUS
  <2>2. PICK l \in B : \A k \in B : l <= k
    BY <2>1, LeastNumber
  <2> DEFINE h == l - 1
  <2>3. l \in 1 .. n /\ h \in 0 .. n /\ ~(l <= h)
    BY <1>2, <1>6
  <2>4. g[h] = MovedTo(m, d, s, h)
    BY <2>2, <2>3
  <2> QED
    BY <1>3, <1>6, <2>3, <2>4
<1> QED
  BY <1>1, <1>7

\* Copying from the back is right when it does not lie before.
LEMMA BackCopy ==
  ASSUME NEW m, m = [i \in Places |-> m[i]], NEW d \in Nat, NEW s \in Nat, NEW n \in Nat, d >= s, d + n <= TEXT_SIZE
  PROVE  backwards(m, d, s, n) = MovedTo(m, d, s, n)
<1> DEFINE P(p, i) == [p EXCEPT ![d + n - i] = p[s + n - i]]
           Is(c) == c = [i \in 0 .. n |-> IF i = 0 THEN m ELSE P(c[i - 1], i)]
           f == [i \in 0 .. n |-> MovedBack(m, d, s, n, i)]
           g == CHOOSE c : Is(c)
<1>1. backwards(m, d, s, n) = g[n]
  BY DEF backwards
<1>2. MovedBack(m, d, s, n, 0) = m /\ MovedBack(m, d, s, n, n) = MovedTo(m, d, s, n)
  <2>1. (\A i : i \notin d + n - 0 .. d + n - 1) /\ d + n - n = d
    OBVIOUS
  <2> QED
    BY <2>1 DEF MovedBack, MovedTo
<1>3. ASSUME NEW i \in 1 .. n PROVE MovedBack(m, d, s, n, i) = P(MovedBack(m, d, s, n, i - 1), i)
  <2> DEFINE w == d + n - i
             r == s + n - i
             p == MovedBack(m, d, s, n, i - 1)
             q == MovedBack(m, d, s, n, i)
  <2>1. w \in Places /\ r \in Places /\ r \notin d + n - (i - 1) .. d + n - 1
    BY PlacesAre
  <2>2. p[r] = m[r]
    BY <2>1 DEF MovedBack
  <2>3. \A k \in Places : k \in d + n - i .. d + n - 1 <=> k = w \/ k \in d + n - (i - 1) .. d + n - 1
    BY PlacesAre
  <2>4. s + (w - d) = r
    OBVIOUS
  <2>5. \A k \in Places : q[k] = IF k = w THEN p[r] ELSE p[k]
    <3> SUFFICES ASSUME NEW k \in Places PROVE q[k] = IF k = w THEN p[r] ELSE p[k]
      OBVIOUS
    <3>1. CASE k = w
      <4>1. k \in d + n - i .. d + n - 1
        BY <2>3, <3>1
      <4>2. q[k] = m[s + (k - d)]
        BY <4>1 DEF MovedBack
      <4> QED
        BY <2>2, <2>4, <3>1, <4>2
    <3>2. CASE k # w
      BY <2>3, <3>2 DEF MovedBack
    <3> QED
      BY <3>1, <3>2
  <2>6. q = [k \in Places |-> q[k]] /\ p = [k \in Places |-> p[k]]
    BY DEF MovedBack
  <2> HIDE DEF p, q, w, r
  <2>7. q = [p EXCEPT ![w] = p[r]]
    BY <2>1, <2>5, <2>6
  <2> QED
    BY <2>7 DEF p, q, w, r
<1>4. Is(f)
  <2> DEFINE h == [i \in 0 .. n |-> IF i = 0 THEN m ELSE P(f[i - 1], i)]
  <2>1. ASSUME NEW i \in 0 .. n PROVE f[i] = h[i]
    <3>1. CASE i = 0
      BY <1>2, <3>1
    <3>2. CASE i # 0
      <4>1. i \in 1 .. n /\ i - 1 \in 0 .. n
        BY <3>2
      <4>2. f[i] = MovedBack(m, d, s, n, i) /\ f[i - 1] = MovedBack(m, d, s, n, i - 1)
        BY <4>1
      <4>3. h[i] = P(f[i - 1], i)
        BY <3>2
      <4> HIDE DEF P, f, h
      <4> QED
        BY <1>3, <4>1, <4>2, <4>3
    <3> QED
      BY <3>1, <3>2
  <2>2. f = [i \in 0 .. n |-> f[i]] /\ h = [i \in 0 .. n |-> h[i]]
    OBVIOUS
  <2>3. f = h
    <3> HIDE DEF f, h
    <3> QED
      BY <2>1, <2>2
  <2> HIDE DEF f
  <2> QED
    BY <2>3
<1>5. Is(g)
  <2> HIDE DEF Is, f
  <2> QED
    BY <1>4
<1> HIDE DEF g
<1>6. g[0] = m /\ \A i \in 1 .. n : g[i] = P(g[i - 1], i)
  <2> HIDE DEF P
  <2>1. \A i \in 0 .. n : g[i] = IF i = 0 THEN m ELSE P(g[i - 1], i)
    BY <1>5
  <2> QED
    BY <2>1
<1> HIDE DEF P
<1> DEFINE B == {i \in 0 .. n : g[i] # MovedBack(m, d, s, n, i)}
<1>7. B = {}
  <2> SUFFICES ASSUME B # {} PROVE FALSE
    OBVIOUS
  <2>1. B \in SUBSET Nat
    OBVIOUS
  <2>2. PICK l \in B : \A k \in B : l <= k
    BY <2>1, LeastNumber
  <2> DEFINE h == l - 1
  <2>3. l \in 1 .. n /\ h \in 0 .. n /\ ~(l <= h)
    BY <1>2, <1>6
  <2>4. g[h] = MovedBack(m, d, s, n, h)
    BY <2>2, <2>3
  <2> QED
    BY <1>3, <1>6, <2>3, <2>4
<1> QED
  BY <1>1, <1>2, <1>7

\* Both moves therefore copy as if through a buffer.
LEMMA MovesAre ==
  ASSUME NEW m, m = [i \in Places |-> m[i]], NEW d \in Places, NEW s \in Places,
         NEW n \in 0 .. TEXT_SIZE - (IF d > s THEN d ELSE s)
  PROVE  memmove(m, d, s, n) = MovedTo(m, d, s, n) /\ kernel_memmove(m, d, s, n) = MovedTo(m, d, s, n)
<1>1. d \in Nat /\ s \in Nat /\ n \in Nat /\ d + n <= TEXT_SIZE /\ s + n <= TEXT_SIZE
  BY PlacesAre
<1>2. CASE d < s
  BY <1>1, <1>2, FrontCopy DEF memmove, kernel_memmove
<1>3. CASE d > s
  BY <1>1, <1>3, BackCopy DEF memmove, kernel_memmove
<1>4. CASE d = s
  <2>1. kernel_memmove(m, d, s, n) = MovedTo(m, d, s, n)
    BY <1>1, <1>4, BackCopy DEF kernel_memmove
  <2>2. \A i \in Places : s + (i - d) = i
    BY <1>1, <1>4, PlacesAre
  <2>3. MovedTo(m, d, s, n) = m
    <3>1. \A i \in Places : MovedTo(m, d, s, n)[i] = m[i]
      BY <2>2 DEF MovedTo
    <3>2. MovedTo(m, d, s, n) = [i \in Places |-> MovedTo(m, d, s, n)[i]]
      BY DEF MovedTo
    <3> QED
      BY <3>1, <3>2
  <2>4. memmove(m, d, s, n) = m
    BY <1>1, <1>4 DEF memmove
  <2> QED
    BY <2>1, <2>3, <2>4
<1> QED
  BY <1>1, <1>2, <1>3, <1>4

\* Of the places that qualify there is a first one.
LEMMA FirstExists ==
  ASSUME NEW a \in Nat, NEW S, S \subseteq a .. TEXT_SIZE, S # {}
  PROVE  \E i \in S : i \in a .. TEXT_SIZE /\ \A j \in a .. i - 1 : j \notin S
<1>1. S \in SUBSET Nat
  BY PlacesAre
<1>2. PICK i \in S : \A k \in S : i <= k
  BY <1>1, LeastNumber
<1>3. \A j \in a .. i - 1 : ~(i <= j)
  BY <1>1
<1> QED
  BY <1>2, <1>3

\* And a last one.
LEMMA LastExists ==
  ASSUME NEW S, S \subseteq Places, S # {}
  PROVE  \E i \in S : \A j \in S : j <= i
<1> DEFINE T == {TEXT_SIZE - k : k \in S}
<1>1. T \in SUBSET Nat /\ T # {}
  <2>1. \A k \in S : TEXT_SIZE - k \in Nat
    BY PlacesAre
  <2>2. PICK k : k \in S
    OBVIOUS
  <2>3. TEXT_SIZE - k \in T
    BY <2>2
  <2> QED
    BY <2>1, <2>3
<1>2. PICK x \in T : \A y \in T : x <= y
  BY <1>1, LeastNumber
<1>3. PICK i \in S : x = TEXT_SIZE - i
  OBVIOUS
<1>4. \A j \in S : j <= i
  <2> SUFFICES ASSUME NEW j \in S PROVE j <= i
    OBVIOUS
  <2>1. TEXT_SIZE - j \in T
    OBVIOUS
  <2>2. x <= TEXT_SIZE - j
    BY <1>2, <2>1
  <2> QED
    BY <1>3, <2>2, PlacesAre
<1> QED
  BY <1>4

\* A text of n bytes starts at a.
IsLen(m, a, n) ==
    /\ a \in Nat /\ n \in Nat /\ a + n < TEXT_SIZE
    /\ m[a + n] = NUL /\ \A j \in 0 .. n - 1 : m[a + j] # NUL

\* strlen finds the length.
LEMMA LenIs ==
  ASSUME NEW m, NEW a \in Nat, ends(m, a)
  PROVE  IsLen(m, a, strlen(m, a))
<1> DEFINE S == {i \in a .. TEXT_SIZE : i < TEXT_SIZE /\ m[i] = NUL}
           Q(i) == m[i] = NUL /\ \A j \in a .. i - 1 : ~(m[j] = NUL)
           e == CHOOSE i \in a .. TEXT_SIZE : Q(i)
<1>1. S # {}
  BY PlacesAre DEF ends
<1>2. PICK i \in S : i \in a .. TEXT_SIZE /\ \A j \in a .. i - 1 : j \notin S
  BY <1>1, FirstExists
<1>3. i \in Nat /\ i < TEXT_SIZE /\ m[i] = NUL
  BY <1>2
<1>4. \A j \in a .. i - 1 : ~(m[j] = NUL)
  BY <1>2, <1>3, PlacesAre
<1>5. Q(i)
  BY <1>3, <1>4
<1>6. strlen(m, a) = e - a
  BY DEF strlen, first_where
<1>7. e \in a .. TEXT_SIZE /\ Q(e)
  <2> HIDE DEF Q
  <2> QED
    BY <1>2, <1>5
<1> HIDE DEF e, S
<1>8. ~(i < e)
  BY <1>2, <1>3, <1>7
<1> DEFINE n == e - a
<1>9. n \in Nat /\ a + n = e /\ e < TEXT_SIZE /\ e \in Nat
  BY <1>3, <1>7, <1>8, PlacesAre
<1>10. ASSUME NEW j \in 0 .. n - 1 PROVE m[a + j] # NUL
  <2>1. a + j \in a .. e - 1
    BY <1>9
  <2> QED
    BY <1>7, <2>1
<1> QED
  BY <1>6, <1>7, <1>9, <1>10 DEF IsLen

\* There is one length only.
LEMMA OneLen ==
  ASSUME NEW m, NEW a, NEW n, NEW l, IsLen(m, a, n), IsLen(m, a, l)
  PROVE  n = l
<1>1. ~(n < l) /\ ~(l < n)
  BY DEF IsLen
<1> QED
  BY <1>1 DEF IsLen

\* So a text is as long as strlen says.
LEMMA LenOf ==
  ASSUME NEW m, NEW a, NEW n, IsLen(m, a, n)
  PROVE  ends(m, a) /\ strlen(m, a) = n
<1>1. a + n \in a .. TEXT_SIZE - 1 /\ a \in Nat
  BY PlacesAre DEF IsLen
<1>2. ends(m, a)
  BY <1>1 DEF ends, IsLen
<1> QED
  BY <1>1, <1>2, LenIs, OneLen

\* The text as a sequence.
LEMMA TextIs ==
  ASSUME NEW m \in Arrays, NEW a, NEW n, IsLen(m, a, n)
  PROVE  /\ TextAt(m, a) = [i \in 1 .. n |-> m[a + i - 1]]
         /\ TextAt(m, a) \in Seq(Chars) /\ Len(TextAt(m, a)) = n
         /\ \A i \in 1 .. n : TextAt(m, a)[i] = m[a + i - 1]
         /\ \A i \in 0 .. n : a + i \in Places /\ m[a + i] \in Chars
<1>1. strlen(m, a) = n /\ n \in Nat /\ a \in Nat /\ a + n < TEXT_SIZE
  BY LenOf DEF IsLen
<1>2. TextAt(m, a) = [i \in 1 .. n |-> m[a + i - 1]]
  BY <1>1 DEF TextAt
<1>3. \A i \in 0 .. n : a + i \in Places /\ m[a + i] \in Chars
  BY <1>1, PlacesAre DEF Arrays
<1>4. \A i \in 1 .. n : m[a + i - 1] \in Chars
  <2> SUFFICES ASSUME NEW i \in 1 .. n PROVE m[a + i - 1] \in Chars
    OBVIOUS
  <2>1. i - 1 \in 0 .. n /\ a + (i - 1) = a + i - 1
    BY <1>1
  <2> QED
    BY <1>3, <2>1
<1>5. TextAt(m, a) \in Seq(Chars)
  BY <1>1, <1>2, <1>4
<1> QED
  BY <1>1, <1>2, <1>3, <1>5

\* Two texts are the same sequence when they have the same bytes.
LEMMA SameText ==
  ASSUME NEW m \in Arrays, NEW w \in Arrays, NEW a, NEW b, NEW n, IsLen(m, a, n), IsLen(w, b, n),
         \A j \in 0 .. n - 1 : m[a + j] = w[b + j]
  PROVE  TextAt(m, a) = TextAt(w, b)
<1>1. n \in Nat /\ a \in Nat /\ b \in Nat
  BY DEF IsLen
<1>2. \A i \in 1 .. n : m[a + i - 1] = w[b + i - 1]
  <2> SUFFICES ASSUME NEW i \in 1 .. n PROVE m[a + i - 1] = w[b + i - 1]
    OBVIOUS
  <2>1. i - 1 \in 0 .. n - 1 /\ a + (i - 1) = a + i - 1 /\ b + (i - 1) = b + i - 1
    BY <1>1
  <2> QED
    BY <2>1
<1> QED
  BY <1>2, TextIs

\* What a copy that is closed with a NUL leaves.
CutTo(m, d, s, k) == memset(memcpy(m, d, s, k), d + k, NUL, 1)
IsCut(c, m, d, s, k) ==
    /\ c \in Arrays /\ c[d + k] = NUL
    /\ \A j \in 0 .. k - 1 : c[d + j] = m[s + j]
    /\ \A i \in Places : i \notin d .. d + k => c[i] = m[i]
LEMMA CutIs ==
  ASSUME NEW m \in Arrays, NEW d \in Nat, NEW s \in Nat, NEW k \in Nat, d <= s, s + k <= TEXT_SIZE, d + k < TEXT_SIZE
  PROVE  IsCut(CutTo(m, d, s, k), m, d, s, k)
<1> DEFINE c == CutTo(m, d, s, k)
           w == MovedTo(m, d, s, k)
<1>1. memcpy(m, d, s, k) = w
  BY FrontCopy DEF Arrays
<1>2. \A i \in Places : w[i] = IF i \in d .. d + k - 1 THEN m[s + (i - d)] ELSE m[i]
  BY DEF MovedTo
<1>3. c = [i \in Places |-> IF i \in d + k .. d + k + 1 - 1 THEN NUL ELSE w[i]]
  BY <1>1 DEF CutTo, memset
<1>4. \A i \in Places : c[i] = IF i = d + k THEN NUL ELSE IF i \in d .. d + k - 1 THEN m[s + (i - d)] ELSE m[i]
  <2>1. \A i \in Places : i \in d + k .. d + k + 1 - 1 <=> i = d + k
    BY PlacesAre
  <2> HIDE DEF w
  <2> QED
    BY <1>2, <1>3, <2>1
<1>5. \A i \in Places : c[i] \in Chars
  <2> SUFFICES ASSUME NEW i \in Places PROVE c[i] \in Chars
    OBVIOUS
  <2>1. NUL \in Chars /\ m[i] \in Chars
    BY DEF NUL, Chars, Arrays
  <2>2. i \in d .. d + k - 1 => s + (i - d) \in Places
    BY PlacesAre
  <2>3. i \in d .. d + k - 1 => m[s + (i - d)] \in Chars
    BY <2>2 DEF Arrays
  <2> QED
    BY <1>4, <2>1, <2>3
<1>6. c \in Arrays
  <2>1. c = [i \in Places |-> c[i]]
    BY <1>3
  <2> HIDE DEF c
  <2> QED
    BY <1>5, <2>1 DEF Arrays
<1>7. c[d + k] = NUL
  <2>1. d + k \in Places
    BY PlacesAre
  <2> QED
    BY <1>4, <2>1
<1>8. ASSUME NEW j \in 0 .. k - 1 PROVE c[d + j] = m[s + j]
  <2>1. d + j \in Places /\ d + j # d + k /\ d + j \in d .. d + k - 1 /\ s + (d + j - d) = s + j
    BY PlacesAre
  <2> QED
    BY <1>4, <2>1
<1>9. ASSUME NEW i \in Places, i \notin d .. d + k PROVE c[i] = m[i]
  <2>1. i # d + k /\ i \notin d .. d + k - 1
    BY <1>9
  <2> QED
    BY <1>4, <2>1
<1> HIDE DEF c
<1>10. IsCut(c, m, d, s, k)
  BY <1>6, <1>7, <1>8, <1>9 DEF IsCut
<1> QED
  BY <1>10 DEF c

\* Cut out of a text, it is a text of k bytes.
LEMMA CutLen ==
  ASSUME NEW m, NEW c, NEW d \in Nat, NEW s \in Nat, NEW k \in Nat, d + k < TEXT_SIZE,
         IsCut(c, m, d, s, k), \A j \in 0 .. k - 1 : m[s + j] # NUL
  PROVE  IsLen(c, d, k)
BY DEF IsCut, IsLen

\* strlcpy of a text of n bytes, into room for at least one.
LEMMA LcpyIs ==
  ASSUME NEW m \in Arrays, NEW d \in Nat, NEW s \in Nat, NEW n, IsLen(m, s, n), d <= s,
         NEW size \in Nat \ {0}
  PROVE  LET k == IF n < size - 1 THEN n ELSE size - 1
         IN  /\ strlcpy(m, d, s, size) = CutTo(m, d, s, k) /\ k \in 0 .. n /\ k < size
             /\ IsCut(strlcpy(m, d, s, size), m, d, s, k)
             /\ IsLen(strlcpy(m, d, s, size), d, k)
<1> DEFINE k == IF n < size - 1 THEN n ELSE size - 1
<1>1. n \in Nat /\ s + n < TEXT_SIZE /\ strlen(m, s) = n /\ \A j \in 0 .. n - 1 : m[s + j] # NUL
  BY LenOf DEF IsLen
<1>2. k \in 0 .. n /\ k \in Nat /\ k < size /\ s + k <= TEXT_SIZE /\ d + k < TEXT_SIZE
  BY <1>1, PlacesAre
<1>3. strlcpy(m, d, s, size) = CutTo(m, d, s, k)
  BY <1>1 DEF strlcpy, copy_length, CutTo
<1>4. \A j \in 0 .. k - 1 : m[s + j] # NUL
  BY <1>1
<1> HIDE DEF k
<1>5. IsCut(CutTo(m, d, s, k), m, d, s, k)
  BY <1>2, CutIs
<1>6. IsLen(CutTo(m, d, s, k), d, k)
  BY <1>2, <1>4, <1>5, CutLen
<1> QED
  BY <1>2, <1>3, <1>5, <1>6 DEF k

\* A copy that takes the NUL along is closed by it.
LEMMA WholeIsCut ==
  ASSUME NEW m \in Arrays, NEW d \in Nat, NEW s \in Nat, NEW n, IsLen(m, s, n), d <= s
  PROVE  memcpy(m, d, s, n + 1) = CutTo(m, d, s, n)
<1> DEFINE w == memcpy(m, d, s, n + 1)
           c == CutTo(m, d, s, n)
<1>1. /\ n \in Nat /\ s + n < TEXT_SIZE /\ s + n <= TEXT_SIZE /\ m[s + n] = NUL
      /\ s + (n + 1) <= TEXT_SIZE /\ d + n < TEXT_SIZE
  BY PlacesAre DEF IsLen
<1>2. w = MovedTo(m, d, s, n + 1)
  BY <1>1, FrontCopy DEF Arrays
<1>3. \A i \in Places : w[i] = IF i \in d .. d + (n + 1) - 1 THEN m[s + (i - d)] ELSE m[i]
  BY <1>2 DEF MovedTo
<1>4. IsCut(c, m, d, s, n)
  BY <1>1, CutIs
<1>5. w = [i \in Places |-> w[i]] /\ c = [i \in Places |-> c[i]]
  BY <1>2, <1>4 DEF IsCut, MovedTo, Arrays
<1> HIDE DEF w, c
<1>6. ASSUME NEW i \in Places PROVE w[i] = c[i]
  <2>1. CASE i = d + n
    <3>1. i \in d .. d + (n + 1) - 1 /\ s + (i - d) = s + n
      BY <1>1, <2>1
    <3> QED
      BY <1>1, <1>3, <1>4, <2>1, <3>1 DEF IsCut
  <2>2. CASE i \in d .. d + n - 1
    <3> DEFINE j == i - d
    <3>1. j \in 0 .. n - 1 /\ d + j = i /\ i \in d .. d + (n + 1) - 1
      BY <1>1, <2>2, PlacesAre
    <3> QED
      BY <1>3, <1>4, <3>1 DEF IsCut
  <2>3. CASE i \notin d .. d + n
    <3>1. i \notin d .. d + (n + 1) - 1
      BY <1>1, <2>3, PlacesAre
    <3> QED
      BY <1>3, <1>4, <2>3, <3>1 DEF IsCut
  <2> QED
    BY <1>1, <2>1, <2>2, <2>3, PlacesAre
<1>7. w = c
  BY <1>5, <1>6
<1> QED
  BY <1>7 DEF w, c

\* The k bytes at d of c are those at y of m.
Copied(c, d, m, y, k) == \A j \in 0 .. k - 1 : c[d + j] = m[y + j]

\* A piece of a text, as a sequence.
Piece(t, x, k) == SubSeq(t, x + 1, x + k)
LEMMA PieceIs ==
  ASSUME NEW t \in Seq(Chars), NEW x \in Nat, NEW k \in Nat, x + k <= Len(t)
  PROVE  Piece(t, x, k) \in Seq(Chars) /\ Len(Piece(t, x, k)) = k /\ \A i \in 1 .. k : Piece(t, x, k)[i] = t[x + i]
<1> DEFINE v == Piece(t, x, k)
           n == Len(t)
<1>1. n \in Nat
  OBVIOUS
<1>2. v = [i \in 1 .. (x + k) - (x + 1) + 1 |-> t[(x + 1) + i - 1]]
  BY DEF Piece, SubSeq
<1>3. (x + k) - (x + 1) + 1 = k
  OBVIOUS
<1>4. v = [i \in 1 .. k |-> t[(x + 1) + i - 1]]
  BY <1>2, <1>3
<1>5. \A i \in 1 .. k : (x + 1) + i - 1 = x + i /\ x + i \in 1 .. n
  BY <1>1
<1>6. \A i \in 1 .. n : t[i] \in Chars
  BY <1>1, ElementOfSeq
<1> HIDE DEF v, n
<1>7. \A i \in 1 .. k : v[i] = t[x + i] /\ v[i] \in Chars
  BY <1>4, <1>5, <1>6
<1>8. v \in [1 .. k -> Chars]
  BY <1>4, <1>7
<1>9. v \in Seq(Chars) /\ Len(v) = k
  BY <1>8
<1> QED
  BY <1>7, <1>9 DEF v

\* A text with the bytes of part of another is that part.
LEMMA TextFront ==
  ASSUME NEW m \in Arrays, NEW c \in Arrays, NEW a, NEW n, NEW d, NEW k, NEW x \in Nat, NEW y, y = a + x,
         IsLen(m, a, n), IsLen(c, d, k), x + k <= n, Copied(c, d, m, y, k)
  PROVE  TextAt(c, d) = Piece(TextAt(m, a), x, k)
<1>1. n \in Nat /\ k \in Nat /\ a \in Nat /\ d \in Nat
  BY DEF IsLen
<1> DEFINE t == TextAt(m, a)
           u == TextAt(c, d)
           v == Piece(t, x, k)
<1>2. t \in Seq(Chars) /\ Len(t) = n /\ \A i \in 1 .. n : t[i] = m[a + i - 1]
  BY TextIs
<1>3. u \in Seq(Chars) /\ Len(u) = k /\ \A i \in 1 .. k : u[i] = c[d + i - 1]
  BY TextIs
<1> HIDE DEF t, u
<1>4. v \in Seq(Chars) /\ Len(v) = k /\ \A i \in 1 .. k : v[i] = t[x + i]
  BY <1>1, <1>2, PieceIs
<1>5. ASSUME NEW i \in 1 .. k PROVE u[i] = v[i]
  <2> DEFINE j == i - 1
  <2>1. j \in 0 .. k - 1 /\ d + j = d + i - 1 /\ y + j = a + (x + i) - 1 /\ x + i \in 1 .. n
    BY <1>1
  <2>2. c[d + j] = m[y + j]
    BY <2>1 DEF Copied
  <2> QED
    BY <1>2, <1>3, <1>4, <2>1, <2>2
<1> HIDE DEF v
<1>6. u = v
  BY <1>1, <1>3, <1>4, <1>5, SeqEqual
<1> QED
  BY <1>6 DEF t, u, v

\* The same from the beginning of the text.
LEMMA TextStart ==
  ASSUME NEW m \in Arrays, NEW c \in Arrays, NEW a, NEW n, NEW d, NEW k, IsLen(m, a, n), IsLen(c, d, k), k <= n,
         Copied(c, d, m, a, k)
  PROVE  TextAt(c, d) = SubSeq(TextAt(m, a), 1, k)
<1>1. a \in Nat /\ k \in Nat /\ n \in Nat /\ d \in Nat
  BY DEF IsLen
<1>2. ASSUME NEW x \in Nat, x = 0
      PROVE  TextAt(c, d) = Piece(TextAt(m, a), x, k)
  <2>1. x + k <= n
    BY <1>1, <1>2
  <2>2. PICK y : y = a + x /\ y = a
    BY <1>1, <1>2
  <2>3. Copied(c, d, m, y, k)
    BY <2>2
  <2> QED
    BY <2>1, <2>2, <2>3, TextFront
<1>3. 0 + 1 = 1 /\ 0 + k = k
  BY <1>1
<1>4. TextAt(c, d) = Piece(TextAt(m, a), 0, k)
  BY <1>2
<1> QED
  BY <1>3, <1>4 DEF Piece

\* A destination in front of the source, with room up to it.
LEMMA RoomIs ==
  ASSUME NEW a \in Places, NEW d \in 0 .. a - 1, NEW size \in 0 .. a - d
  PROVE  d \in Nat /\ a \in Nat /\ d <= a /\ size \in Nat /\ d + size <= a /\ a < TEXT_SIZE
<1>1. a \in Nat /\ a < TEXT_SIZE
  BY PlacesAre
<1>2. d \in Nat /\ d <= a
  BY <1>1
<1> QED
  BY <1>1, <1>2

\* What a call with a destination of some size may write.
Stays(c, d, size) == \A i \in DOMAIN array : c[i] # array[i] => i \in d .. d + size - 1

\* strlcpy and strncpy stay inside; strlcpy gives the beginning of the text.
LEMMA CopiesInside ==
  ASSUME array \in Arrays, NEW a \in Places, NEW n, IsLen(array, a, n), NEW d \in 0 .. a - 1, NEW size \in 0 .. a - d
  PROVE  LET t == TextAt(array, a)
             m == strlcpy(array, d, a, size)
         IN  /\ Stays(m, d, size)
             /\ size > 0 => /\ ends(m, d) /\ strlen(m, d) < size
                            /\ TextAt(m, d) = SubSeq(t, 1, strlen(m, d))
                            /\ Len(t) < size => TextAt(m, d) = t
             /\ Stays(strncpy(array, d, a, size), d, size)
<1> DEFINE t == TextAt(array, a)
           m == strlcpy(array, d, a, size)
<1>1. /\ d \in Nat /\ a \in Nat /\ d <= a /\ size \in Nat /\ d + size <= a /\ a < TEXT_SIZE
      /\ n \in Nat /\ a + n < TEXT_SIZE /\ DOMAIN array = Places /\ strlen(array, a) = n
  BY RoomIs, LenOf DEF IsLen, Arrays
<1>2. Stays(strncpy(array, d, a, size), d, size)
  <2> DEFINE k == IF n < size THEN n ELSE size
             w == MovedTo(array, d, a, k)
             c == strncpy(array, d, a, size)
  <2>1. k \in Nat /\ k <= size /\ a + k <= TEXT_SIZE
    BY <1>1, PlacesAre
  <2>2. c = memset(memcpy(array, d, a, k), d + k, NUL, size - k)
    BY <1>1 DEF strncpy
  <2> HIDE DEF k
  <2>3. memcpy(array, d, a, k) = w
    BY <1>1, <2>1, FrontCopy DEF Arrays
  <2>4. c = [i \in Places |-> IF i \in d + k .. d + k + (size - k) - 1 THEN NUL ELSE w[i]]
    BY <2>2, <2>3 DEF memset
  <2>5. \A i \in Places : i \notin d .. d + k - 1 => w[i] = array[i]
    BY DEF MovedTo
  <2> HIDE DEF w, c
  <2> SUFFICES ASSUME NEW i \in Places, c[i] # array[i] PROVE i \in d .. d + size - 1
    BY <1>1 DEF Stays, c
  <2>6. i \in d + k .. d + k + (size - k) - 1 \/ i \in d .. d + k - 1
    BY <2>4, <2>5
  <2> QED
    BY <1>1, <2>1, <2>6
<1>3. CASE size = 0
  <2>1. m = array
    BY <1>3 DEF strlcpy
  <2> QED
    BY <1>1, <1>2, <1>3, <2>1 DEF Stays
<1>4. CASE size # 0
  <2> DEFINE k == IF n < size - 1 THEN n ELSE size - 1
  <2>1. size \in Nat \ {0}
    BY <1>1, <1>4
  <2>2. k \in 0 .. n /\ k < size /\ IsCut(m, array, d, a, k) /\ IsLen(m, d, k)
    BY <1>1, <2>1, LcpyIs
  <2>3. Len(t) = n
    BY TextIs
  <2>4. Len(t) < size => k = n
    BY <1>1, <2>1, <2>3
  <2> HIDE DEF k, m
  <2>5. k \in Nat /\ m \in Arrays /\ ends(m, d) /\ strlen(m, d) = k
    BY <1>1, <2>2, LenOf DEF IsCut
  <2>6. Stays(m, d, size)
    <3> SUFFICES ASSUME NEW i \in Places, m[i] # array[i] PROVE i \in d .. d + size - 1
      BY <1>1 DEF Stays
    <3>1. i \in d .. d + k
      BY <2>2 DEF IsCut
    <3> QED
      BY <1>1, <2>2, <2>5, <3>1
  <2>7. TextAt(m, d) = SubSeq(t, 1, k)
    <3>1. Copied(m, d, array, a, k)
      BY <2>2 DEF IsCut, Copied
    <3>2. k <= n
      BY <1>1, <2>2
    <3> QED
      BY <2>2, <2>5, <3>1, <3>2, TextStart
  <2>8. Len(t) < size => TextAt(m, d) = t
    <3> SUFFICES ASSUME Len(t) < size PROVE TextAt(m, d) = t
      OBVIOUS
    <3>1. k = n
      BY <2>4
    <3>2. \A j \in 0 .. n - 1 : m[d + j] = array[a + j]
      BY <2>2, <3>1 DEF IsCut
    <3> QED
      BY <2>2, <2>5, <3>1, <3>2, SameText
  <2> QED
    BY <1>2, <2>2, <2>5, <2>6, <2>7, <2>8 DEF m
<1> QED
  BY <1>1, <1>3, <1>4

\* strlcat stays inside too and leaves a text.
LEMMA AppendsInside ==
  ASSUME array \in Arrays, NEW a \in Places, NEW n, IsLen(array, a, n), NEW d \in 0 .. a - 1, NEW size \in 0 .. a - d,
         NEW l, IsLen(array, d, l)
  PROVE  LET c == strlcat(array, d, a, size)
         IN  /\ Stays(c, d, size)
             /\ l < size => ends(c, d) /\ strlen(c, d) < size
<1> DEFINE c == strlcat(array, d, a, size)
<1>1. /\ d \in Nat /\ a \in Nat /\ d <= a /\ size \in Nat /\ d + size <= a /\ a < TEXT_SIZE
      /\ n \in Nat /\ a + n < TEXT_SIZE /\ DOMAIN array = Places /\ strlen(array, d) = l /\ l \in Nat
  BY RoomIs, LenOf DEF IsLen, Arrays
<1>2. CASE ~(l < size)
  <2>1. c = array
    BY <1>1, <1>2 DEF strlcat
  <2> QED
    BY <1>2, <2>1 DEF Stays
<1>3. CASE l < size
  <2> DEFINE e == d + l
             z == size - l
             k == IF n < z - 1 THEN n ELSE z - 1
  <2>1. e \in Nat /\ z \in Nat \ {0} /\ e <= a /\ e + z = d + size
    BY <1>1, <1>3
  <2>2. c = strlcpy(array, e, a, z)
    BY <1>1, <1>3 DEF strlcat
  <2> HIDE DEF c, e, z
  <2>3. k \in 0 .. n /\ k < z /\ IsCut(c, array, e, a, k) /\ IsLen(c, e, k)
    BY <1>1, <2>1, <2>2, LcpyIs
  <2> HIDE DEF k
  <2>4. k \in Nat /\ c[e + k] = NUL /\ (\A j \in 0 .. k - 1 : c[e + j] # NUL)
        /\ \A i \in Places : i \notin e .. e + k => c[i] = array[i]
    BY <1>1, <2>3 DEF IsCut, IsLen
  <2>5. Stays(c, d, size)
    <3> SUFFICES ASSUME NEW i \in Places, c[i] # array[i] PROVE i \in d .. d + size - 1
      BY <1>1 DEF Stays
    <3>1. i \in e .. e + k
      BY <2>4
    <3> QED
      BY <1>1, <2>1, <2>3, <2>4, <3>1 DEF e
  <2>6. IsLen(c, d, l + k)
    <3>1. d + (l + k) = e + k /\ l + k \in Nat /\ e + k < TEXT_SIZE
      BY <1>1, <2>1, <2>3, <2>4 DEF e, IsLen
    <3>2. ASSUME NEW j \in 0 .. l + k - 1 PROVE c[d + j] # NUL
      <4>1. CASE j < l
        <5>1. d + j \in Places /\ d + j \notin e .. e + k /\ j \in 0 .. l - 1
          <6>1. j \in Nat /\ j < l /\ d + l < TEXT_SIZE
            BY <1>1, <2>4, <4>1 DEF IsLen
          <6> QED
            BY <1>1, <2>4, <6>1, PlacesAre DEF e
        <5>2. array[d + j] # NUL
          BY <5>1 DEF IsLen
        <5> QED
          BY <2>4, <5>1, <5>2
      <4>2. CASE ~(j < l)
        <5>1. j - l \in 0 .. k - 1 /\ e + (j - l) = d + j
          BY <1>1, <2>4, <4>2 DEF e
        <5> QED
          BY <2>4, <5>1
      <4> QED
        BY <4>1, <4>2
    <3> QED
      BY <1>1, <2>4, <3>1, <3>2 DEF IsLen
  <2>7. ends(c, d) /\ strlen(c, d) = l + k
    BY <2>6, LenOf
  <2>8. l + k < size
    BY <1>1, <2>1, <2>3, <2>4 DEF e
  <2> QED
    BY <2>5, <2>7, <2>8 DEF c
<1> QED
  BY <1>2, <1>3

\* With room for both, all ways to append give both texts.
LEMMA AppendsWhole ==
  ASSUME array \in Arrays, NEW a \in Places, NEW n, IsLen(array, a, n), NEW d \in 0 .. a - 1, NEW size \in 0 .. a - d,
         NEW l, IsLen(array, d, l), l + n < size
  PROVE  /\ TextAt(strcat(array, d, a), d) = TextAt(array, d) \o TextAt(array, a)
         /\ str_append(array, d, a) = strcat(array, d, a)
         /\ strlcat(array, d, a, size) = strcat(array, d, a)
<1> DEFINE e == d + l
           c == CutTo(array, e, a, n)
           z == size - l
<1>1. /\ d \in Nat /\ a \in Nat /\ d <= a /\ size \in Nat /\ d + size <= a /\ a < TEXT_SIZE
      /\ n \in Nat /\ a + n < TEXT_SIZE /\ a + n <= TEXT_SIZE /\ strlen(array, d) = l /\ l \in Nat /\ strlen(array, a) = n
  <2>1. d \in Nat /\ a \in Nat /\ d <= a /\ size \in Nat /\ d + size <= a /\ a < TEXT_SIZE
    BY RoomIs
  <2>2. n \in Nat /\ a + n < TEXT_SIZE /\ l \in Nat
    BY DEF IsLen
  <2>3. strlen(array, d) = l /\ strlen(array, a) = n
    BY LenOf
  <2> QED
    BY <2>1, <2>2, <2>3, PlacesAre
<1>2. e \in Nat /\ e <= a /\ e + n < TEXT_SIZE /\ l < size /\ z \in Nat \ {0} /\ ~(z - 1 < n)
  BY <1>1, PlacesAre
<1>3. strcat(array, d, a) = memcpy(array, e, a, n + 1) /\ str_append(array, d, a) = memcpy(array, e, a, n + 1)
  BY <1>1 DEF strcat, strcpy, str_append
<1>4. strlcat(array, d, a, size) = strlcpy(array, e, a, z)
  BY <1>1, <1>2 DEF strlcat
<1> HIDE DEF e, z
<1>5. strlcpy(array, e, a, z) = c
  <2>1. strlcpy(array, e, a, z) = CutTo(array, e, a, IF n < z - 1 THEN n ELSE z - 1)
    BY <1>1, <1>2, LcpyIs
  <2>2. (IF n < z - 1 THEN n ELSE z - 1) = n
    BY <1>1, <1>2
  <2> QED
    BY <2>1, <2>2
<1>6. memcpy(array, e, a, n + 1) = c
  BY <1>1, <1>2, WholeIsCut
<1>7. IsCut(c, array, e, a, n)
  BY <1>1, <1>2, CutIs
<1> HIDE DEF c
<1>8. c \in Arrays /\ c[e + n] = NUL /\ (\A j \in 0 .. n - 1 : c[e + j] = array[a + j])
      /\ \A i \in Places : i \notin e .. e + n => c[i] = array[i]
  BY <1>7 DEF IsCut
<1>9. ASSUME NEW j \in 0 .. l - 1 PROVE c[d + j] = array[d + j] /\ array[d + j] # NUL
  <2>1. d + j \in Places /\ d + j \notin e .. e + n
    BY <1>1, PlacesAre DEF e
  <2> QED
    BY <1>8, <2>1 DEF IsLen
<1>10. IsLen(c, d, l + n)
  <2>1. d + (l + n) = e + n /\ l + n \in Nat
    BY <1>1 DEF e
  <2>2. ASSUME NEW j \in 0 .. l + n - 1 PROVE c[d + j] # NUL
    <3>1. CASE j < l
      <4>1. j \in 0 .. l - 1
        BY <1>1, <3>1
      <4> QED
        BY <1>9, <4>1
    <3>2. CASE ~(j < l)
      <4>1. j - l \in 0 .. n - 1 /\ e + (j - l) = d + j
        BY <1>1, <3>2 DEF e
      <4> QED
        BY <1>8, <4>1 DEF IsLen
    <3> QED
      BY <3>1, <3>2
  <2> QED
    BY <1>1, <1>2, <1>8, <2>1, <2>2 DEF IsLen
<1> DEFINE t == TextAt(array, a)
           q == TextAt(array, d)
           u == TextAt(c, d)
<1>11. /\ t \in Seq(Chars) /\ Len(t) = n /\ \A i \in 1 .. n : t[i] = array[a + i - 1]
       /\ q \in Seq(Chars) /\ Len(q) = l /\ \A i \in 1 .. l : q[i] = array[d + i - 1]
  BY TextIs
<1>12. u \in Seq(Chars) /\ Len(u) = l + n /\ \A i \in 1 .. l + n : u[i] = c[d + i - 1]
  BY <1>8, <1>10, TextIs
<1> HIDE DEF t, q, u
<1>13. q \o t \in Seq(Chars) /\ Len(q \o t) = l + n
       /\ \A i \in 1 .. l + n : (q \o t)[i] = IF i <= l THEN q[i] ELSE t[i - l]
  <2>1. q \o t \in Seq(Chars) /\ Len(q \o t) = Len(q) + Len(t)
    BY <1>11, ConcatProperties
  <2>2. \A i \in 1 .. Len(q) + Len(t) : (q \o t)[i] = IF i <= Len(q) THEN q[i] ELSE t[i - Len(q)]
    BY <1>11, ConcatProperties
  <2> QED
    BY <1>11, <2>1, <2>2
<1>14. ASSUME NEW i \in 1 .. l + n PROVE u[i] = (q \o t)[i]
  <2>1. CASE i <= l
    <3>1. i - 1 \in 0 .. l - 1 /\ d + (i - 1) = d + i - 1 /\ i \in 1 .. l
      BY <1>1, <2>1
    <3>2. u[i] = c[d + i - 1] /\ c[d + i - 1] = array[d + i - 1]
      BY <1>9, <1>12, <3>1
    <3> QED
      BY <1>11, <1>13, <2>1, <3>1, <3>2
  <2>2. CASE ~(i <= l)
    <3> DEFINE j == i - l - 1
    <3>1. j \in 0 .. n - 1 /\ e + j = d + i - 1 /\ a + j = a + (i - l) - 1 /\ i - l \in 1 .. n
      BY <1>1, <2>2 DEF e
    <3>2. u[i] = c[e + j] /\ c[e + j] = array[a + j]
      BY <1>8, <1>12, <3>1
    <3>3. t[i - l] = array[a + j]
      BY <1>11, <3>1
    <3> QED
      BY <1>13, <2>2, <3>2, <3>3
  <2> QED
    BY <1>1, <2>1, <2>2
<1>15. u = q \o t
  BY <1>1, <1>12, <1>13, <1>14, SeqEqual
<1> QED
  BY <1>3, <1>4, <1>5, <1>6, <1>15 DEF t, q, u

\* What str_trim keeps: x bytes are dropped in front, k kept, the rest dropped.
Trimmed(m, a, n, x, k) ==
    /\ x \in Nat /\ k \in Nat /\ x + k <= n
    /\ k > 0 => m[a + x] # BLANK /\ m[a + (x + k) - 1] # BLANK
    /\ \A j \in 0 .. n - 1 : j < x \/ j >= x + k => m[a + j] = BLANK

\* str_trim cuts these out, and what it cuts out lies inside the text.
LEMMA TrimIs ==
  ASSUME NEW m \in Arrays, NEW a, NEW n, IsLen(m, a, n)
  PROVE  \E x, k : Trimmed(m, a, n, x, k) /\ str_trim(m, a) = CutTo(m, a, a + x, k)
<1> DEFINE Q(k) == m[k] # BLANK /\ \A j \in a .. k - 1 : ~(m[j] # BLANK)
           start == CHOOSE k \in a .. TEXT_SIZE : Q(k)
           stop == a + n - 1
           S == {k \in start .. stop : m[k] # BLANK \/ k = start}
           final == IF S = {} THEN start - 1 ELSE CHOOSE k \in S : \A j \in S : j <= k
<1>1. a \in Nat /\ n \in Nat /\ a + n < TEXT_SIZE /\ strlen(m, a) = n /\ m[a + n] = NUL
  BY LenOf DEF IsLen
<1>2. str_trim(m, a) = memset(memcpy(m, a, start, final - start + 1), a + final - start + 1, NUL, 1)
  BY <1>1 DEF str_trim, first_where
<1>3. start \in a .. a + n /\ Q(start)
  <2> DEFINE T == {k \in a .. TEXT_SIZE : k <= a + n /\ m[k] # BLANK}
  <2>1. a + n \in T
    BY <1>1, PlacesAre DEF NUL, BLANK
  <2>2. PICK i \in T : i \in a .. TEXT_SIZE /\ \A j \in a .. i - 1 : j \notin T
    BY <1>1, <2>1, FirstExists
  <2>3. i \in a .. a + n /\ m[i] # BLANK
    BY <1>1, <2>2, PlacesAre
  <2>4. \A j \in a .. i - 1 : ~(m[j] # BLANK)
    BY <1>1, <2>2, <2>3, PlacesAre
  <2>5. Q(i)
    BY <2>3, <2>4
  <2>6. start \in a .. TEXT_SIZE /\ Q(start)
    <3> HIDE DEF Q
    <3> QED
      BY <2>2, <2>5
  <2> HIDE DEF start, T
  <2>7. ~(i < start)
    BY <1>1, <2>3, <2>6, PlacesAre
  <2> QED
    BY <1>1, <2>3, <2>6, <2>7, PlacesAre
<1> HIDE DEF start
<1>4. start \in Nat /\ stop \in Int /\ start <= a + n /\ S \subseteq Places
  <2>1. start \in Nat /\ stop \in Int /\ start <= a + n
    BY <1>1, <1>3
  <2> HIDE DEF stop
  <2>2. stop < TEXT_SIZE
    BY <1>1, PlacesAre DEF stop
  <2> QED
    BY <2>1, <2>2, PlacesAre
<1>5. CASE S = {}
  <2>1. final = start - 1
    BY <1>5
  <2>2. start = a + n
    <3> SUFFICES ASSUME start # a + n PROVE FALSE
      OBVIOUS
    <3>1. start \in start .. stop
      BY <1>1, <1>4
    <3> QED
      BY <1>5, <3>1
  <2> HIDE DEF final
  <2>3. final - start + 1 = 0 /\ a + final - start + 1 = a + 0
    BY <1>1, <1>4, <2>1
  <2>4. str_trim(m, a) = CutTo(m, a, a + n, 0)
    BY <1>2, <2>2, <2>3 DEF CutTo
  <2>5. ASSUME NEW j \in 0 .. n - 1 PROVE m[a + j] = BLANK
    <3>1. a + j \in a .. start - 1
      BY <1>1, <2>2
    <3> QED
      BY <1>3, <3>1
  <2>6. Trimmed(m, a, n, n, 0)
    <3>1. 0 \in Nat /\ n + 0 <= n /\ ~(0 > 0)
      BY <1>1
    <3> QED
      BY <1>1, <2>5, <3>1 DEF Trimmed
  <2> QED
    BY <2>4, <2>6
<1>6. CASE S # {}
  <2>1. \E k \in S : \A j \in S : j <= k
    BY <1>4, <1>6, LastExists
  <2>2. final \in S /\ \A j \in S : j <= final
    BY <1>6, <2>1
  <2>3. final \in start .. stop /\ (m[final] # BLANK \/ final = start)
    BY <2>2
  <2> DEFINE x == start - a
             k == final - start + 1
  <2> HIDE DEF final
  <2>4. final \in Nat /\ start <= final /\ final <= a + n - 1
    BY <1>1, <1>4, <2>3
  <2>5. x \in Nat /\ k \in Nat /\ k > 0 /\ x + k <= n /\ a + x = start /\ a + (x + k) - 1 = final
        /\ a + final - start + 1 = a + k
    BY <1>1, <1>3, <1>4, <2>4
  <2>6. str_trim(m, a) = CutTo(m, a, a + x, k)
    BY <1>2, <2>5 DEF CutTo
  <2>7. m[start] # BLANK /\ m[final] # BLANK
    BY <1>3, <2>3
  <2>8. ASSUME NEW j \in 0 .. n - 1, j < x \/ j >= x + k PROVE m[a + j] = BLANK
    <3>1. CASE j < x
      <4>1. a + j \in a .. start - 1
        BY <1>1, <1>4, <2>5, <3>1
      <4> QED
        BY <1>3, <4>1
    <3>2. CASE j >= x + k
      <4>1. a + j \in start .. stop /\ ~(a + j <= final) /\ a + j # start
        BY <1>1, <1>4, <2>4, <3>2
      <4>2. a + j \notin S
        <5> HIDE DEF S
        <5> QED
          BY <2>2, <4>1
      <4> QED
        BY <4>1, <4>2
    <3> QED
      BY <2>8, <3>1, <3>2
  <2> HIDE DEF x, k
  <2>9. Trimmed(m, a, n, x, k)
    BY <2>5, <2>7, <2>8 DEF Trimmed
  <2> QED
    BY <2>6, <2>9
<1> QED
  BY <1>5, <1>6

\* The trimmed text, as an array and as a sequence.
LEMMA TrimText ==
  ASSUME NEW m \in Arrays, NEW a, NEW n, IsLen(m, a, n)
  PROVE  LET t == TextAt(m, a)
             u == TextAt(str_trim(m, a), a)
         IN  /\ str_trim(m, a) \in Arrays
             /\ u # <<>> => u[1] # BLANK /\ u[Len(u)] # BLANK
             /\ \E i \in 0 .. Len(t) : \E j \in i .. Len(t) :
                  /\ u = SubSeq(t, i + 1, j)
                  /\ \A k \in 1 .. Len(t) : k <= i \/ k > j => t[k] = BLANK
<1> DEFINE t == TextAt(m, a)
           c == str_trim(m, a)
           u == TextAt(c, a)
<1>1. a \in Nat /\ n \in Nat /\ a + n < TEXT_SIZE
  BY DEF IsLen
<1>2. PICK x, k : Trimmed(m, a, n, x, k) /\ c = CutTo(m, a, a + x, k)
  BY TrimIs
<1> HIDE DEF c
<1>3. x \in Nat /\ k \in Nat /\ x + k <= n
  BY <1>2 DEF Trimmed
<1> DEFINE y == a + x
<1>4. y \in Nat /\ a <= y /\ y + k <= TEXT_SIZE /\ a + k < TEXT_SIZE
  BY <1>1, <1>3, PlacesAre
<1>5. \A j \in 0 .. k - 1 : m[y + j] # NUL
  <2> SUFFICES ASSUME NEW j \in 0 .. k - 1 PROVE m[y + j] # NUL
    OBVIOUS
  <2>1. x + j \in 0 .. n - 1 /\ a + (x + j) = y + j
    BY <1>1, <1>3
  <2> QED
    BY <2>1 DEF IsLen
<1> HIDE DEF y
<1>6. IsCut(c, m, a, y, k)
  BY <1>1, <1>2, <1>3, <1>4, CutIs DEF y
<1>7. IsLen(c, a, k) /\ c \in Arrays /\ Copied(c, a, m, y, k)
  BY <1>1, <1>3, <1>4, <1>5, <1>6, CutLen DEF IsCut, Copied
<1>8. u = Piece(t, x, k)
  BY <1>3, <1>7, TextFront DEF y
<1>9. /\ Len(u) = k /\ u \in Seq(Chars) /\ \A i \in 1 .. k : u[i] = c[a + i - 1]
      /\ Len(t) = n /\ \A i \in 1 .. n : t[i] = m[a + i - 1]
  BY <1>7, TextIs
<1>10. u # <<>> => u[1] # BLANK /\ u[Len(u)] # BLANK
  <2> SUFFICES ASSUME u # <<>> PROVE u[1] # BLANK /\ u[Len(u)] # BLANK
    OBVIOUS
  <2>1. k > 0
    <3> HIDE DEF u
    <3> QED
      BY <1>3, <1>9, EmptySeq
  <2>2. 1 \in 1 .. k /\ k \in 1 .. k /\ a + 1 - 1 = a + 0 /\ a + k - 1 = a + (k - 1) /\ 0 \in 0 .. k - 1 /\ k - 1 \in 0 .. k - 1
    BY <1>1, <1>3, <2>1
  <2>3. u[1] = m[y + 0] /\ u[k] = m[y + (k - 1)]
    BY <1>7, <1>9, <2>2 DEF Copied
  <2>4. y + 0 = a + x /\ y + (k - 1) = a + (x + k) - 1
    BY <1>1, <1>3 DEF y
  <2> QED
    BY <1>2, <1>9, <2>1, <2>3, <2>4 DEF Trimmed
<1>11. ASSUME NEW i \in 1 .. n, i <= x \/ i > x + k PROVE t[i] = BLANK
  <2>1. i - 1 \in 0 .. n - 1 /\ (i - 1 < x \/ i - 1 >= x + k) /\ a + (i - 1) = a + i - 1
    BY <1>1, <1>3, <1>11
  <2>2. m[a + (i - 1)] = BLANK
    BY <1>2, <2>1 DEF Trimmed
  <2> QED
    BY <1>9, <2>1, <2>2
<1>12. x \in 0 .. n /\ x + k \in x .. n
  BY <1>1, <1>3
<1>13. u = SubSeq(t, x + 1, x + k)
  BY <1>8 DEF Piece
<1> HIDE DEF u, t
<1>14. \E i \in 0 .. Len(t) : \E j \in i .. Len(t) :
         /\ u = SubSeq(t, i + 1, j)
         /\ \A h \in 1 .. Len(t) : h <= i \/ h > j => t[h] = BLANK
  BY <1>9, <1>11, <1>12, <1>13
<1> QED
  BY <1>7, <1>10, <1>14 DEF u, t, c

\* Reversing a text in place keeps its length, and reversing it again gives it back.
LEMMA ReverseIs ==
  ASSUME NEW m \in Arrays, NEW a, NEW n, IsLen(m, a, n)
  PROVE  str_reverse(str_reverse(m, a), a) = m /\ strlen(str_reverse(m, a), a) = n
<1> DEFINE r == str_reverse(m, a)
           q == str_reverse(r, a)
           back(i) == a + n - 1 - (i - a)
<1>1. a \in Nat /\ n \in Nat /\ a + n < TEXT_SIZE /\ m[a + n] = NUL /\ \A j \in 0 .. n - 1 : m[a + j] # NUL
  BY DEF IsLen
<1>2. r = [i \in Places |-> IF i \in a .. a + n - 1 THEN m[back(i)] ELSE m[i]]
  BY LenOf DEF str_reverse
<1>3. \A i \in Places : r[i] = IF i \in a .. a + n - 1 THEN m[back(i)] ELSE m[i]
  BY <1>2
<1>4. \A i \in a .. a + n - 1 : back(i) \in a .. a + n - 1 /\ back(back(i)) = i /\ back(i) \in Places /\ i \in Places
  BY <1>1, PlacesAre
<1> HIDE DEF r
<1>5. IsLen(r, a, n)
  <2>1. a + n \in Places /\ a + n \notin a .. a + n - 1
    BY <1>1, PlacesAre
  <2>2. r[a + n] = NUL
    BY <1>1, <1>3, <2>1
  <2>3. ASSUME NEW j \in 0 .. n - 1 PROVE r[a + j] # NUL
    <3>1. a + j \in a .. a + n - 1 /\ n - 1 - j \in 0 .. n - 1 /\ back(a + j) = a + (n - 1 - j)
      BY <1>1
    <3>2. a + j \in Places
      BY <1>4, <3>1
    <3>3. r[a + j] = m[a + (n - 1 - j)]
      BY <1>3, <3>1, <3>2
    <3> QED
      BY <1>1, <3>1, <3>3
  <2> QED
    BY <1>1, <2>2, <2>3 DEF IsLen
<1>6. strlen(r, a) = n
  BY <1>5, LenOf
<1>7. q = [i \in Places |-> IF i \in a .. a + n - 1 THEN r[back(i)] ELSE r[i]]
  BY <1>6 DEF str_reverse
<1>8. ASSUME NEW i \in Places PROVE q[i] = m[i]
  <2>1. CASE i \in a .. a + n - 1
    <3> DEFINE b == back(i)
    <3>1. b \in a .. a + n - 1 /\ b \in Places /\ back(b) = i
      BY <1>4, <2>1
    <3>2. q[i] = r[b]
      BY <1>7, <2>1
    <3> HIDE DEF b
    <3>3. r[b] = m[back(b)]
      BY <1>3, <3>1
    <3> QED
      BY <3>1, <3>2, <3>3
  <2>2. CASE i \notin a .. a + n - 1
    BY <1>3, <1>7, <2>2
  <2> QED
    BY <2>1, <2>2
<1>9. q = [i \in Places |-> q[i]] /\ m = [i \in Places |-> m[i]]
  BY <1>7 DEF Arrays
<1> HIDE DEF q
<1>10. q = m
  BY <1>8, <1>9
<1> QED
  BY <1>6, <1>10 DEF q, r

\* Two texts, byte by byte: where they first differ or both end.
Agree(m, a, b, k) == \A j \in 0 .. k - 1 : m[a + j] = m[b + j]
Parting(m, a, b, k) ==
    /\ k \in Nat /\ Agree(m, a, b, k) /\ \A j \in 0 .. k - 1 : m[a + j] # NUL
    /\ m[a + k] = NUL \/ m[a + k] # m[b + k]
PartAt(m, a, b, n, l, k) ==
    /\ IsLen(m, a, n) /\ IsLen(m, b, l) /\ Parting(m, a, b, k)
    /\ k \in 0 .. TEXT_SIZE /\ k <= n /\ k <= l

\* Two texts part no later than the shorter one ends.
LEMMA TheyPart ==
  ASSUME NEW m, NEW a, NEW b, NEW n, NEW l, IsLen(m, a, n), IsLen(m, b, l)
  PROVE  \E k : PartAt(m, a, b, n, l, k)
<1> DEFINE S == {k \in 0 .. TEXT_SIZE : k <= n /\ (m[a + k] = NUL \/ m[a + k] # m[b + k])}
<1>1. a \in Nat /\ b \in Nat /\ n \in Nat /\ l \in Nat /\ a + n < TEXT_SIZE /\ m[a + n] = NUL
      /\ (\A j \in 0 .. n - 1 : m[a + j] # NUL) /\ m[b + l] = NUL
  BY DEF IsLen
<1>2. n \in S
  BY <1>1, PlacesAre
<1>3. PICK k \in S : k \in 0 .. TEXT_SIZE /\ \A j \in 0 .. k - 1 : j \notin S
  <2>1. 0 \in Nat /\ S \subseteq 0 .. TEXT_SIZE
    OBVIOUS
  <2> HIDE DEF S
  <2> QED
    BY <1>2, <2>1, FirstExists
<1>4. k \in Nat /\ k <= n /\ (m[a + k] = NUL \/ m[a + k] # m[b + k])
  BY <1>3
<1>5. \A j \in 0 .. k - 1 : m[a + j] = m[b + j] /\ m[a + j] # NUL
  BY <1>1, <1>3, <1>4, PlacesAre
<1> HIDE DEF S
<1>6. k <= l
  <2> SUFFICES ASSUME l < k PROVE FALSE
    BY <1>1, <1>4
  <2>1. l \in 0 .. k - 1
    BY <1>1, <1>4
  <2> QED
    BY <1>1, <1>5, <2>1
<1> QED
  BY <1>3, <1>4, <1>5, <1>6 DEF PartAt, Parting, Agree

\* What the place says of the lengths: it is the end of both or of neither.
LEMMA PartingSays ==
  ASSUME NEW m, NEW a, NEW b, NEW n, NEW l, NEW k, PartAt(m, a, b, n, l, k)
  PROVE  /\ m[a + k] = m[b + k] <=> n = l /\ Agree(m, a, b, n)
         /\ m[a + k] = m[b + k] => k = n /\ k = l
         /\ m[b + k] = NUL <=> k = l
         /\ k = l <=> l <= n /\ Agree(m, a, b, l)
<1>1. IsLen(m, a, n) /\ IsLen(m, b, l) /\ Parting(m, a, b, k) /\ k <= n /\ k <= l
  BY DEF PartAt
<1>2. a \in Nat /\ b \in Nat /\ n \in Nat /\ l \in Nat /\ k \in Nat /\ m[a + n] = NUL /\ m[b + l] = NUL
      /\ (\A j \in 0 .. n - 1 : m[a + j] # NUL) /\ \A j \in 0 .. l - 1 : m[b + j] # NUL
  BY <1>1 DEF IsLen, Parting
<1>3. m[a + k] = NUL <=> k = n
  BY <1>1, <1>2
<1>4. m[b + k] = NUL <=> k = l
  BY <1>1, <1>2
<1>5. m[a + k] = m[b + k] => k = n /\ k = l
  BY <1>1, <1>3, <1>4 DEF Parting
<1>6. ASSUME n = l, Agree(m, a, b, n) PROVE m[a + k] = m[b + k]
  <2>1. CASE k = n
    BY <1>2, <1>6, <2>1
  <2>2. CASE k # n
    <3>1. k \in 0 .. n - 1
      BY <1>1, <1>2, <2>2
    <3> QED
      BY <1>6, <3>1 DEF Agree
  <2> QED
    BY <2>1, <2>2
<1>7. ASSUME l <= n, Agree(m, a, b, l), k # l PROVE FALSE
  <2>1. k \in 0 .. l - 1 /\ k \in 0 .. n - 1
    BY <1>1, <1>2, <1>7
  <2> QED
    BY <1>1, <1>2, <1>7, <2>1 DEF Agree, Parting
<1>8. k = l => l <= n /\ Agree(m, a, b, l)
  BY <1>1 DEF Parting
<1>9. k = n => Agree(m, a, b, n)
  BY <1>1 DEF Parting
<1> QED
  BY <1>4, <1>5, <1>6, <1>7, <1>8, <1>9

\* strcmp stops where the texts part.
LEMMA StrcmpIs ==
  ASSUME NEW m, NEW a, NEW b, NEW k \in 0 .. TEXT_SIZE, Parting(m, a, b, k)
  PROVE  strcmp(m, a, b) = m[a + k] - m[b + k]
<1> DEFINE P(i) == m[a + i] = NUL \/ m[a + i] # m[b + i]
           Q(i) == P(i) /\ \A j \in 0 .. i - 1 : ~P(j)
           e == CHOOSE i \in 0 .. TEXT_SIZE : Q(i)
<1>1. strcmp(m, a, b) = m[a + e] - m[b + e]
  BY DEF strcmp, first_where
<1>2. Q(k)
  BY DEF Parting, Agree
<1>3. e \in 0 .. TEXT_SIZE /\ Q(e)
  <2> HIDE DEF Q
  <2> QED
    BY <1>2
<1> HIDE DEF e, P
<1>4. k = e
  <2>1. ~(k < e) /\ ~(e < k)
    BY <1>2, <1>3, PlacesAre
  <2> QED
    BY <1>3, <2>1, PlacesAre
<1> QED
  BY <1>1, <1>4

\* str_equals stops at the end of the second text as well.
LEMMA EqualsIs ==
  ASSUME NEW m, NEW a, NEW b, NEW k \in 0 .. TEXT_SIZE, Parting(m, a, b, k)
  PROVE  str_equals(m, a, b) = (m[a + k] = m[b + k])
<1> DEFINE P(i) == m[a + i] = NUL \/ m[b + i] = NUL \/ m[a + i] # m[b + i]
           Q(i) == P(i) /\ \A j \in 0 .. i - 1 : ~P(j)
           e == CHOOSE i \in 0 .. TEXT_SIZE : Q(i)
<1>1. str_equals(m, a, b) = (m[a + e] = m[b + e])
  BY DEF str_equals, first_where
<1>2. Q(k)
  BY DEF Parting, Agree
<1>3. e \in 0 .. TEXT_SIZE /\ Q(e)
  <2> HIDE DEF Q
  <2> QED
    BY <1>2
<1> HIDE DEF e, P
<1>4. k = e
  <2>1. ~(k < e) /\ ~(e < k)
    BY <1>2, <1>3, PlacesAre
  <2> QED
    BY <1>3, <2>1, PlacesAre
<1> QED
  BY <1>1, <1>4

\* str_starts_with too: the second text ends where they part.
LEMMA StartsIs ==
  ASSUME NEW m, NEW a, NEW b, NEW k \in 0 .. TEXT_SIZE, Parting(m, a, b, k)
  PROVE  str_starts_with(m, a, b) = (m[b + k] = NUL)
<1> DEFINE P(i) == m[b + i] = NUL \/ m[a + i] # m[b + i]
           Q(i) == P(i) /\ \A j \in 0 .. i - 1 : ~P(j)
           e == CHOOSE i \in 0 .. TEXT_SIZE : Q(i)
<1>1. str_starts_with(m, a, b) = (m[b + e] = NUL)
  BY DEF str_starts_with, first_where
<1>2. Q(k)
  BY DEF Parting, Agree
<1>3. e \in 0 .. TEXT_SIZE /\ Q(e)
  <2> HIDE DEF Q
  <2> QED
    BY <1>2
<1> HIDE DEF e, P
<1>4. k = e
  <2>1. ~(k < e) /\ ~(e < k)
    BY <1>2, <1>3, PlacesAre
  <2> QED
    BY <1>3, <2>1, PlacesAre
<1> QED
  BY <1>1, <1>4

\* strncmp stops there unless it has compared enough before.
LEMMA StrncmpIs ==
  ASSUME NEW m, NEW a, NEW b, NEW k \in 0 .. TEXT_SIZE, Parting(m, a, b, k), NEW n \in Nat, k <= n
  PROVE  strncmp(m, a, b, n) = IF k = n THEN 0 ELSE m[a + k] - m[b + k]
<1> DEFINE P(i) == i = n \/ m[a + i] = NUL \/ m[a + i] # m[b + i]
           Q(i) == P(i) /\ \A j \in 0 .. i - 1 : ~P(j)
           e == CHOOSE i \in 0 .. TEXT_SIZE : Q(i)
<1>1. strncmp(m, a, b, n) = IF e = n THEN 0 ELSE m[a + e] - m[b + e]
  BY DEF strncmp, first_where
<1>2. Q(k)
  <2>1. \A j \in 0 .. k - 1 : j # n
    BY PlacesAre
  <2> QED
    BY <2>1 DEF Parting, Agree
<1>3. e \in 0 .. TEXT_SIZE /\ Q(e)
  <2> HIDE DEF Q
  <2> QED
    BY <1>2
<1> HIDE DEF e, P
<1>4. k = e
  <2>1. ~(k < e) /\ ~(e < k)
    BY <1>2, <1>3, PlacesAre
  <2> QED
    BY <1>3, <2>1, PlacesAre
<1> QED
  BY <1>1, <1>4

\* memcmp over the second text and its end compares the texts.
LEMMA MemcmpIs ==
  ASSUME NEW m \in Arrays, NEW a, NEW b, NEW n, NEW l, NEW k, PartAt(m, a, b, n, l, k)
  PROVE  memcmp(m, a, b, l + 1) = 0 <=> m[a + k] = m[b + k]
<1> DEFINE z == l + 1
           P(i) == i = z \/ m[a + i] # m[b + i]
           Q(i) == P(i) /\ \A j \in 0 .. i - 1 : ~P(j)
           e == CHOOSE i \in 0 .. TEXT_SIZE : Q(i)
<1>1. memcmp(m, a, b, l + 1) = IF e = z THEN 0 ELSE m[a + e] - m[b + e]
  BY DEF memcmp, first_where
<1>2. a \in Nat /\ b \in Nat /\ n \in Nat /\ l \in Nat /\ b + l < TEXT_SIZE /\ a + n < TEXT_SIZE
      /\ k \in Nat /\ z \in Nat /\ z \in 0 .. TEXT_SIZE /\ k \in 0 .. TEXT_SIZE /\ k <= n /\ k <= l
  BY PlacesAre DEF IsLen, PartAt
<1>3. CASE m[a + k] = m[b + k]
  <2>1. k = l
    BY <1>3, PartingSays
  <2>2. ASSUME NEW j \in 0 .. z - 1 PROVE ~P(j)
    <3>1. j # z /\ (j = k \/ j \in 0 .. k - 1)
      BY <1>2, <2>1
    <3> QED
      BY <1>3, <3>1 DEF PartAt, Parting, Agree
  <2>3. Q(z)
    BY <2>2
  <2>4. e \in 0 .. TEXT_SIZE /\ Q(e)
    <3> HIDE DEF Q
    <3> QED
      BY <1>2, <2>3
  <2> HIDE DEF e, P, z
  <2>5. z = e
    <3>1. ~(z < e) /\ ~(e < z)
      BY <1>2, <2>3, <2>4, PlacesAre
    <3> QED
      BY <1>2, <2>4, <3>1, PlacesAre
  <2> QED
    BY <1>1, <1>3, <2>5 DEF z
<1>4. CASE m[a + k] # m[b + k]
  <2>1. ASSUME NEW j \in 0 .. k - 1 PROVE ~P(j)
    <3>1. j # z
      BY <1>2
    <3> QED
      BY <3>1 DEF PartAt, Parting, Agree
  <2>2. Q(k)
    BY <1>4, <2>1
  <2>3. e \in 0 .. TEXT_SIZE /\ Q(e)
    <3> HIDE DEF Q
    <3> QED
      BY <1>2, <2>2
  <2>4. k # z
    BY <1>2
  <2> HIDE DEF e, P, z
  <2>5. k = e
    <3>1. ~(k < e) /\ ~(e < k)
      BY <1>2, <2>2, <2>3, PlacesAre
    <3> QED
      BY <1>2, <2>3, <3>1, PlacesAre
  <2>6. m[a + k] \in Int /\ m[b + k] \in Int
    <3>1. a + k \in Places /\ b + k \in Places
      BY <1>2, PlacesAre
    <3>2. m[a + k] \in 0 .. 3 /\ m[b + k] \in 0 .. 3
      BY <3>1 DEF Arrays, Chars
    <3> QED
      BY <3>2
  <2>7. m[a + k] - m[b + k] # 0
    BY <1>4, <2>6
  <2> QED
    BY <1>1, <1>4, <2>4, <2>5, <2>7 DEF z
<1> QED
  BY <1>3, <1>4

\* Equal sequences are equal bytes, also for a part of the first text.
LEMMA SameIs ==
  ASSUME NEW m \in Arrays, NEW a, NEW b, NEW n, NEW l, IsLen(m, a, n), IsLen(m, b, l)
  PROVE  TextAt(m, a) = TextAt(m, b) <=> n = l /\ Agree(m, a, b, n)
<1> DEFINE s == TextAt(m, a)
           t == TextAt(m, b)
<1>1. /\ Len(s) = n /\ (\A i \in 1 .. n : s[i] = m[a + i - 1])
      /\ Len(t) = l /\ (\A i \in 1 .. l : t[i] = m[b + i - 1]) /\ n \in Nat /\ a \in Nat /\ b \in Nat
  <2>1. n \in Nat /\ l \in Nat /\ a \in Nat /\ b \in Nat
    BY DEF IsLen
  <2>2. Len(s) = n /\ (\A i \in 1 .. n : s[i] = m[a + i - 1])
    BY TextIs
  <2>3. Len(t) = l /\ (\A i \in 1 .. l : t[i] = m[b + i - 1])
    BY TextIs
  <2> QED
    BY <2>1, <2>2, <2>3
<1>2. ASSUME s = t PROVE n = l /\ Agree(m, a, b, n)
  <2>1. n = l
    BY <1>1, <1>2
  <2>2. ASSUME NEW j \in 0 .. n - 1 PROVE m[a + j] = m[b + j]
    <3>1. j + 1 \in 1 .. n /\ a + (j + 1) - 1 = a + j /\ b + (j + 1) - 1 = b + j
      BY <1>1
    <3>2. s[j + 1] = m[a + (j + 1) - 1] /\ t[j + 1] = m[b + (j + 1) - 1]
      BY <1>1, <2>1, <3>1
    <3> QED
      BY <1>2, <3>1, <3>2
  <2> QED
    BY <2>1, <2>2 DEF Agree
<1>3. ASSUME n = l, Agree(m, a, b, n) PROVE s = t
  BY <1>3, SameText DEF Agree
<1> QED
  BY <1>2, <1>3

\* A piece of the first text is the second where their bytes agree.
LEMMA PartIs ==
  ASSUME NEW m \in Arrays, NEW a, NEW b, NEW n, NEW l, IsLen(m, a, n), IsLen(m, b, l), NEW x \in Nat, x + l <= n,
         NEW y, y = a + x
  PROVE  Piece(TextAt(m, a), x, l) = TextAt(m, b) <=> Agree(m, y, b, l)
<1> DEFINE s == TextAt(m, a)
           t == TextAt(m, b)
           v == Piece(s, x, l)
<1>1. n \in Nat /\ l \in Nat /\ a \in Nat /\ b \in Nat
  BY DEF IsLen
<1>2. /\ s \in Seq(Chars) /\ Len(s) = n /\ \A i \in 1 .. n : s[i] = m[a + i - 1]
      /\ t \in Seq(Chars) /\ Len(t) = l /\ \A i \in 1 .. l : t[i] = m[b + i - 1]
  BY TextIs
<1> HIDE DEF s, t
<1>3. v \in Seq(Chars) /\ Len(v) = l /\ \A i \in 1 .. l : v[i] = s[x + i]
  BY <1>1, <1>2, PieceIs
<1> HIDE DEF v
<1>4. ASSUME NEW j \in 0 .. l - 1 PROVE v[j + 1] = m[y + j] /\ t[j + 1] = m[b + j] /\ j + 1 \in 1 .. l
  <2>1. j + 1 \in 1 .. l /\ x + (j + 1) \in 1 .. n /\ a + (x + (j + 1)) - 1 = y + j /\ b + (j + 1) - 1 = b + j
    BY <1>1
  <2> QED
    BY <1>2, <1>3, <2>1
<1>5. ASSUME v = t PROVE Agree(m, y, b, l)
  BY <1>4, <1>5 DEF Agree
<1>6. ASSUME Agree(m, y, b, l) PROVE v = t
  <2>1. ASSUME NEW i \in 1 .. l PROVE v[i] = t[i]
    <3>1. i - 1 \in 0 .. l - 1 /\ (i - 1) + 1 = i
      BY <1>1
    <3> QED
      BY <1>4, <1>6, <3>1 DEF Agree
  <2> QED
    BY <1>1, <1>2, <1>3, <2>1, SeqEqual
<1> QED
  BY <1>5, <1>6 DEF s, t, v

\* What the comparisons say, in terms of the two texts.
LEMMA Compares ==
  ASSUME NEW m \in Arrays, NEW a, NEW b, NEW n, NEW l, IsLen(m, a, n), IsLen(m, b, l)
  PROVE  LET same == n = l /\ Agree(m, a, b, n)
             common == l <= n /\ Agree(m, a, b, l)
         IN  /\ strcmp(m, a, b) = 0 <=> same
             /\ str_equals(m, a, b) <=> same
             /\ strcmp(m, a, b) < 0 <=> strcmp(m, b, a) > 0
             /\ strncmp(m, a, b, l) = 0 <=> common
             /\ str_starts_with(m, a, b) <=> common
             /\ memcmp(m, a, b, l + 1) = 0 <=> same
<1>1. PICK k : PartAt(m, a, b, n, l, k)
  BY TheyPart
<1>2. k \in 0 .. TEXT_SIZE /\ Parting(m, a, b, k) /\ k <= n /\ k <= l /\ k \in Nat /\ n \in Nat /\ l \in Nat /\ a \in Nat /\ b \in Nat
      /\ a + n < TEXT_SIZE /\ b + l < TEXT_SIZE
  BY <1>1 DEF PartAt, Parting, IsLen
<1>3. /\ m[a + k] = m[b + k] <=> n = l /\ Agree(m, a, b, n)
      /\ m[a + k] = m[b + k] => k = n /\ k = l
      /\ m[b + k] = NUL <=> k = l
      /\ k = l <=> l <= n /\ Agree(m, a, b, l)
  BY <1>1, PartingSays
<1> DEFINE u == m[a + k]
           v == m[b + k]
<1>4. u \in Int /\ v \in Int
  <2>1. a + k \in Places /\ b + k \in Places
    BY <1>2, PlacesAre
  <2>2. u \in 0 .. 3 /\ v \in 0 .. 3
    BY <2>1 DEF Arrays, Chars
  <2> QED
    BY <2>2
<1>5. strcmp(m, a, b) = u - v
  BY <1>2, StrcmpIs
<1>6. strcmp(m, b, a) = v - u
  <2>1. Parting(m, b, a, k)
    BY <1>2 DEF Parting, Agree
  <2> QED
    BY <1>2, <2>1, StrcmpIs
<1>7. str_equals(m, a, b) = (u = v)
  BY <1>2, EqualsIs
<1>8. str_starts_with(m, a, b) = (v = NUL)
  BY <1>2, StartsIs
<1>9. strncmp(m, a, b, l) = IF k = l THEN 0 ELSE u - v
  BY <1>2, StrncmpIs
<1>10. memcmp(m, a, b, l + 1) = 0 <=> u = v
  BY <1>1, MemcmpIs
<1> HIDE DEF u, v
<1>11. (u - v = 0 <=> u = v) /\ (u - v < 0 <=> v - u > 0)
  BY <1>4
<1>12. strncmp(m, a, b, l) = 0 <=> k = l
  BY <1>3, <1>9, <1>11 DEF u, v
<1> QED
  BY <1>3, <1>5, <1>6, <1>7, <1>8, <1>10, <1>11, <1>12 DEF u, v

\* A text from somewhere inside it.
LEMMA TailLen ==
  ASSUME NEW m, NEW a, NEW n, IsLen(m, a, n), NEW x \in 0 .. n
  PROVE  IsLen(m, a + x, n - x)
<1>1. a \in Nat /\ n \in Nat /\ a + n < TEXT_SIZE /\ m[a + n] = NUL /\ \A j \in 0 .. n - 1 : m[a + j] # NUL
  BY DEF IsLen
<1>2. a + x \in Nat /\ n - x \in Nat /\ (a + x) + (n - x) = a + n
  BY <1>1
<1>3. ASSUME NEW j \in 0 .. n - x - 1 PROVE m[(a + x) + j] # NUL
  <2>1. x + j \in 0 .. n - 1 /\ (a + x) + j = a + (x + j)
    BY <1>1
  <2> QED
    BY <1>1, <2>1
<1> QED
  BY <1>1, <1>2, <1>3 DEF IsLen

\* Where the second text, of l bytes, lies inside the first, of n.
Found(m, a, b, n, l) == \E i \in 0 .. n - l : Agree(m, a + i, b, l)

\* As sequences.
LEMMA FoundIs ==
  ASSUME NEW m \in Arrays, NEW a, NEW b, NEW n, NEW l, IsLen(m, a, n), IsLen(m, b, l)
  PROVE  Found(m, a, b, n, l) <=> \E i \in 0 .. n - l : Piece(TextAt(m, a), i, l) = TextAt(m, b)
<1>1. n \in Nat /\ l \in Nat /\ a \in Nat
  BY DEF IsLen
<1>2. ASSUME NEW i \in 0 .. n - l PROVE Piece(TextAt(m, a), i, l) = TextAt(m, b) <=> Agree(m, a + i, b, l)
  <2>1. i \in Nat /\ i + l <= n
    BY <1>1
  <2> QED
    BY <2>1, PartIs
<1> QED
  BY <1>2 DEF Found

\* And at the very beginning.
LEMMA CommonIs ==
  ASSUME NEW m \in Arrays, NEW a, NEW b, NEW n, NEW l, IsLen(m, a, n), IsLen(m, b, l)
  PROVE  l <= n /\ Piece(TextAt(m, a), 0, l) = TextAt(m, b) <=> l <= n /\ Agree(m, a, b, l)
<1>1. n \in Nat /\ l \in Nat /\ a \in Nat /\ 0 \in Nat /\ a = a + 0
  BY DEF IsLen
<1>2. ASSUME l <= n PROVE Piece(TextAt(m, a), 0, l) = TextAt(m, b) <=> Agree(m, a, b, l)
  <2>1. 0 + l <= n
    BY <1>1, <1>2
  <2> QED
    BY <1>1, <2>1, PartIs
<1> QED
  BY <1>2

\* strstr finds the second text where it lies inside the first.
LEMMA StrstrIs ==
  ASSUME NEW m \in Arrays, NEW a, NEW b, NEW n, NEW l, IsLen(m, a, n), IsLen(m, b, l)
  PROVE  strstr(m, a, b) >= 0 <=> Found(m, a, b, n, l)
<1> DEFINE PP(i) == m[i] = NUL \/ strncmp(m, i, b, l) = 0
           QQ(i) == PP(i) /\ \A j \in a .. i - 1 : ~PP(j)
           e == CHOOSE i \in a .. TEXT_SIZE : QQ(i)
<1>1. a \in Nat /\ n \in Nat /\ l \in Nat /\ a + n < TEXT_SIZE /\ m[a + n] = NUL /\ (\A j \in 0 .. n - 1 : m[a + j] # NUL)
      /\ TEXT_SIZE \in Nat
  BY PlacesAre DEF IsLen
<1>2. strlen(m, b) = l
  BY LenOf
<1>3. strstr(m, a, b) = IF l = 0 THEN a ELSE IF m[e] = NUL THEN -1 ELSE e
  BY <1>2 DEF strstr, first_where
<1>4. CASE l = 0
  <2>1. 0 \in 0 .. n - l /\ Agree(m, a + 0, b, l)
    BY <1>1, <1>4 DEF Agree
  <2> QED
    BY <1>1, <1>3, <1>4, <2>1 DEF Found
<1>5. CASE l # 0
  <2>1. ASSUME NEW x \in 0 .. n PROVE strncmp(m, a + x, b, l) = 0 <=> l <= n - x /\ Agree(m, a + x, b, l)
    <3>1. IsLen(m, a + x, n - x)
      BY TailLen
    <3> QED
      BY <3>1, Compares
  <2>2. ASSUME NEW x \in 0 .. n - 1 PROVE m[a + x] # NUL
    BY <1>1, <2>2
  <2> DEFINE S == {i \in a .. TEXT_SIZE : PP(i)}
  <2>3. a + n \in a .. TEXT_SIZE /\ PP(a + n)
    BY <1>1
  <2>4. \E i \in a .. TEXT_SIZE : QQ(i)
    <3>1. S \subseteq a .. TEXT_SIZE /\ S # {}
      BY <2>3
    <3> HIDE DEF PP
    <3>2. PICK i \in S : i \in a .. TEXT_SIZE /\ \A j \in a .. i - 1 : j \notin S
      <4> HIDE DEF S
      <4> QED
        BY <1>1, <3>1, FirstExists
    <3>3. ASSUME NEW j \in a .. i - 1 PROVE ~PP(j)
      BY <1>1, <3>2
    <3> QED
      BY <3>2, <3>3
  <2>5. e \in a .. TEXT_SIZE /\ QQ(e)
    <3> HIDE DEF QQ
    <3> QED
      BY <2>4
  <2> HIDE DEF e
  <2>6. e <= a + n
    <3>1. CASE a + n < e
      <4>1. a + n \in a .. e - 1
        BY <1>1, <2>5, <3>1
      <4> QED
        BY <2>3, <2>5, <4>1
    <3> QED
      BY <1>1, <2>5, <3>1
  <2>7. PICK x \in 0 .. n : e = a + x
    <3>1. e - a \in 0 .. n /\ e = a + (e - a)
      BY <1>1, <2>5, <2>6
    <3> QED
      BY <3>1
  <2>8. ASSUME Found(m, a, b, n, l) PROVE m[e] # NUL
    <3>1. PICK i \in 0 .. n - l : Agree(m, a + i, b, l)
      BY <2>8 DEF Found
    <3>2. i \in 0 .. n /\ l <= n - i /\ i < n /\ a + i \in a .. TEXT_SIZE
      BY <1>1, <1>5
    <3>3. PP(a + i)
      BY <2>1, <3>1, <3>2
    <3>4. x <= i
      <4>1. CASE i < x
        <5>1. a + i \in a .. e - 1
          BY <1>1, <2>7, <3>2, <4>1
        <5> QED
          BY <2>5, <3>3, <5>1
      <4> QED
        BY <1>1, <2>7, <3>1, <4>1
    <3>5. x \in 0 .. n - 1
      BY <1>1, <2>7, <3>1, <3>2, <3>4
    <3> QED
      BY <2>2, <2>7, <3>5
  <2>9. ASSUME m[e] # NUL PROVE Found(m, a, b, n, l)
    <3>1. l <= n - x /\ Agree(m, a + x, b, l)
      BY <2>1, <2>5, <2>7, <2>9
    <3>2. x \in 0 .. n - l
      BY <1>1, <2>7, <3>1
    <3> QED
      BY <3>1, <3>2 DEF Found
  <2>10. e >= 0 /\ ~(-1 >= 0)
    BY <1>1, <2>7
  <2> QED
    BY <1>3, <1>5, <2>8, <2>9, <2>10
<1> QED
  BY <1>4, <1>5

\* str_contains tries all of them.
LEMMA ContainsIs ==
  ASSUME NEW m, NEW a, NEW b, NEW n, NEW l, IsLen(m, a, n), IsLen(m, b, l)
  PROVE  str_contains(m, a, b) <=> Found(m, a, b, n, l)
<1>1. strlen(m, a) = n /\ strlen(m, b) = l
  BY LenOf
<1> QED
  BY <1>1 DEF str_contains, tries, Found, Agree

\* Texts that are equal stay equal with their case taken away.
LEMMA CaseIs ==
  ASSUME NEW m \in Arrays, NEW a, NEW b, NEW n, IsLen(m, a, n), IsLen(m, b, n), Agree(m, a, b, n)
  PROVE  strcasecmp(m, a, b) = 0
<1> DEFINE w == [i \in Places |-> ascii_lower(m[i])]
<1>1. ASSUME NEW i \in Places PROVE w[i] \in Chars /\ w[i] = ascii_lower(m[i]) /\ (w[i] = NUL <=> m[i] = NUL)
  BY DEF Arrays, Chars, ascii_lower, NUL
<1>2. w \in Arrays
  BY <1>1 DEF Arrays
<1>3. strcasecmp(m, a, b) = strcmp(w, a, b)
  BY DEF strcasecmp
<1>4. /\ n \in Nat /\ a \in Nat /\ b \in Nat /\ a + n < TEXT_SIZE /\ b + n < TEXT_SIZE /\ m[a + n] = NUL /\ m[b + n] = NUL
      /\ \A j \in 0 .. n - 1 : m[a + j] # NUL /\ m[b + j] # NUL
  BY DEF IsLen
<1>5. ASSUME NEW j \in 0 .. n PROVE a + j \in Places /\ b + j \in Places
  BY <1>4, PlacesAre
<1> HIDE DEF w
<1>6. n \in 0 .. n /\ \A j \in 0 .. n - 1 : j \in 0 .. n
  BY <1>4
<1>7. w[a + n] = NUL /\ w[b + n] = NUL
  BY <1>1, <1>4, <1>5, <1>6
<1>8. \A j \in 0 .. n - 1 : w[a + j] # NUL /\ w[b + j] # NUL
  BY <1>1, <1>4, <1>5, <1>6
<1>9. IsLen(w, a, n) /\ IsLen(w, b, n)
  BY <1>4, <1>7, <1>8 DEF IsLen
<1>10. Agree(w, a, b, n)
  BY <1>1, <1>5, <1>6 DEF Agree
<1> QED
  BY <1>2, <1>3, <1>9, <1>10, Compares

\* The places of a byte in a text and its end.
Occurs(m, a, n, c) == {i \in a .. a + n : m[i] = c}

\* A byte that does not occur is not found, by any of the three.
LEMMA NotFound ==
  ASSUME NEW m, NEW a, NEW n, IsLen(m, a, n), NEW c, Occurs(m, a, n, c) = {}
  PROVE  strchr(m, a, c) = -1 /\ strrchr(m, a, c) = -1 /\ memchr(m, a, c, n + 1) = -1
<1>1. a \in Nat /\ n \in Nat /\ a + n < TEXT_SIZE /\ m[a + n] = NUL /\ TEXT_SIZE \in Nat
  BY PlacesAre DEF IsLen
<1>2. \A i \in a .. a + n : m[i] # c
  BY DEF Occurs
<1>3. strrchr(m, a, c) = -1
  <2>1. strlen(m, a) = n
    BY LenOf
  <2> QED
    BY <2>1 DEF strrchr, Occurs
<1>4. strchr(m, a, c) = -1
  <2> DEFINE PP(i) == m[i] = c \/ m[i] = NUL
             QQ(i) == PP(i) /\ \A j \in a .. i - 1 : ~PP(j)
             e == CHOOSE i \in a .. TEXT_SIZE : QQ(i)
             S == {i \in a .. TEXT_SIZE : PP(i)}
  <2>1. strchr(m, a, c) = IF m[e] = c THEN e ELSE -1
    BY DEF strchr, first_where
  <2>2. a + n \in a .. TEXT_SIZE /\ PP(a + n)
    BY <1>1
  <2>3. S \subseteq a .. TEXT_SIZE /\ S # {}
    BY <2>2
  <2>4. PICK i \in S : i \in a .. TEXT_SIZE /\ \A j \in a .. i - 1 : j \notin S
    <3> HIDE DEF S
    <3> QED
      BY <1>1, <2>3, FirstExists
  <2>5. QQ(i)
    <3> HIDE DEF PP
    <3>1. ASSUME NEW j \in a .. i - 1 PROVE ~PP(j)
      BY <1>1, <2>4
    <3> QED
      BY <2>4, <3>1
  <2>6. e \in a .. TEXT_SIZE /\ QQ(e)
    <3> HIDE DEF QQ
    <3> QED
      BY <2>4, <2>5
  <2> HIDE DEF e
  <2>7. e \in a .. a + n
    <3>1. CASE a + n < e
      <4>1. a + n \in a .. e - 1
        BY <1>1, <2>6, <3>1
      <4> QED
        BY <2>2, <2>6, <4>1
    <3> QED
      BY <1>1, <2>6, <3>1
  <2> QED
    BY <1>2, <2>1, <2>7
<1>5. memchr(m, a, c, n + 1) = -1
  <2> DEFINE z == a + (n + 1)
             PP(i) == i = z \/ m[i] = c
             QQ(i) == PP(i) /\ \A j \in a .. i - 1 : ~PP(j)
             e == CHOOSE i \in a .. TEXT_SIZE : QQ(i)
  <2>1. memchr(m, a, c, n + 1) = IF e = z THEN -1 ELSE e
    BY DEF memchr, first_where
  <2>2. z \in a .. TEXT_SIZE /\ \A j \in a .. z - 1 : j \in a .. a + n /\ j # z
    BY <1>1
  <2>3. QQ(z)
    BY <1>2, <2>2
  <2>4. e \in a .. TEXT_SIZE /\ QQ(e)
    <3> HIDE DEF QQ
    <3> QED
      BY <2>2, <2>3
  <2> HIDE DEF e
  <2>5. ~(z < e)
    <3>1. ASSUME z < e PROVE FALSE
      <4>1. z \in a .. e - 1
        BY <1>1, <2>2, <2>4, <3>1
      <4> QED
        BY <2>4, <4>1
    <3> QED
      BY <3>1
  <2>6. e = z
    <3>1. ASSUME e # z PROVE FALSE
      <4>1. e \in a .. a + n
        BY <1>1, <2>4, <2>5, <3>1
      <4> QED
        BY <1>2, <2>4, <3>1, <4>1
    <3> QED
      BY <3>1
  <2> QED
    BY <2>1, <2>6
<1> QED
  BY <1>3, <1>4, <1>5

\* A byte that does occur: strchr and memchr find the first, strrchr the last.
LEMMA IsFound ==
  ASSUME NEW m, NEW a, NEW n, IsLen(m, a, n), NEW c, Occurs(m, a, n, c) # {}
  PROVE  strchr(m, a, c) <= strrchr(m, a, c) /\ strchr(m, a, c) = memchr(m, a, c, n + 1)
<1> DEFINE S == Occurs(m, a, n, c)
<1>1. a \in Nat /\ n \in Nat /\ a + n < TEXT_SIZE /\ m[a + n] = NUL /\ TEXT_SIZE \in Nat /\ \A j \in 0 .. n - 1 : m[a + j] # NUL
  BY PlacesAre DEF IsLen
<1>2. S \subseteq a .. TEXT_SIZE /\ S \subseteq Places /\ S # {} /\ \A i \in S : i \in a .. a + n /\ m[i] = c
  BY <1>1, PlacesAre DEF Occurs
<1>3. PICK f \in S : f \in a .. TEXT_SIZE /\ \A j \in a .. f - 1 : j \notin S
  <2> HIDE DEF S
  <2> QED
    BY <1>1, <1>2, FirstExists
<1>4. f \in a .. a + n /\ m[f] = c /\ \A j \in a .. f - 1 : j \in a .. a + n /\ m[j] # c /\ m[j] # NUL
  <2>1. f \in a .. a + n /\ m[f] = c
    BY <1>2, <1>3
  <2>2. ASSUME NEW j \in a .. f - 1 PROVE j \in a .. a + n /\ m[j] # c /\ m[j] # NUL
    <3>1. j \in a .. a + n /\ j - a \in 0 .. n - 1 /\ a + (j - a) = j
      BY <1>1, <2>1
    <3>2. m[j] # c
      BY <1>3, <3>1 DEF Occurs
    <3> QED
      BY <1>1, <3>1, <3>2
  <2> QED
    BY <2>1, <2>2
<1>5. strrchr(m, a, c) >= f
  <2> DEFINE e == CHOOSE i \in S : \A j \in S : j <= i
  <2>1. strlen(m, a) = n
    BY LenOf
  <2>2. strrchr(m, a, c) = e
    BY <1>2, <2>1 DEF strrchr, Occurs
  <2>3. \E i \in S : \A j \in S : j <= i
    <3> HIDE DEF S
    <3> QED
      BY <1>2, LastExists
  <2>4. e \in S /\ \A j \in S : j <= e
    <3> HIDE DEF S
    <3> QED
      BY <2>3
  <2> HIDE DEF e
  <2>5. f <= e /\ e \in Nat /\ f \in Nat
    BY <1>1, <1>2, <1>4, <2>4
  <2> QED
    BY <2>2, <2>5
<1>6. strchr(m, a, c) = f
  <2> DEFINE PP(i) == m[i] = c \/ m[i] = NUL
             QQ(i) == PP(i) /\ \A j \in a .. i - 1 : ~PP(j)
             e == CHOOSE i \in a .. TEXT_SIZE : QQ(i)
  <2>1. strchr(m, a, c) = IF m[e] = c THEN e ELSE -1
    BY DEF strchr, first_where
  <2>2. QQ(f)
    BY <1>4
  <2>3. e \in a .. TEXT_SIZE /\ QQ(e)
    <3> HIDE DEF QQ
    <3> QED
      BY <1>3, <2>2
  <2> HIDE DEF e
  <2>4. ~(e < f) /\ ~(f < e)
    <3>1. ASSUME e < f PROVE FALSE
      <4>1. e \in a .. f - 1
        BY <1>1, <1>3, <2>3, <3>1
      <4> QED
        BY <1>4, <2>3, <4>1
    <3>2. ASSUME f < e PROVE FALSE
      <4>1. f \in a .. e - 1
        BY <1>1, <1>3, <2>3, <3>2
      <4> QED
        BY <1>4, <2>3, <4>1
    <3> QED
      BY <3>1, <3>2
  <2>5. e = f
    BY <1>1, <1>3, <2>3, <2>4
  <2> QED
    BY <1>4, <2>1, <2>5
<1>7. memchr(m, a, c, n + 1) = f
  <2> DEFINE z == a + (n + 1)
             PP(i) == i = z \/ m[i] = c
             QQ(i) == PP(i) /\ \A j \in a .. i - 1 : ~PP(j)
             e == CHOOSE i \in a .. TEXT_SIZE : QQ(i)
  <2>1. memchr(m, a, c, n + 1) = IF e = z THEN -1 ELSE e
    BY DEF memchr, first_where
  <2>2. \A j \in a .. a + n : j # z
    BY <1>1
  <2>3. QQ(f) /\ f # z
    BY <1>4, <2>2
  <2>4. e \in a .. TEXT_SIZE /\ QQ(e)
    <3> HIDE DEF QQ
    <3> QED
      BY <1>3, <2>3
  <2> HIDE DEF e
  <2>5. ~(e < f) /\ ~(f < e)
    <3>1. ASSUME e < f PROVE FALSE
      <4>1. e \in a .. f - 1
        BY <1>1, <1>3, <2>4, <3>1
      <4> QED
        BY <1>4, <2>2, <2>4, <4>1
    <3>2. ASSUME f < e PROVE FALSE
      <4>1. f \in a .. e - 1
        BY <1>1, <1>3, <2>4, <3>2
      <4> QED
        BY <1>4, <2>4, <4>1
    <3> QED
      BY <3>1, <3>2
  <2>6. e = f
    BY <1>1, <1>3, <2>4, <2>5
  <2> QED
    BY <2>1, <2>3, <2>6
<1>8. f \in Int /\ strrchr(m, a, c) >= f
  BY <1>1, <1>4, <1>5
<1> QED
  BY <1>6, <1>7, <1>8

\* Moves copy as if through a buffer.
LEMMA MovesSound == array \in Arrays => MovesWhole
<1> SUFFICES ASSUME array \in Arrays PROVE MovesWhole
  OBVIOUS
<1>1. DOMAIN array = Places /\ array = [i \in Places |-> array[i]]
  BY DEF Arrays
<1>2. ASSUME NEW d \in Places, NEW s \in Places, NEW n \in 0 .. TEXT_SIZE - (IF d > s THEN d ELSE s)
      PROVE  memmove(array, d, s, n) = MovedTo(array, d, s, n) /\ kernel_memmove(array, d, s, n) = MovedTo(array, d, s, n)
  BY <1>1, MovesAre
<1>3. ASSUME NEW d, NEW s, NEW n
      PROVE  [i \in DOMAIN array |-> IF i \in d .. d + n - 1 THEN array[s + (i - d)] ELSE array[i]] = MovedTo(array, d, s, n)
  BY <1>1 DEF MovedTo
<1> QED
  BY <1>1, <1>2, <1>3 DEF MovesWhole

\* The part of CopiesStayInside about a destination of some size.
CopyInside(a, d, size) ==
    LET t == TextAt(array, a)
        m == strlcpy(array, d, a, size)
    IN  /\ Stays(m, d, size)
        /\ size > 0 => /\ ends(m, d) /\ strlen(m, d) < size
                       /\ TextAt(m, d) = SubSeq(t, 1, strlen(m, d))
                       /\ Len(t) < size => TextAt(m, d) = t
        /\ ends(array, d) =>
           LET c == strlcat(array, d, a, size)
           IN  /\ Stays(c, d, size)
               /\ strlen(array, d) < size => ends(c, d) /\ strlen(c, d) < size
        /\ Stays(strncpy(array, d, a, size), d, size)
        /\ ends(array, d) /\ strlen(array, d) + Len(t) < size =>
           /\ TextAt(strcat(array, d, a), d) = TextAt(array, d) \o t
           /\ str_append(array, d, a) = strcat(array, d, a)
           /\ strlcat(array, d, a, size) = strcat(array, d, a)

\* And the one about trimming and reversing.
ChangeInside(a) ==
    LET t == TextAt(array, a)
        u == TextAt(str_trim(array, a), a)
        r == str_reverse(array, a)
    IN  /\ u # <<>> => u[1] # BLANK /\ u[Len(u)] # BLANK
        /\ \E i \in 0 .. Len(t) : \E j \in i .. Len(t) :
             /\ u = SubSeq(t, i + 1, j)
             /\ \A k \in 1 .. Len(t) : k <= i \/ k > j => t[k] = BLANK
        /\ str_reverse(r, a) = array /\ strlen(r, a) = Len(t)

\* The copies are right for every destination before the source, and trimming
\* and reversing for every text.
LEMMA CopiesSound == array \in Arrays => CopiesStayInside
<1> SUFFICES ASSUME array \in Arrays PROVE CopiesStayInside
  OBVIOUS
<1>1. DOMAIN array = Places
  BY DEF Arrays
<1>2. ASSUME NEW a \in Places, ends(array, a)
      PROVE  (\A d \in 0 .. a - 1 : \A size \in 0 .. a - d : CopyInside(a, d, size)) /\ ChangeInside(a)
  <2> DEFINE n == strlen(array, a)
             t == TextAt(array, a)
  <2>1. a \in Nat
    BY PlacesAre
  <2>2. IsLen(array, a, n)
    BY <1>2, <2>1, LenIs
  <2>3. Len(t) = n
    BY <2>2, TextIs
  <2> HIDE DEF n, t
  <2>4. ASSUME NEW d \in 0 .. a - 1, NEW size \in 0 .. a - d PROVE CopyInside(a, d, size)
    <3> DEFINE m == strlcpy(array, d, a, size)
               c == strlcat(array, d, a, size)
               l == strlen(array, d)
    <3>1. /\ Stays(m, d, size)
          /\ size > 0 => /\ ends(m, d) /\ strlen(m, d) < size
                         /\ TextAt(m, d) = SubSeq(t, 1, strlen(m, d))
                         /\ Len(t) < size => TextAt(m, d) = t
          /\ Stays(strncpy(array, d, a, size), d, size)
      BY <2>2, CopiesInside DEF t
    <3>2. ASSUME ends(array, d)
          PROVE  /\ Stays(c, d, size) /\ (l < size => ends(c, d) /\ strlen(c, d) < size)
                 /\ l + n < size => /\ TextAt(strcat(array, d, a), d) = TextAt(array, d) \o t
                                    /\ str_append(array, d, a) = strcat(array, d, a)
                                    /\ strlcat(array, d, a, size) = strcat(array, d, a)
      <4>1. d \in Nat
        BY <2>1
      <4>2. IsLen(array, d, l)
        BY <3>2, <4>1, LenIs
      <4> HIDE DEF l
      <4>3. Stays(c, d, size) /\ (l < size => ends(c, d) /\ strlen(c, d) < size)
        BY <2>2, <4>2, AppendsInside
      <4>4. ASSUME l + n < size PROVE /\ TextAt(strcat(array, d, a), d) = TextAt(array, d) \o t
                                      /\ str_append(array, d, a) = strcat(array, d, a)
                                      /\ strlcat(array, d, a, size) = strcat(array, d, a)
        BY <2>2, <4>2, <4>4, AppendsWhole DEF t
      <4> QED
        BY <4>3, <4>4
    <3> QED
      BY <2>3, <3>1, <3>2 DEF CopyInside, t
  <2>5. ChangeInside(a)
    <3> DEFINE u == TextAt(str_trim(array, a), a)
               r == str_reverse(array, a)
    <3>1. /\ u # <<>> => u[1] # BLANK /\ u[Len(u)] # BLANK
          /\ \E i \in 0 .. Len(t) : \E j \in i .. Len(t) :
               /\ u = SubSeq(t, i + 1, j)
               /\ \A k \in 1 .. Len(t) : k <= i \/ k > j => t[k] = BLANK
      BY <2>2, TrimText DEF t
    <3>2. str_reverse(r, a) = array /\ strlen(r, a) = Len(t)
      BY <2>2, <2>3, ReverseIs
    <3> QED
      BY <3>1, <3>2 DEF ChangeInside, t
  <2> QED
    BY <2>4, <2>5
<1>3. CopiesStayInside = \A a \in DOMAIN array : ends(array, a) =>
                           (\A d \in 0 .. a - 1 : \A size \in 0 .. a - d : CopyInside(a, d, size)) /\ ChangeInside(a)
  BY Zenon DEF CopiesStayInside, CopyInside, ChangeInside, Stays
<1> QED
  BY <1>1, <1>2, <1>3

\* Comparing and searching say the same.
LEMMA SearchesSound == array \in Arrays => SearchesAgree
<1> SUFFICES ASSUME array \in Arrays, NEW a \in DOMAIN array, NEW b \in DOMAIN array, ends(array, a), ends(array, b)
             PROVE  LET s == TextAt(array, a)
                        t == TextAt(array, b)
                        inside == \E i \in 0 .. Len(s) - Len(t) : SubSeq(s, i + 1, i + Len(t)) = t
                        common == Len(t) <= Len(s) /\ SubSeq(s, 1, Len(t)) = t
                    IN  /\ (strcmp(array, a, b) = 0) = (s = t) /\ str_equals(array, a, b) = (s = t)
                        /\ (strcmp(array, a, b) < 0) = (strcmp(array, b, a) > 0)
                        /\ (strncmp(array, a, b, Len(t)) = 0) = common /\ str_starts_with(array, a, b) = common
                        /\ (strstr(array, a, b) >= 0) = inside /\ str_contains(array, a, b) = inside
                        /\ (memcmp(array, a, b, Len(t) + 1) = 0) = (s = t)
                        /\ s = t => strcasecmp(array, a, b) = 0
                        /\ \A c \in Chars : /\ strchr(array, a, c) <= strrchr(array, a, c)
                                            /\ strchr(array, a, c) = memchr(array, a, c, Len(s) + 1)
  BY Zenon DEF SearchesAgree
<1> DEFINE s == TextAt(array, a)
           t == TextAt(array, b)
           n == strlen(array, a)
           l == strlen(array, b)
           inside == \E i \in 0 .. Len(s) - Len(t) : SubSeq(s, i + 1, i + Len(t)) = t
           common == Len(t) <= Len(s) /\ SubSeq(s, 1, Len(t)) = t
           same == n = l /\ Agree(array, a, b, n)
           start == l <= n /\ Agree(array, a, b, l)
           found == Found(array, a, b, n, l)
<1>1. a \in Nat /\ b \in Nat
  BY PlacesAre DEF Arrays
<1>2. IsLen(array, a, n) /\ IsLen(array, b, l)
  BY <1>1, LenIs
<1> HIDE DEF n, l
<1>3. Len(s) = n /\ Len(t) = l
  BY <1>2, TextIs
<1>4. (s = t) = same
  BY <1>2, SameIs
<1>5. common = start
  <2>1. 0 + 1 = 1 /\ 0 + l = l
    BY <1>2 DEF IsLen
  <2>2. SubSeq(s, 1, Len(t)) = Piece(s, 0, l)
    BY <1>3, <2>1 DEF Piece
  <2>3. l <= n /\ Piece(s, 0, l) = t <=> start
    BY <1>2, CommonIs
  <2> QED
    BY <1>3, <2>2, <2>3
<1>6. inside = found
  <2>1. \A i : SubSeq(s, i + 1, i + Len(t)) = Piece(s, i, l)
    BY <1>3 DEF Piece
  <2>2. found <=> \E i \in 0 .. n - l : Piece(s, i, l) = t
    BY <1>2, FoundIs
  <2>3. found \in BOOLEAN
    BY DEF Found
  <2> QED
    BY <1>3, <2>1, <2>2, <2>3
<1>7. /\ strcmp(array, a, b) = 0 <=> same
      /\ str_equals(array, a, b) <=> same
      /\ strcmp(array, a, b) < 0 <=> strcmp(array, b, a) > 0
      /\ strncmp(array, a, b, l) = 0 <=> start
      /\ str_starts_with(array, a, b) <=> start
      /\ memcmp(array, a, b, l + 1) = 0 <=> same
  BY <1>2, Compares
<1>8. strstr(array, a, b) >= 0 <=> found
  BY <1>2, StrstrIs
<1>9. str_contains(array, a, b) <=> found
  BY <1>2, ContainsIs
<1>10. same => strcasecmp(array, a, b) = 0
  BY <1>2, CaseIs
<1>11. ASSUME NEW c \in Chars
       PROVE  strchr(array, a, c) <= strrchr(array, a, c) /\ strchr(array, a, c) = memchr(array, a, c, Len(s) + 1)
  <2>1. CASE Occurs(array, a, n, c) = {}
    <3>1. strchr(array, a, c) = -1 /\ strrchr(array, a, c) = -1 /\ memchr(array, a, c, n + 1) = -1
      BY <1>2, <2>1, NotFound
    <3> QED
      BY <1>3, <3>1
  <2>2. CASE Occurs(array, a, n, c) # {}
    BY <1>2, <1>3, <2>2, IsFound
  <2> QED
    BY <2>1, <2>2
<1>12. str_equals(array, a, b) \in BOOLEAN /\ str_starts_with(array, a, b) \in BOOLEAN /\ str_contains(array, a, b) \in BOOLEAN
  BY DEF str_equals, str_starts_with, str_contains
<1>13. found \in BOOLEAN
  BY DEF Found
<1> HIDE DEF inside, common, same, start, found
<1>14. (strcmp(array, a, b) = 0) = (s = t) /\ str_equals(array, a, b) = (s = t)
  BY <1>4, <1>7, <1>12
<1>15. (strcmp(array, a, b) < 0) = (strcmp(array, b, a) > 0)
  BY <1>7
<1>16. (strncmp(array, a, b, Len(t)) = 0) = common /\ str_starts_with(array, a, b) = common
  BY <1>3, <1>5, <1>7, <1>12 DEF start
<1>17. (strstr(array, a, b) >= 0) = inside /\ str_contains(array, a, b) = inside
  BY <1>6, <1>8, <1>9, <1>12, <1>13
<1>18. (memcmp(array, a, b, Len(t) + 1) = 0) = (s = t)
  BY <1>3, <1>4, <1>7
<1>19. s = t => strcasecmp(array, a, b) = 0
  BY <1>4, <1>10
<1> QED
  BY <1>11, <1>14, <1>15, <1>16, <1>17, <1>18, <1>19 DEF inside, common

\* The array keeps its length and holds bytes.
TextInv == array \in Arrays

\* The string functions of the kernel and of the C library do what their
\* names say, on an array of any length and whatever it holds: both moves copy
\* as if through a buffer, the bounded copies stay inside their destination
\* and end it, and every way to compare and to search says the same.
THEOREM TextsAreSound == TextSpec => []TextSound
<1>1. TextInit => TextInv
  BY DEF TextInit, TextInv, Arrays
<1>2. TextInv /\ [TextNext]_array => TextInv'
  <2> SUFFICES ASSUME array \in Arrays, TextNext PROVE array' \in Arrays
    BY DEF TextInv
  <2>1. DOMAIN array = Places /\ array = [i \in Places |-> array[i]]
    BY DEF Arrays
  <2>2. CASE \E d, s \in DOMAIN array : \E n \in 0 .. TEXT_SIZE - (IF d > s THEN d ELSE s) : array' = memmove(array, d, s, n)
    <3>1. PICK d \in Places, s \in Places : \E n \in 0 .. TEXT_SIZE - (IF d > s THEN d ELSE s) : array' = memmove(array, d, s, n)
      BY <2>1, <2>2
    <3>2. PICK n \in 0 .. TEXT_SIZE - (IF d > s THEN d ELSE s) : array' = memmove(array, d, s, n)
      BY <3>1
    <3>3. array' = MovedTo(array, d, s, n)
      BY <2>1, <3>2, MovesAre
    <3>4. ASSUME NEW i \in Places PROVE (IF i \in d .. d + n - 1 THEN array[s + (i - d)] ELSE array[i]) \in Chars
      <4>1. CASE i \in d .. d + n - 1
        <5>1. s + (i - d) \in Places
          BY <4>1, PlacesAre
        <5> QED
          BY <4>1, <5>1 DEF Arrays
      <4> QED
        BY <4>1 DEF Arrays
    <3> QED
      BY <3>3, <3>4 DEF MovedTo, Arrays
  <2>3. CASE \E a \in DOMAIN array : ends(array, a) /\ array' = str_trim(array, a)
    <3>1. PICK a \in Places : ends(array, a) /\ array' = str_trim(array, a)
      BY <2>1, <2>3
    <3>2. a \in Nat
      BY PlacesAre
    <3>3. IsLen(array, a, strlen(array, a))
      BY <3>1, <3>2, LenIs
    <3> QED
      BY <3>1, <3>3, TrimText
  <2> QED
    BY <2>2, <2>3 DEF TextNext
<1>3. TextInv => TextSound
  BY MovesSound, CopiesSound, SearchesSound DEF TextSound, TextInv
<1> QED
  BY <1>1, <1>2, <1>3, PTL DEF TextSpec
-----------------------------------------------------------------------------
(* Numbers and text.                                                       *)

\* A sequence of one character over and over.
LEMMA RepeatIs ==
  ASSUME NEW c \in Int, NEW n \in Int
  PROVE  /\ repeated(c, n) \in Seq(Int) /\ Len(repeated(c, n)) = IF n > 0 THEN n ELSE 0
         /\ \A i \in 1 .. n : repeated(c, n)[i] = c
<1> DEFINE k == IF n > 0 THEN n ELSE 0
<1>1. k \in Nat /\ 1 .. n = 1 .. k
  OBVIOUS
<1> HIDE DEF k
<1>2. repeated(c, n) = [i \in 1 .. k |-> c]
  BY <1>1 DEF repeated
<1>3. repeated(c, n) \in [1 .. k -> Int]
  BY <1>2
<1>4. repeated(c, n) \in Seq(Int) /\ Len(repeated(c, n)) = k
  <2>1. repeated(c, n) \in Seq(Int)
    BY <1>1, <1>3, SeqDef
  <2>2. DOMAIN repeated(c, n) = 1 .. k
    BY <1>2
  <2> QED
    BY <1>1, <2>1, <2>2, LenProperties
<1> QED
  BY <1>1, <1>2, <1>4 DEF k

\* The same from the other end.
LEMMA FlipIs ==
  ASSUME NEW s \in Seq(Int)
  PROVE  /\ flipped(s) \in Seq(Int) /\ Len(flipped(s)) = Len(s)
         /\ \A i \in 1 .. Len(s) : flipped(s)[i] = s[Len(s) + 1 - i]
<1> DEFINE k == Len(s)
<1>1. k \in Nat /\ \A i \in 1 .. k : s[i] \in Int
  BY ElementOfSeq
<1>2. flipped(s) = [i \in 1 .. k |-> s[k + 1 - i]]
  BY DEF flipped
<1> HIDE DEF k
<1>3. ASSUME NEW i \in 1 .. k PROVE s[k + 1 - i] \in Int
  <2>1. k + 1 - i \in 1 .. k
    BY <1>1
  <2> QED
    BY <1>1, <2>1
<1>4. flipped(s) \in [1 .. k -> Int]
  BY <1>2, <1>3
<1>5. flipped(s) \in Seq(Int)
  BY <1>1, <1>4, SeqDef
<1>6. DOMAIN flipped(s) = 1 .. k
  BY <1>2
<1>7. Len(flipped(s)) = k
  BY <1>1, <1>5, <1>6, LenProperties
<1> QED
  BY <1>2, <1>5, <1>7 DEF k

\* Taking the last digit off.
LEMMA DivIs ==
  ASSUME NEW v \in Nat, NEW base \in {10, 16}
  PROVE  /\ v % base \in 0 .. base - 1 /\ v \div base \in Nat /\ (v >= base => v \div base < v)
         /\ base = 10 => v = (v \div 10) * 10 + (v % 10)
<1>1. CASE base = 10
  BY <1>1
<1>2. CASE base = 16
  BY <1>2
<1> QED
  BY <1>1, <1>2

\* The loop that takes the digits off, for all numbers up to n.
IsRev(c, n, base) == c = [v \in 0 .. n |-> IF v < base THEN <<v>> ELSE <<v % base>> \o c[v \div base]]

\* It comes to an end.
LEMMA RevExists ==
  ASSUME NEW n \in Nat, NEW base \in {10, 16}
  PROVE  \E c : IsRev(c, n, base)
<1> DEFINE Bad == {k \in Nat : ~\E c : IsRev(c, k, base)}
<1>1. ASSUME Bad # {} PROVE FALSE
  <2>1. PICK x \in Bad : \A y \in Bad : x <= y
    <3>1. Bad \in SUBSET Nat
      OBVIOUS
    <3> HIDE DEF Bad
    <3> QED
      BY <1>1, <3>1, LeastNumber
  <2>2. x \in Nat /\ ~\E c : IsRev(c, x, base)
    BY <2>1
  <2>3. CASE x = 0
    <3> DEFINE c == [v \in 0 .. 0 |-> <<v>>]
    <3>1. \A v \in 0 .. 0 : v < base
      OBVIOUS
    <3>2. c = [v \in 0 .. 0 |-> IF v < base THEN <<v>> ELSE <<v % base>> \o c[v \div base]]
      BY <3>1
    <3>3. IsRev(c, 0, base)
      BY <3>2 DEF IsRev
    <3> QED
      BY <2>2, <2>3, <3>3
  <2>4. CASE x # 0
    <3>1. x - 1 \in Nat /\ x - 1 \notin Bad
      BY <2>1, <2>2, <2>4
    <3>2. PICK c : IsRev(c, x - 1, base)
      BY <3>1
    <3> DEFINE F(f, v) == IF v < base THEN <<v>> ELSE <<v % base>> \o f[v \div base]
               d == [v \in 0 .. x |-> F(c, v)]
    <3>3. c = [v \in 0 .. x - 1 |-> F(c, v)]
      BY <3>2 DEF IsRev
    <3>4. ASSUME NEW w \in 0 .. x - 1 PROVE d[w] = c[w]
      <4>1. w \in 0 .. x
        BY <2>2
      <4> HIDE DEF F
      <4>2. c[w] = F(c, w)
        BY <3>3
      <4> QED
        BY <4>1, <4>2
    <3>5. ASSUME NEW v \in 0 .. x PROVE F(c, v) = F(d, v)
      <4>1. CASE v < base
        BY <4>1
      <4>2. CASE ~(v < base)
        <5>1. v \in Nat /\ v >= base
          BY <2>2, <4>2
        <5>2. v \div base \in 0 .. x - 1
          BY <2>2, <5>1, DivIs
        <5>3. d[v \div base] = c[v \div base]
          BY <3>4, <5>2
        <5> HIDE DEF d
        <5> QED
          BY <4>2, <5>3
      <4> QED
        BY <4>1, <4>2
    <3>6. d = [v \in 0 .. x |-> F(d, v)]
      <4> HIDE DEF F
      <4>1. d = [v \in 0 .. x |-> F(c, v)]
        OBVIOUS
      <4> HIDE DEF d
      <4> QED
        BY <3>5, <4>1
    <3>7. IsRev(d, x, base)
      <4> HIDE DEF d
      <4> QED
        BY <3>6 DEF IsRev
    <3> QED
      BY <2>2, <3>7
  <2> QED
    BY <2>3, <2>4
<1> QED
  BY <1>1

\* Digits D are those of the number v: reading them one by one gives v.
Reads(D, v) == \A h : h[0] = 0 /\ (\A j \in 1 .. Len(D) : h[j] = h[j - 1] * 10 + D[j]) => h[Len(D)] = v

\* What the loop leaves behind for v.
RevGood(s, v, base) ==
    /\ s \in Seq(Int) /\ Len(s) >= 1 /\ \A i \in 1 .. Len(s) : s[i] \in 0 .. base - 1
    /\ base = 10 => Reads(flipped(s), v)

\* One digit.
LEMMA OneDigit ==
  ASSUME NEW base \in {10, 16}, NEW v \in Nat, v < base
  PROVE  RevGood(<<v>>, v, base)
<1> DEFINE s == <<v>>
<1>1. s \in Seq(Int) /\ Len(s) = 1 /\ s[1] = v /\ v \in 0 .. base - 1
  OBVIOUS
<1> HIDE DEF s
<1>2. Len(flipped(s)) = 1 /\ flipped(s)[1] = v
  <2>1. 1 \in 1 .. Len(s) /\ Len(s) + 1 - 1 = 1
    BY <1>1
  <2> QED
    BY <1>1, <2>1, FlipIs
<1>3. Reads(flipped(s), v)
  <2> SUFFICES ASSUME NEW h, h[0] = 0, \A j \in 1 .. Len(flipped(s)) : h[j] = h[j - 1] * 10 + flipped(s)[j]
               PROVE  h[Len(flipped(s))] = v
    BY DEF Reads
  <2>1. h[1] = h[1 - 1] * 10 + v
    BY <1>2
  <2> QED
    BY <1>2, <2>1
<1>4. \A i \in 1 .. Len(s) : s[i] \in 0 .. base - 1
  BY <1>1
<1> QED
  BY <1>1, <1>3, <1>4 DEF RevGood, s

\* One digit more.
LEMMA MoreDigits ==
  ASSUME NEW base \in {10, 16}, NEW v \in Nat, v >= base, NEW s, RevGood(s, v \div base, base)
  PROVE  RevGood(<<v % base>> \o s, v, base)
<1> DEFINE x == v % base
           q == <<x>> \o s
           n == Len(s)
<1>1. x \in 0 .. base - 1 /\ x \in Int
  BY DivIs
<1>2. s \in Seq(Int) /\ n \in Nat /\ n >= 1 /\ (\A i \in 1 .. n : s[i] \in 0 .. base - 1)
  BY LenProperties DEF RevGood
<1> HIDE DEF x
<1>3. q \in Seq(Int) /\ Len(q) = n + 1 /\ q[1] = x /\ \A i \in 2 .. n + 1 : q[i] = s[i - 1]
  <2>1. <<x>> \in Seq(Int) /\ Len(<<x>>) = 1 /\ <<x>>[1] = x
    BY <1>1
  <2>2. q \in Seq(Int) /\ Len(q) = Len(<<x>>) + Len(s)
        /\ \A i \in 1 .. Len(<<x>>) + Len(s) : q[i] = IF i <= Len(<<x>>) THEN <<x>>[i] ELSE s[i - Len(<<x>>)]
    BY <1>2, <2>1, ConcatProperties
  <2> HIDE DEF q
  <2> QED
    BY <1>2, <2>1, <2>2
<1> HIDE DEF n, q
<1>4. \A i \in 1 .. Len(q) : q[i] \in 0 .. base - 1
  <2> TAKE i \in 1 .. Len(q)
  <2>1. CASE i = 1
    BY <1>1, <1>3, <2>1
  <2>2. CASE i # 1
    <3>1. i \in 2 .. n + 1 /\ i - 1 \in 1 .. n
      BY <1>2, <1>3, <2>2
    <3> QED
      BY <1>2, <1>3, <3>1
  <2> QED
    BY <2>1, <2>2
<1>5. ASSUME base = 10 PROVE Reads(flipped(q), v)
  <2>1. Len(flipped(q)) = n + 1 /\ (\A i \in 1 .. n + 1 : flipped(q)[i] = q[n + 1 + 1 - i])
    BY <1>3, FlipIs
  <2>2. Len(flipped(s)) = n /\ (\A i \in 1 .. n : flipped(s)[i] = s[n + 1 - i])
    BY <1>2, FlipIs DEF n
  <2> SUFFICES ASSUME NEW h, h[0] = 0, \A j \in 1 .. n + 1 : h[j] = h[j - 1] * 10 + flipped(q)[j]
               PROVE  h[n + 1] = v
    BY <2>1 DEF Reads
  <2>3. ASSUME NEW j \in 1 .. n PROVE h[j] = h[j - 1] * 10 + flipped(s)[j]
    <3>1. j \in 1 .. n + 1 /\ n + 1 + 1 - j \in 2 .. n + 1 /\ n + 1 + 1 - j - 1 = n + 1 - j
      BY <1>2
    <3>2. flipped(q)[j] = q[n + 1 + 1 - j]
      BY <2>1, <3>1
    <3>3. q[n + 1 + 1 - j] = s[n + 1 + 1 - j - 1]
      <4> DEFINE i == n + 1 + 1 - j
      <4>1. i \in 2 .. n + 1
        BY <3>1
      <4> HIDE DEF i
      <4>2. q[i] = s[i - 1]
        BY <1>3, <4>1
      <4> QED
        BY <1>2, <4>2 DEF i
    <3>4. flipped(q)[j] = flipped(s)[j]
      BY <1>2, <2>2, <3>1, <3>2, <3>3
    <3>5. h[j] = h[j - 1] * 10 + flipped(q)[j]
      BY <3>1
    <3> QED
      BY <3>4, <3>5
  <2>4. h[n] = v \div 10
    <3>1. Reads(flipped(s), v \div 10)
      BY <1>5 DEF RevGood
    <3> QED
      BY <2>2, <2>3, <3>1 DEF Reads
  <2>5. h[n + 1] = h[n] * 10 + x
    <3>1. n + 1 \in 1 .. n + 1 /\ n + 1 + 1 - (n + 1) = 1 /\ (n + 1) - 1 = n
      BY <1>2
    <3>2. flipped(q)[n + 1] = x
      BY <1>3, <2>1, <3>1
    <3>3. h[n + 1] = h[(n + 1) - 1] * 10 + flipped(q)[n + 1]
      BY <3>1
    <3> QED
      BY <3>1, <3>2, <3>3
  <2> QED
    BY <1>5, <2>4, <2>5, DivIs DEF x
<1>6. Len(q) >= 1
  BY <1>2, <1>3
<1> QED
  BY <1>3, <1>4, <1>5, <1>6 DEF RevGood, q, x

\* Two sequences after each other.
LEMMA JoinIs ==
  ASSUME NEW p \in Seq(Int), NEW q \in Seq(Int)
  PROVE  /\ p \o q \in Seq(Int) /\ Len(p \o q) = Len(p) + Len(q) /\ Len(p) \in Nat /\ Len(q) \in Nat
         /\ \A i \in 1 .. Len(p) : (p \o q)[i] = p[i]
         /\ \A i \in 1 .. Len(q) : (p \o q)[Len(p) + i] = q[i]
<1> DEFINE s == p \o q
           k == Len(p)
           n == Len(q)
<1>1. k \in Nat /\ n \in Nat
  BY LenProperties
<1>2. s \in Seq(Int) /\ Len(s) = k + n /\ \A i \in 1 .. k + n : s[i] = IF i <= k THEN p[i] ELSE q[i - k]
  BY ConcatProperties
<1> HIDE DEF s, k, n
<1>3. ASSUME NEW i \in 1 .. k PROVE s[i] = p[i]
  BY <1>1, <1>2
<1>4. ASSUME NEW i \in 1 .. n PROVE s[k + i] = q[i]
  <2>1. k + i \in 1 .. k + n /\ ~(k + i <= k) /\ (k + i) - k = i
    BY <1>1
  <2> QED
    BY <1>2, <2>1
<1> QED
  BY <1>1, <1>2, <1>3, <1>4 DEF s, k, n

\* Dividing n times, one after the other.
IsDiv(c, u, base, n) == c = [k \in 0 .. n |-> IF k = 0 THEN u ELSE c[k - 1] \div base]

\* It comes to an end.
LEMMA DivExists ==
  ASSUME NEW u, NEW base, NEW n \in Nat
  PROVE  \E c : IsDiv(c, u, base, n)
<1> DEFINE Bad == {k \in Nat : ~\E c : IsDiv(c, u, base, k)}
<1>1. ASSUME Bad # {} PROVE FALSE
  <2>1. PICK x \in Bad : \A y \in Bad : x <= y
    <3>1. Bad \in SUBSET Nat
      OBVIOUS
    <3> HIDE DEF Bad
    <3> QED
      BY <1>1, <3>1, LeastNumber
  <2>2. x \in Nat /\ ~\E c : IsDiv(c, u, base, x)
    BY <2>1
  <2>3. CASE x = 0
    <3> DEFINE c == [k \in 0 .. 0 |-> u]
    <3>1. \A k \in 0 .. 0 : k = 0
      OBVIOUS
    <3>2. c = [k \in 0 .. 0 |-> IF k = 0 THEN u ELSE c[k - 1] \div base]
      BY <3>1
    <3>3. IsDiv(c, u, base, 0)
      BY <3>2 DEF IsDiv
    <3> QED
      BY <2>2, <2>3, <3>3
  <2>4. CASE x # 0
    <3>1. x - 1 \in Nat /\ x - 1 \notin Bad
      BY <2>1, <2>2, <2>4
    <3>2. PICK c : IsDiv(c, u, base, x - 1)
      BY <3>1
    <3> DEFINE F(f, k) == IF k = 0 THEN u ELSE f[k - 1] \div base
               d == [k \in 0 .. x |-> F(c, k)]
    <3>3. c = [k \in 0 .. x - 1 |-> F(c, k)]
      BY <3>2 DEF IsDiv
    <3>4. ASSUME NEW w \in 0 .. x - 1 PROVE d[w] = c[w]
      <4>1. w \in 0 .. x
        BY <2>2
      <4> HIDE DEF F
      <4>2. c[w] = F(c, w)
        BY <3>3
      <4> QED
        BY <4>1, <4>2
    <3>5. ASSUME NEW k \in 0 .. x PROVE F(c, k) = F(d, k)
      <4>1. CASE k = 0
        BY <4>1
      <4>2. CASE k # 0
        <5>1. k - 1 \in 0 .. x - 1
          BY <2>2, <4>2
        <5>2. d[k - 1] = c[k - 1]
          BY <3>4, <5>1
        <5> HIDE DEF d
        <5> QED
          BY <4>2, <5>2
      <4> QED
        BY <4>1, <4>2
    <3>6. d = [k \in 0 .. x |-> F(d, k)]
      <4> HIDE DEF F
      <4>1. d = [k \in 0 .. x |-> F(c, k)]
        OBVIOUS
      <4> HIDE DEF d
      <4> QED
        BY <3>5, <4>1
    <3>7. IsDiv(d, u, base, x)
      <4> HIDE DEF d
      <4> QED
        BY <3>6 DEF IsDiv
    <3> QED
      BY <2>2, <3>7
  <2> QED
    BY <2>3, <2>4
<1> QED
  BY <1>1

\* However far it goes, it goes the same way.
LEMMA DivAgrees ==
  ASSUME NEW u, NEW base, NEW n \in Nat, NEW m \in Nat, NEW c, NEW d, IsDiv(c, u, base, n), IsDiv(d, u, base, m), n <= m
  PROVE  \A k \in 0 .. n : c[k] = d[k]
<1> DEFINE Bad == {k \in 0 .. n : c[k] # d[k]}
<1>1. /\ \A k \in 0 .. n : c[k] = IF k = 0 THEN u ELSE c[k - 1] \div base
      /\ \A k \in 0 .. m : d[k] = IF k = 0 THEN u ELSE d[k - 1] \div base
  BY DEF IsDiv
<1>2. ASSUME Bad # {} PROVE FALSE
  <2>1. PICK x \in Bad : \A y \in Bad : x <= y
    <3>1. Bad \in SUBSET Nat
      OBVIOUS
    <3> HIDE DEF Bad
    <3> QED
      BY <1>2, <3>1, LeastNumber
  <2>2. x \in 0 .. n /\ c[x] # d[x] /\ x \in 0 .. m
    BY <2>1
  <2>3. CASE x = 0
    BY <1>1, <2>2, <2>3
  <2>4. CASE x # 0
    <3>1. x - 1 \in 0 .. n /\ x - 1 < x
      BY <2>2, <2>4
    <3>2. c[x - 1] = d[x - 1]
      BY <2>1, <2>2, <3>1
    <3>3. c[x] = c[x - 1] \div base /\ d[x] = d[x - 1] \div base
      BY <1>1, <2>2, <2>4
    <3> QED
      BY <2>2, <3>2, <3>3
  <2> QED
    BY <2>3, <2>4
<1> QED
  BY <1>2

\* One division after the other.
LEMMA DividedIs ==
  ASSUME NEW u, NEW base, NEW n \in Nat
  PROVE  divided(u, base, 0) = u /\ divided(u, base, n + 1) = divided(u, base, n) \div base
<1> DEFINE c(k) == CHOOSE f : IsDiv(f, u, base, k)
<1>1. ASSUME NEW k \in Nat PROVE divided(u, base, k) = c(k)[k] /\ IsDiv(c(k), u, base, k)
  <2>1. divided(u, base, k) = c(k)[k]
    BY DEF divided, IsDiv
  <2>2. IsDiv(c(k), u, base, k)
    BY DivExists
  <2> QED
    BY <2>1, <2>2
<1> HIDE DEF c
<1>2. divided(u, base, 0) = u
  <2>1. divided(u, base, 0) = c(0)[0] /\ IsDiv(c(0), u, base, 0)
    BY <1>1
  <2>2. c(0)[0] = u
    <3>1. 0 \in 0 .. 0
      OBVIOUS
    <3> QED
      BY <2>1, <3>1 DEF IsDiv
  <2> QED
    BY <2>1, <2>2
<1>3. divided(u, base, n + 1) = divided(u, base, n) \div base
  <2> DEFINE d == c(n)
             e == c(n + 1)
  <2>1. n + 1 \in Nat /\ n <= n + 1 /\ n \in 0 .. n /\ n + 1 \in 0 .. n + 1 /\ n + 1 # 0 /\ (n + 1) - 1 = n
    OBVIOUS
  <2>2. divided(u, base, n) = d[n] /\ IsDiv(d, u, base, n) /\ divided(u, base, n + 1) = e[n + 1] /\ IsDiv(e, u, base, n + 1)
    BY <1>1, <2>1
  <2> HIDE DEF d, e
  <2>3. d[n] = e[n]
    BY <2>1, <2>2, DivAgrees
  <2>4. e[n + 1] = e[n] \div base
    BY <2>1, <2>2 DEF IsDiv
  <2> QED
    BY <2>2, <2>3, <2>4
<1> QED
  BY <1>2, <1>3

\* It leaves a number; nothing stays nothing; and the first division may be
\* made beforehand.
LEMMA DividedOn ==
  ASSUME NEW u \in Nat, NEW base \in {10, 16}
  PROVE  /\ \A k \in Nat : divided(u, base, k) \in Nat
         /\ \A k, j \in Nat : divided(u, base, k) = 0 /\ k <= j => divided(u, base, j) = 0
         /\ \A k \in Nat : divided(u, base, k + 1) = divided(u \div base, base, k)
<1> DEFINE p(k) == divided(u, base, k)
<1>1. p(0) = u /\ \A k \in Nat : p(k + 1) = p(k) \div base
  BY DividedIs
<1> HIDE DEF p
<1>2. \A k \in Nat : p(k) \in Nat
  <2> DEFINE Bad == {k \in Nat : p(k) \notin Nat}
  <2>1. ASSUME Bad # {} PROVE FALSE
    <3>1. PICK x \in Bad : \A y \in Bad : x <= y
      <4>1. Bad \in SUBSET Nat
        OBVIOUS
      <4> HIDE DEF Bad
      <4> QED
        BY <2>1, <4>1, LeastNumber
    <3>2. x \in Nat /\ p(x) \notin Nat
      BY <3>1
    <3>3. x # 0
      BY <1>1, <3>2
    <3>4. x - 1 \in Nat /\ x - 1 < x /\ (x - 1) + 1 = x
      BY <3>2, <3>3
    <3>5. p(x - 1) \in Nat
      BY <3>1, <3>2, <3>4
    <3>6. p(x) = p(x - 1) \div base
      BY <1>1, <3>4
    <3> QED
      BY <3>2, <3>5, <3>6, DivIs
  <2> QED
    BY <2>1
<1>3. ASSUME NEW k \in Nat, p(k) = 0, NEW i \in Nat, k <= i PROVE p(i) = 0
  <2> DEFINE Bad == {j \in Nat : k <= j /\ p(j) # 0}
  <2>1. ASSUME Bad # {} PROVE FALSE
    <3>1. PICK x \in Bad : \A y \in Bad : x <= y
      <4>1. Bad \in SUBSET Nat
        OBVIOUS
      <4> HIDE DEF Bad
      <4> QED
        BY <2>1, <4>1, LeastNumber
    <3>2. x \in Nat /\ k <= x /\ p(x) # 0
      BY <3>1
    <3>3. x # k
      BY <1>3, <3>2
    <3>4. x - 1 \in Nat /\ x - 1 < x /\ (x - 1) + 1 = x /\ k <= x - 1
      BY <3>2, <3>3
    <3>5. p(x - 1) = 0
      BY <3>1, <3>2, <3>4
    <3>6. p(x) = 0 \div base
      BY <1>1, <3>4, <3>5
    <3>7. 0 \div base = 0
      <4>1. CASE base = 10
        BY <4>1
      <4>2. CASE base = 16
        BY <4>2
      <4> QED
        BY <4>1, <4>2
    <3> QED
      BY <3>2, <3>6, <3>7
  <2> QED
    BY <1>3, <2>1
<1>4. \A k \in Nat : p(k + 1) = divided(u \div base, base, k)
  <2> DEFINE q(k) == divided(u \div base, base, k)
             Bad == {k \in Nat : p(k + 1) # q(k)}
  <2>1. q(0) = u \div base /\ \A k \in Nat : q(k + 1) = q(k) \div base
    BY DividedIs
  <2> HIDE DEF q
  <2>2. ASSUME Bad # {} PROVE FALSE
    <3>1. PICK x \in Bad : \A y \in Bad : x <= y
      <4>1. Bad \in SUBSET Nat
        OBVIOUS
      <4> HIDE DEF Bad
      <4> QED
        BY <2>2, <4>1, LeastNumber
    <3>2. x \in Nat /\ p(x + 1) # q(x)
      BY <3>1
    <3>3. x # 0
      <4>1. ASSUME x = 0 PROVE FALSE
        <5>1. p(0 + 1) = p(0) \div base
          BY <1>1
        <5> QED
          BY <1>1, <2>1, <3>2, <4>1, <5>1
      <4> QED
        BY <4>1
    <3> DEFINE y == x - 1
    <3>4. y \in Nat /\ y < x /\ y + 1 = x
      BY <3>2, <3>3
    <3>5. p(y + 1) = q(y)
      BY <3>1, <3>2, <3>4
    <3> HIDE DEF y
    <3>6. p(x + 1) = p(x) \div base /\ q(y + 1) = q(y) \div base
      BY <1>1, <2>1, <3>2, <3>4
    <3> QED
      BY <3>2, <3>4, <3>5, <3>6
  <2> QED
    BY <2>2 DEF q
<1> QED
  BY <1>2, <1>3, <1>4 DEF p

\* The loop that counts digits, for all numbers up to n.
IsCount(c, n) == c = [v \in 0 .. n |-> IF v < 10 THEN 1 ELSE 1 + c[v \div 10]]

\* It comes to an end.
LEMMA CountExists ==
  ASSUME NEW n \in Nat
  PROVE  \E c : IsCount(c, n)
<1> DEFINE Bad == {k \in Nat : ~\E c : IsCount(c, k)}
<1>1. ASSUME Bad # {} PROVE FALSE
  <2>1. PICK x \in Bad : \A y \in Bad : x <= y
    <3>1. Bad \in SUBSET Nat
      OBVIOUS
    <3> HIDE DEF Bad
    <3> QED
      BY <1>1, <3>1, LeastNumber
  <2>2. x \in Nat /\ ~\E c : IsCount(c, x)
    BY <2>1
  <2>3. CASE x = 0
    <3> DEFINE c == [v \in 0 .. 0 |-> 1]
    <3>1. \A v \in 0 .. 0 : v < 10
      OBVIOUS
    <3>2. c = [v \in 0 .. 0 |-> IF v < 10 THEN 1 ELSE 1 + c[v \div 10]]
      BY <3>1
    <3>3. IsCount(c, 0)
      BY <3>2 DEF IsCount
    <3> QED
      BY <2>2, <2>3, <3>3
  <2>4. CASE x # 0
    <3>1. x - 1 \in Nat /\ x - 1 \notin Bad
      BY <2>1, <2>2, <2>4
    <3>2. PICK c : IsCount(c, x - 1)
      BY <3>1
    <3> DEFINE F(f, v) == IF v < 10 THEN 1 ELSE 1 + f[v \div 10]
               d == [v \in 0 .. x |-> F(c, v)]
    <3>3. c = [v \in 0 .. x - 1 |-> F(c, v)]
      BY <3>2 DEF IsCount
    <3>4. ASSUME NEW w \in 0 .. x - 1 PROVE d[w] = c[w]
      <4>1. w \in 0 .. x
        BY <2>2
      <4> HIDE DEF F
      <4>2. c[w] = F(c, w)
        BY <3>3
      <4> QED
        BY <4>1, <4>2
    <3>5. ASSUME NEW v \in 0 .. x PROVE F(c, v) = F(d, v)
      <4>1. CASE v < 10
        BY <4>1
      <4>2. CASE ~(v < 10)
        <5>1. v \in Nat /\ v >= 10
          BY <2>2, <4>2
        <5>2. v \div 10 \in 0 .. x - 1
          BY <2>2, <5>1
        <5>3. d[v \div 10] = c[v \div 10]
          BY <3>4, <5>2
        <5> HIDE DEF d
        <5> QED
          BY <4>2, <5>3
      <4> QED
        BY <4>1, <4>2
    <3>6. d = [v \in 0 .. x |-> F(d, v)]
      <4> HIDE DEF F
      <4>1. d = [v \in 0 .. x |-> F(c, v)]
        OBVIOUS
      <4> HIDE DEF d
      <4> QED
        BY <3>5, <4>1
    <3>7. IsCount(d, x)
      <4> HIDE DEF d
      <4> QED
        BY <3>6 DEF IsCount
    <3> QED
      BY <2>2, <3>7
  <2> QED
    BY <2>3, <2>4
<1> QED
  BY <1>1

\* A number of two digits or more has one more than without its last.
LEMMA CountIs ==
  ASSUME NEW v \in Nat
  PROVE  (v < 10 => digit_count(v) = 1) /\ (v >= 10 => digit_count(v) = 1 + digit_count(v \div 10))
<1> DEFINE c(k) == CHOOSE f : IsCount(f, k)
<1>1. ASSUME NEW k \in Nat PROVE digit_count(k) = c(k)[k] /\ IsCount(c(k), k)
  <2>1. digit_count(k) = c(k)[k]
    BY DEF digit_count, IsCount
  <2>2. IsCount(c(k), k)
    BY CountExists
  <2> QED
    BY <2>1, <2>2
<1> HIDE DEF c
<1> DEFINE d == c(v)
<1>2. digit_count(v) = d[v] /\ IsCount(d, v)
  BY <1>1
<1> HIDE DEF d
<1>3. \A k \in 0 .. v : d[k] = IF k < 10 THEN 1 ELSE 1 + d[k \div 10]
  BY <1>2 DEF IsCount
<1>4. v \in 0 .. v
  OBVIOUS
<1>5. ASSUME v < 10 PROVE digit_count(v) = 1
  BY <1>2, <1>3, <1>4, <1>5
<1>6. ASSUME v >= 10 PROVE digit_count(v) = 1 + digit_count(v \div 10)
  <2> DEFINE w == v \div 10
             e == c(w)
             Bad == {k \in 0 .. w : e[k] # d[k]}
  <2>1. w \in Nat /\ w < v /\ ~(v < 10)
    BY <1>6
  <2>2. digit_count(w) = e[w] /\ IsCount(e, w)
    BY <1>1, <2>1
  <2>3. d[v] = 1 + d[w]
    BY <1>3, <1>4, <2>1
  <2> HIDE DEF e, w
  <2>4. \A k \in 0 .. w : e[k] = IF k < 10 THEN 1 ELSE 1 + e[k \div 10]
    BY <2>2 DEF IsCount
  <2>5. ASSUME Bad # {} PROVE FALSE
    <3>1. PICK x \in Bad : \A y \in Bad : x <= y
      <4>1. Bad \in SUBSET Nat
        BY <2>1
      <4> HIDE DEF Bad
      <4> QED
        BY <2>5, <4>1, LeastNumber
    <3>2. x \in 0 .. w /\ e[x] # d[x] /\ x \in 0 .. v
      BY <2>1, <3>1
    <3>3. CASE x < 10
      BY <1>3, <2>4, <3>2, <3>3
    <3>4. CASE ~(x < 10)
      <4>1. x \div 10 \in 0 .. w /\ x \div 10 < x
        BY <2>1, <3>2, <3>4
      <4>2. e[x \div 10] = d[x \div 10]
        BY <2>1, <3>1, <3>2, <4>1
      <4>3. e[x] = 1 + e[x \div 10] /\ d[x] = 1 + d[x \div 10]
        BY <1>3, <2>4, <3>2, <3>4
      <4> QED
        BY <3>2, <4>2, <4>3
    <3> QED
      BY <3>3, <3>4
  <2>6. e[w] = d[w]
    <3>1. w \in 0 .. w
      BY <2>1
    <3> QED
      BY <2>5, <3>1
  <2> QED
    BY <1>2, <2>2, <2>3, <2>6 DEF w
<1> QED
  BY <1>5, <1>6

\* Each digit is what so many divisions leave, and there are as many as it
\* takes to leave nothing.
RevPlaces(s, v, base) ==
    /\ \A k \in 1 .. Len(s) : s[k] = divided(v, base, k - 1) % base
    /\ divided(v, base, Len(s)) = 0 /\ (Len(s) > 1 => divided(v, base, Len(s) - 1) # 0)
    /\ base = 10 => Len(s) = digit_count(v)
    /\ v < base => s = <<v>>
RevAll(s, v, base) == RevGood(s, v, base) /\ RevPlaces(s, v, base)

\* One digit.
LEMMA OnePlace ==
  ASSUME NEW base \in {10, 16}, NEW v \in Nat, v < base
  PROVE  RevPlaces(<<v>>, v, base)
<1> DEFINE s == <<v>>
<1>1. Len(s) = 1 /\ s[1] = v
  OBVIOUS
<1>2. divided(v, base, 0) = v /\ divided(v, base, 0 + 1) = divided(v, base, 0) \div base
  BY DividedIs
<1>3. v % base = v /\ v \div base = 0
  <2>1. CASE base = 10
    BY <2>1
  <2>2. CASE base = 16
    BY <2>2
  <2> QED
    BY <2>1, <2>2
<1>4. divided(v, base, 1) = 0
  BY <1>2, <1>3
<1>5. base = 10 => digit_count(v) = 1
  BY CountIs
<1> HIDE DEF s
<1>6. ASSUME NEW k \in 1 .. Len(s) PROVE s[k] = divided(v, base, k - 1) % base
  <2>1. k = 1 /\ k - 1 = 0
    BY <1>1
  <2> QED
    BY <1>1, <1>2, <1>3, <2>1
<1> QED
  BY <1>1, <1>4, <1>5, <1>6 DEF RevPlaces, s

\* One digit more.
LEMMA MorePlaces ==
  ASSUME NEW base \in {10, 16}, NEW v \in Nat, v >= base, NEW s, RevGood(s, v \div base, base), RevPlaces(s, v \div base, base)
  PROVE  RevPlaces(<<v % base>> \o s, v, base)
<1> DEFINE x == v % base
           w == v \div base
           q == <<x>> \o s
           n == Len(s)
<1>1. x \in Int /\ w \in Nat /\ ~(v < base)
  BY DivIs
<1>2. s \in Seq(Int) /\ n \in Nat /\ n >= 1
  BY LenProperties DEF RevGood
<1> HIDE DEF x
<1>3. q \in Seq(Int) /\ Len(q) = n + 1 /\ q[1] = x /\ \A i \in 1 .. n : q[1 + i] = s[i]
  <2>1. <<x>> \in Seq(Int) /\ Len(<<x>>) = 1 /\ <<x>>[1] = x
    BY <1>1
  <2>2. /\ q \in Seq(Int) /\ Len(q) = Len(<<x>>) + Len(s) /\ (\A i \in 1 .. Len(<<x>>) : q[i] = <<x>>[i])
        /\ \A i \in 1 .. Len(s) : q[Len(<<x>>) + i] = s[i]
    BY <1>2, <2>1, JoinIs
  <2> HIDE DEF q
  <2> QED
    BY <1>2, <2>1, <2>2
<1>4. divided(v, base, 0) = v
  BY DividedIs
<1>5. \A k \in Nat : divided(v, base, k + 1) = divided(w, base, k)
  BY DividedOn
<1>6. /\ \A k \in 1 .. n : s[k] = divided(w, base, k - 1) % base
      /\ divided(w, base, n) = 0 /\ (n > 1 => divided(w, base, n - 1) # 0)
      /\ base = 10 => n = digit_count(w)
  BY DEF RevPlaces
<1>7. w # 0
  <2>1. CASE base = 10
    BY <2>1
  <2>2. CASE base = 16
    BY <2>2
  <2> QED
    BY <2>1, <2>2
<1>8. base = 10 => digit_count(v) = 1 + digit_count(w)
  BY CountIs
<1> HIDE DEF n, q, w
<1>9. ASSUME NEW k \in 1 .. n + 1 PROVE q[k] = divided(v, base, k - 1) % base
  <2>1. CASE k = 1
    <3>1. k - 1 = 0
      BY <2>1
    <3> QED
      BY <1>3, <1>4, <2>1, <3>1 DEF x
  <2>2. CASE k # 1
    <3> DEFINE i == k - 1
    <3>1. i \in 1 .. n /\ 1 + i = k /\ i - 1 \in Nat /\ (i - 1) + 1 = k - 1
      BY <1>2, <2>2
    <3>2. q[k] = s[i]
      BY <1>3, <3>1
    <3>3. s[i] = divided(w, base, i - 1) % base
      BY <1>6, <3>1
    <3>4. divided(v, base, (i - 1) + 1) = divided(w, base, i - 1)
      BY <1>5, <3>1
    <3> QED
      BY <3>1, <3>2, <3>3, <3>4
  <2> QED
    BY <2>1, <2>2
<1>10. divided(v, base, n + 1) = 0
  BY <1>2, <1>5, <1>6
<1>11. divided(v, base, (n + 1) - 1) # 0
  <2>1. n - 1 \in Nat /\ (n + 1) - 1 = (n - 1) + 1
    BY <1>2
  <2>2. divided(v, base, (n - 1) + 1) = divided(w, base, n - 1)
    BY <1>5, <2>1
  <2>3. divided(w, base, n - 1) # 0
    <3>1. CASE n = 1
      <4>1. divided(w, base, 0) = w /\ n - 1 = 0
        BY <3>1, DividedIs
      <4> QED
        BY <1>7, <4>1
    <3>2. CASE n # 1
      BY <1>2, <1>6, <3>2
    <3> QED
      BY <3>1, <3>2
  <2> QED
    BY <2>1, <2>2, <2>3
<1>12. base = 10 => n + 1 = digit_count(v)
  BY <1>2, <1>6, <1>8
<1> QED
  BY <1>1, <1>3, <1>9, <1>10, <1>11, <1>12 DEF RevPlaces, q, x

\* The digits of every number, from the last one.
LEMMA ReversedIs ==
  ASSUME NEW value \in Nat, NEW base \in {10, 16}
  PROVE  RevAll(reversed(value, base), value, base)
<1> DEFINE g == CHOOSE c : IsRev(c, value, base)
<1>1. reversed(value, base) = g[value]
  BY DEF reversed, IsRev
<1>2. IsRev(g, value, base)
  BY RevExists
<1> HIDE DEF g
<1>3. ASSUME NEW v \in 0 .. value
      PROVE  /\ v < base => g[v] = <<v>>
             /\ v >= base => g[v] = <<v % base>> \o g[v \div base]
  <2>1. g[v] = IF v < base THEN <<v>> ELSE <<v % base>> \o g[v \div base]
    BY <1>2 DEF IsRev
  <2>2. v >= base => ~(v < base)
    OBVIOUS
  <2> QED
    BY <2>1, <2>2
<1> DEFINE Bad == {v \in 0 .. value : ~RevAll(g[v], v, base)}
<1>4. ASSUME Bad # {} PROVE FALSE
  <2>1. PICK x \in Bad : \A y \in Bad : x <= y
    <3>1. Bad \in SUBSET Nat
      OBVIOUS
    <3> HIDE DEF Bad
    <3> QED
      BY <1>4, <3>1, LeastNumber
  <2>2. x \in 0 .. value /\ ~RevAll(g[x], x, base) /\ x \in Nat
    BY <2>1
  <2>3. CASE x < base
    BY <1>3, <2>2, <2>3, OneDigit, OnePlace DEF RevAll
  <2>4. CASE x >= base
    <3>1. x \div base \in Nat /\ x \div base < x
      BY <2>2, <2>4, DivIs
    <3>2. x \div base \in 0 .. value
      BY <2>2, <3>1
    <3>3. RevAll(g[x \div base], x \div base, base)
      BY <2>1, <2>2, <3>1, <3>2
    <3> QED
      BY <1>3, <2>2, <2>4, <3>3, MoreDigits, MorePlaces DEF RevAll
  <2> QED
    BY <2>2, <2>3, <2>4
<1>5. value \in 0 .. value
  OBVIOUS
<1> QED
  BY <1>1, <1>4, <1>5

\* The two characters numbers are filled up with.
LEMMA RunIs ==
  ASSUME NEW n \in Nat
  PROVE  /\ repeated(SPACE, n) \in Seq(Int) /\ Len(repeated(SPACE, n)) = n
         /\ \A i \in 1 .. n : repeated(SPACE, n)[i] = SPACE
         /\ repeated(0, n) \in Seq(Int) /\ Len(repeated(0, n)) = n
         /\ \A i \in 1 .. n : repeated(0, n)[i] = 0
<1>1. n \in Int /\ SPACE \in Int /\ 0 \in Int /\ (IF n > 0 THEN n ELSE 0) = n
  BY DEF SPACE
<1>2. repeated(SPACE, n) \in Seq(Int) /\ Len(repeated(SPACE, n)) = n /\ \A i \in 1 .. n : repeated(SPACE, n)[i] = SPACE
  BY <1>1, RepeatIs
<1>3. repeated(0, n) \in Seq(Int) /\ Len(repeated(0, n)) = n /\ \A i \in 1 .. n : repeated(0, n)[i] = 0
  BY <1>1, RepeatIs
<1> QED
  BY <1>2, <1>3

\* What a number looks like: blanks, g signs, zeroes and its digits.
Shape(s, b, g, z, D) ==
    /\ s \in Seq(Int) /\ b \in Nat /\ z \in Nat /\ g \in {0, 1} /\ D \in Seq(Int) /\ Len(s) = b + g + z + Len(D)
    /\ \A i \in 1 .. b : s[i] = SPACE
    /\ g = 1 => s[b + 1] = MINUS
    /\ \A i \in 1 .. z : s[b + g + i] = 0
    /\ \A i \in 1 .. Len(D) : s[b + g + z + i] = D[i]

\* Put together from its parts, it looks so.
LEMMA ShapeIs ==
  ASSUME NEW b \in Nat, NEW z \in Nat, NEW g \in {0, 1}, NEW sign, sign = (IF g = 1 THEN <<MINUS>> ELSE <<>>),
         NEW D \in Seq(Int)
  PROVE  Shape(repeated(SPACE, b) \o sign \o repeated(0, z) \o D, b, g, z, D)
<1> DEFINE B == repeated(SPACE, b)
           Z == repeated(0, z)
           p == B \o sign
           q == p \o Z
           s == q \o D
           n == Len(D)
<1>1. B \in Seq(Int) /\ Len(B) = b /\ \A i \in 1 .. b : B[i] = SPACE
  BY RunIs
<1>2. Z \in Seq(Int) /\ Len(Z) = z /\ \A i \in 1 .. z : Z[i] = 0
  BY RunIs
<1>3. sign \in Seq(Int) /\ Len(sign) = g /\ (g = 1 => sign[1] = MINUS)
  BY DEF MINUS
<1>4. n \in Nat
  BY LenProperties
<1> HIDE DEF B, Z, n
<1>5. /\ p \in Seq(Int) /\ Len(p) = b + g /\ (\A i \in 1 .. b : p[i] = SPACE)
      /\ g = 1 => p[b + 1] = MINUS
  <2>1. p \in Seq(Int) /\ Len(p) = Len(B) + Len(sign)
        /\ (\A i \in 1 .. Len(B) : p[i] = B[i]) /\ \A i \in 1 .. Len(sign) : p[Len(B) + i] = sign[i]
    BY <1>1, <1>3, JoinIs
  <2> HIDE DEF p
  <2>2. g = 1 => 1 \in 1 .. Len(sign)
    BY <1>3
  <2> QED
    BY <1>1, <1>3, <2>1, <2>2
<1> HIDE DEF p
<1>6. /\ q \in Seq(Int) /\ Len(q) = b + g + z /\ (\A i \in 1 .. b + g : q[i] = p[i])
      /\ \A i \in 1 .. z : q[b + g + i] = 0
  <2>1. q \in Seq(Int) /\ Len(q) = Len(p) + Len(Z)
        /\ (\A i \in 1 .. Len(p) : q[i] = p[i]) /\ \A i \in 1 .. Len(Z) : q[Len(p) + i] = Z[i]
    BY <1>2, <1>5, JoinIs
  <2> HIDE DEF q
  <2> QED
    BY <1>2, <1>5, <2>1
<1> HIDE DEF q
<1>7. /\ s \in Seq(Int) /\ Len(s) = b + g + z + n /\ (\A i \in 1 .. b + g + z : s[i] = q[i])
      /\ \A i \in 1 .. n : s[b + g + z + i] = D[i]
  <2>1. s \in Seq(Int) /\ Len(s) = Len(q) + Len(D)
        /\ (\A i \in 1 .. Len(q) : s[i] = q[i]) /\ \A i \in 1 .. Len(D) : s[Len(q) + i] = D[i]
    BY <1>6, JoinIs
  <2> HIDE DEF s
  <2> QED
    BY <1>6, <2>1 DEF n
<1> HIDE DEF s
<1>8. ASSUME NEW i \in 1 .. b PROVE s[i] = SPACE
  <2>1. i \in 1 .. b + g /\ i \in 1 .. b + g + z
    OBVIOUS
  <2> QED
    BY <1>5, <1>6, <1>7, <2>1
<1>9. ASSUME g = 1 PROVE s[b + 1] = MINUS
  <2>1. b + 1 \in 1 .. b + g /\ b + 1 \in 1 .. b + g + z
    BY <1>9
  <2> QED
    BY <1>5, <1>6, <1>7, <1>9, <2>1
<1>10. ASSUME NEW i \in 1 .. z PROVE s[b + g + i] = 0
  <2>1. b + g + i \in 1 .. b + g + z
    OBVIOUS
  <2> QED
    BY <1>6, <1>7, <2>1
<1> QED
  BY <1>4, <1>7, <1>8, <1>9, <1>10 DEF Shape, s, q, p, B, Z, n

\* emit_number fills up with blanks or zeroes.
LEMMA NumberIs ==
  ASSUME NEW value \in Nat, NEW base \in {10, 16}, NEW negative \in BOOLEAN, NEW width \in Int, NEW precision \in Int,
         NEW zero \in BOOLEAN
  PROVE  \E b, z : LET s == emit_number(value, base, negative, width, precision, zero)
                   IN  /\ Shape(s, b, IF negative THEN 1 ELSE 0, z, flipped(reversed(value, base)))
                       /\ Len(s) >= width /\ Len(s) >= precision
<1> DEFINE D == flipped(reversed(value, base))
           n == Len(D)
           sign == IF negative THEN <<MINUS>> ELSE <<>>
           g == IF negative THEN 1 ELSE 0
           zeroes == IF precision > n THEN precision - n ELSE 0
           total == n + zeroes + g
           pad == IF total < width THEN width - total ELSE 0
           s == emit_number(value, base, negative, width, precision, zero)
<1>1. D \in Seq(Int) /\ n \in Nat
  BY ReversedIs, FlipIs, LenProperties DEF RevGood, RevAll
<1>2. Len(sign) = g /\ g \in {0, 1} /\ sign = (IF g = 1 THEN <<MINUS>> ELSE <<>>)
  OBVIOUS
<1>3. zeroes \in Nat /\ total \in Nat /\ pad \in Nat /\ n + zeroes >= precision /\ n + zeroes + g + pad >= width
  <2> HIDE DEF D, n, g
  <2>1. zeroes \in Nat /\ n + zeroes >= precision
    BY <1>1
  <2> HIDE DEF zeroes
  <2>2. total \in Nat /\ total = n + zeroes + g
    BY <1>1, <1>2, <2>1
  <2> HIDE DEF total
  <2>3. pad \in Nat /\ total + pad >= width
    BY <2>2
  <2> QED
    BY <1>1, <1>2, <2>1, <2>2, <2>3
<1>4. s = IF zero /\ precision < 0 THEN sign \o repeated(0, pad) \o D
          ELSE repeated(SPACE, pad) \o sign \o repeated(0, zeroes) \o D
  BY <1>2 DEF emit_number
<1>5. zero /\ precision < 0 => zeroes = 0
  BY <1>1
<1> HIDE DEF D, n, sign, g, zeroes, total, pad
<1>6. CASE zero /\ precision < 0
  <2>1. repeated(SPACE, 0) = <<>>
    BY RepeatIs, EmptySeq DEF SPACE
  <2>2. sign \in Seq(Int)
    BY <1>2 DEF MINUS
  <2>3. repeated(SPACE, 0) \o sign = sign
    BY <2>1, <2>2, ConcatEmptySeq
  <2>4. s = repeated(SPACE, 0) \o sign \o repeated(0, pad) \o D
    BY <1>4, <1>6, <2>3
  <2>5. Shape(s, 0, g, pad, D)
    BY <1>1, <1>2, <1>3, <2>4, ShapeIs
  <2> HIDE DEF s
  <2>6. Len(s) = 0 + g + pad + n
    BY <2>5 DEF Shape, n
  <2>7. Len(s) >= width /\ Len(s) >= precision
    BY <1>1, <1>2, <1>3, <1>5, <1>6, <2>6
  <2> QED
    BY <2>5, <2>7 DEF s, g, D
<1>7. CASE ~(zero /\ precision < 0)
  <2>1. s = repeated(SPACE, pad) \o sign \o repeated(0, zeroes) \o D
    BY <1>4, <1>7
  <2>2. Shape(s, pad, g, zeroes, D)
    BY <1>1, <1>2, <1>3, <2>1, ShapeIs
  <2> HIDE DEF s
  <2>3. Len(s) = pad + g + zeroes + n
    BY <2>2 DEF Shape, n
  <2>4. Len(s) >= width /\ Len(s) >= precision
    BY <1>1, <1>2, <1>3, <2>3
  <2> QED
    BY <2>2, <2>4 DEF s, g, D
<1> QED
  BY <1>6, <1>7

\* A word has more than no values: as many as there are sets of its bits.
LEMMA BitsAre == ASSUME NEW bits \in Nat PROVE 2 ^ bits \in Nat \ {0}
<1> DEFINE S == 1 .. bits
<1>1. bits \in Nat
  OBVIOUS
<1>2. IsFiniteSet(S) /\ Cardinality(S) = bits
  <2>1. 1 \in Int /\ bits \in Int /\ (IF 1 > bits THEN 0 ELSE bits - 1 + 1) = bits
    BY <1>1
  <2> QED
    BY <2>1, FS_Interval
<1> HIDE DEF S
<1>3. IsFiniteSet(SUBSET S) /\ Cardinality(SUBSET S) = 2 ^ bits
  BY <1>2, FS_SUBSET
<1>4. SUBSET S # {}
  OBVIOUS
<1> QED
  BY <1>3, <1>4, FS_CardinalityType, FS_EmptySet

\* An int is a word.
LEMMA WordIs == 2 ^ INT_BITS \in Nat \ {0}
BY BitsAre, FormatAssumption

\* The bits of an argument are a number.
LEMMA UnsignedIs ==
  ASSUME NEW v \in Int
  PROVE  unsigned(v) \in Nat
<1> DEFINE w == 2 ^ INT_BITS
<1>1. w \in Nat /\ w > 0
  BY WordIs
<1> HIDE DEF w
<1>2. v % w \in Nat
  BY <1>1
<1> QED
  BY <1>2 DEF unsigned, w

\* A directive and what it was given.
Directives == [conv : STRING, zero : BOOLEAN, width : Nat, precision : Int, arg : Int]

\* What it prints is a text.
LEMMA DirectiveIs ==
  ASSUME NEW d \in Directives
  PROVE  directive(d) \in Seq(Int)
<1>1. /\ d.width \in Int /\ d.precision \in Int /\ d.arg \in Int /\ d.zero \in BOOLEAN
      /\ unsigned(d.arg) \in Nat /\ (IF d.arg < 0 THEN -d.arg ELSE d.arg) \in Nat /\ (d.arg < 0) \in BOOLEAN
  <2>1. d.width \in Int /\ d.precision \in Int /\ d.arg \in Int /\ d.zero \in BOOLEAN
    BY DEF Directives
  <2>2. unsigned(d.arg) \in Nat
    BY <2>1, UnsignedIs
  <2> QED
    BY <2>1, <2>2
<1>2. ASSUME NEW value \in Nat, NEW base \in {10, 16}, NEW negative \in BOOLEAN, NEW width \in Int, NEW precision \in Int,
             NEW zero \in BOOLEAN
      PROVE  emit_number(value, base, negative, width, precision, zero) \in Seq(Int)
  BY NumberIs DEF Shape
<1>3. emit_number(IF d.arg < 0 THEN -d.arg ELSE d.arg, 10, d.arg < 0, d.width, d.precision, d.zero) \in Seq(Int)
  <2> DEFINE a == IF d.arg < 0 THEN -d.arg ELSE d.arg
             g == d.arg < 0
  <2>1. a \in Nat /\ g \in BOOLEAN
    BY <1>1
  <2> HIDE DEF a, g
  <2>2. emit_number(a, 10, g, d.width, d.precision, d.zero) \in Seq(Int)
    BY <1>1, <1>2, <2>1
  <2> QED
    BY <2>2 DEF a, g
<1>4. ASSUME NEW base \in {10, 16}
      PROVE  emit_number(unsigned(d.arg), base, FALSE, d.width, d.precision, d.zero) \in Seq(Int)
  BY <1>1, <1>2
<1>5. <<0, LETTER_X>> \o emit_number(unsigned(d.arg), 16, FALSE, 0, -1, FALSE) \in Seq(Int)
  <2>1. emit_number(unsigned(d.arg), 16, FALSE, 0, -1, FALSE) \in Seq(Int)
    <3>1. 16 \in {10, 16} /\ 0 \in Int /\ -1 \in Int /\ FALSE \in BOOLEAN
      OBVIOUS
    <3> QED
      BY <1>1, <1>2, <3>1
  <2>2. <<0, LETTER_X>> \in Seq(Int)
    BY DEF LETTER_X
  <2> QED
    BY <2>1, <2>2, ConcatProperties
<1>6. repeated(LETTER_X, IF d.precision < 0 \/ d.arg < d.precision THEN d.arg ELSE d.precision) \in Seq(Int)
  <2> DEFINE n == IF d.precision < 0 \/ d.arg < d.precision THEN d.arg ELSE d.precision
  <2>1. n \in Int /\ LETTER_X \in Int
    BY <1>1 DEF LETTER_X
  <2> HIDE DEF n
  <2>2. repeated(LETTER_X, n) \in Seq(Int)
    BY <2>1, RepeatIs
  <2> QED
    BY <2>2 DEF n
<1>7. <<d.arg>> \in Seq(Int) /\ <<PERCENT>> \in Seq(Int)
  BY <1>1 DEF PERCENT
<1>8. CASE d.conv = "d"
  BY <1>3, <1>8 DEF directive
<1>9. CASE d.conv = "u"
  BY <1>4, <1>9 DEF directive
<1>10. CASE d.conv = "x"
  BY <1>4, <1>10 DEF directive
<1>11. CASE d.conv = "p"
  BY <1>5, <1>11 DEF directive
<1>12. CASE d.conv = "s"
  BY <1>6, <1>12 DEF directive
<1>13. CASE d.conv = "c"
  BY <1>7, <1>13 DEF directive
<1>14. CASE d.conv \notin {"d", "u", "x", "p", "s", "c"}
  BY <1>7, <1>14 DEF directive
<1> QED
  BY <1>8, <1>9, <1>10, <1>11, <1>12, <1>13, <1>14

\* The loop over the first n directives.
IsEmit(c, f, n) == c = [i \in 0 .. n |-> IF i = 0 THEN <<>> ELSE c[i - 1] \o directive(f[i])]

\* It gives a text after each of them.
LEMMA EmitExists ==
  ASSUME NEW f, NEW n \in Nat, \A i \in 1 .. n : f[i] \in Directives
  PROVE  \E c : IsEmit(c, f, n) /\ \A i \in 0 .. n : c[i] \in Seq(Int)
<1> DEFINE Good(k) == \E c : IsEmit(c, f, k) /\ \A i \in 0 .. k : c[i] \in Seq(Int)
           Bad == {k \in 0 .. n : ~Good(k)}
<1>1. ASSUME Bad # {} PROVE FALSE
  <2>1. PICK x \in Bad : \A y \in Bad : x <= y
    <3>1. Bad \in SUBSET Nat
      OBVIOUS
    <3> HIDE DEF Bad
    <3> QED
      BY <1>1, <3>1, LeastNumber
  <2>2. x \in 0 .. n /\ ~Good(x)
    BY <2>1
  <2>3. CASE x = 0
    <3> DEFINE c == [i \in 0 .. 0 |-> <<>>]
    <3>1. c = [i \in 0 .. 0 |-> IF i = 0 THEN <<>> ELSE c[i - 1] \o directive(f[i])]
      OBVIOUS
    <3>2. IsEmit(c, f, 0)
      BY <3>1 DEF IsEmit
    <3>3. \A i \in 0 .. 0 : c[i] \in Seq(Int)
      OBVIOUS
    <3> QED
      BY <2>2, <2>3, <3>2, <3>3
  <2>4. CASE x # 0
    <3>1. x - 1 \in 0 .. n /\ x - 1 \notin Bad
      BY <2>1, <2>2, <2>4
    <3>2. PICK c : IsEmit(c, f, x - 1) /\ \A i \in 0 .. x - 1 : c[i] \in Seq(Int)
      BY <3>1
    <3> DEFINE F(g, i) == IF i = 0 THEN <<>> ELSE g[i - 1] \o directive(f[i])
               d == [i \in 0 .. x |-> F(c, i)]
    <3>3. c = [i \in 0 .. x - 1 |-> F(c, i)]
      BY <3>2 DEF IsEmit
    <3>4. ASSUME NEW w \in 0 .. x - 1 PROVE d[w] = c[w]
      <4>1. w \in 0 .. x
        BY <2>2
      <4> HIDE DEF F
      <4>2. c[w] = F(c, w)
        BY <3>3
      <4> QED
        BY <4>1, <4>2
    <3>5. ASSUME NEW i \in 0 .. x PROVE F(c, i) = F(d, i)
      <4>1. CASE i = 0
        BY <4>1
      <4>2. CASE i # 0
        <5>1. i - 1 \in 0 .. x - 1
          BY <2>2, <4>2
        <5>2. d[i - 1] = c[i - 1]
          BY <3>4, <5>1
        <5> HIDE DEF d
        <5> QED
          BY <4>2, <5>2
      <4> QED
        BY <4>1, <4>2
    <3>6. d = [i \in 0 .. x |-> F(d, i)]
      <4> HIDE DEF F
      <4>1. d = [i \in 0 .. x |-> F(c, i)]
        OBVIOUS
      <4> HIDE DEF d
      <4> QED
        BY <3>5, <4>1
    <3>7. IsEmit(d, f, x)
      <4> HIDE DEF d
      <4> QED
        BY <3>6 DEF IsEmit
    <3>8. ASSUME NEW i \in 0 .. x PROVE d[i] \in Seq(Int)
      <4>1. d[i] = F(c, i)
        <5> HIDE DEF F
        <5> QED
          OBVIOUS
      <4> HIDE DEF d
      <4>2. CASE i = 0
        BY <4>1, <4>2
      <4>3. CASE i # 0
        <5>1. i - 1 \in 0 .. x - 1 /\ i \in 1 .. n
          BY <2>2, <4>3
        <5>2. c[i - 1] \in Seq(Int) /\ directive(f[i]) \in Seq(Int)
          BY <3>2, <5>1, DirectiveIs
        <5>3. c[i - 1] \o directive(f[i]) \in Seq(Int)
          BY <5>2, ConcatProperties
        <5> QED
          BY <4>1, <4>3, <5>3
      <4> QED
        BY <4>2, <4>3
    <3> HIDE DEF d
    <3> QED
      BY <2>2, <3>7, <3>8
  <2> QED
    BY <2>3, <2>4
<1>2. n \in 0 .. n
  OBVIOUS
<1>3. Good(n)
  <2> HIDE DEF Good
  <2> QED
    BY <1>1, <1>2
<1> QED
  BY <1>3

\* All that is emitted is a text; for one directive it is what that prints.
LEMMA EmittedIs ==
  ASSUME NEW f \in Seq(Directives)
  PROVE  emitted(f) \in Seq(Int) /\ (Len(f) = 1 => emitted(f) = directive(f[1]))
<1> DEFINE n == Len(f)
           g == CHOOSE c : IsEmit(c, f, n)
<1>1. n \in Nat /\ \A i \in 1 .. n : f[i] \in Directives
  BY LenProperties, ElementOfSeq
<1>2. emitted(f) = g[n]
  BY DEF emitted, IsEmit
<1> HIDE DEF n
<1>3. PICK c : IsEmit(c, f, n) /\ \A i \in 0 .. n : c[i] \in Seq(Int)
  BY <1>1, EmitExists
<1>4. IsEmit(g, f, n)
  BY <1>3
<1> HIDE DEF g
<1>5. \A i \in 0 .. n : g[i] = IF i = 0 THEN <<>> ELSE g[i - 1] \o directive(f[i])
  BY <1>4 DEF IsEmit
<1> DEFINE Bad == {i \in 0 .. n : g[i] \notin Seq(Int)}
<1>6. ASSUME Bad # {} PROVE FALSE
  <2>1. PICK x \in Bad : \A y \in Bad : x <= y
    <3>1. Bad \in SUBSET Nat
      BY <1>1
    <3> HIDE DEF Bad
    <3> QED
      BY <1>6, <3>1, LeastNumber
  <2>2. x \in 0 .. n /\ g[x] \notin Seq(Int)
    BY <2>1
  <2>3. CASE x = 0
    <3>1. g[0] = <<>>
      BY <1>5, <2>2, <2>3
    <3> QED
      BY <2>2, <2>3, <3>1
  <2>4. CASE x # 0
    <3>1. x - 1 \in 0 .. n /\ x \in 1 .. n /\ x - 1 < x
      BY <1>1, <2>2, <2>4
    <3>2. g[x - 1] \in Seq(Int)
      BY <1>1, <2>1, <2>2, <3>1
    <3>3. directive(f[x]) \in Seq(Int)
      BY <1>1, <3>1, DirectiveIs
    <3>4. g[x] = g[x - 1] \o directive(f[x])
      BY <1>5, <2>2, <2>4
    <3> QED
      BY <2>2, <3>2, <3>3, <3>4, ConcatProperties
  <2> QED
    BY <2>3, <2>4
<1>7. g[n] \in Seq(Int)
  <2>1. n \in 0 .. n
    BY <1>1
  <2> QED
    BY <1>6, <2>1
<1>8. ASSUME n = 1 PROVE g[n] = directive(f[1])
  <2>1. g[0] = <<>>
    BY <1>5, <1>8
  <2>2. g[1] = g[0] \o directive(f[1])
    <3>1. 1 \in 0 .. n /\ 1 # 0 /\ 1 - 1 = 0
      BY <1>8
    <3>2. g[1] = IF 1 = 0 THEN <<>> ELSE g[1 - 1] \o directive(f[1])
      BY <1>5, <3>1, Zenon
    <3> QED
      BY <3>1, <3>2, Zenon
  <2>3. directive(f[1]) \in Seq(Int)
    BY <1>1, <1>8, DirectiveIs
  <2>4. g[1] = <<>> \o directive(f[1])
    BY <2>1, <2>2, Zenon
  <2> QED
    BY <1>8, <2>3, <2>4, ConcatEmptySeq
<1> QED
  BY <1>2, <1>7, <1>8 DEF n

\* One bit more, twice as many values: the sets with and without it.
LEMMA PowerIs ==
  ASSUME NEW n \in Nat
  PROVE  2 ^ (n + 1) = 2 * 2 ^ n /\ 2 ^ n \in Nat
<1> DEFINE S == 1 .. n
           x == n + 1
           P == SUBSET S
           Q == {A \cup {x} : A \in P}
<1>1. ASSUME NEW k \in Nat PROVE IsFiniteSet(1 .. k) /\ Cardinality(1 .. k) = k
  <2>1. 1 \in Int /\ k \in Int /\ (IF 1 > k THEN 0 ELSE k - 1 + 1) = k
    OBVIOUS
  <2> QED
    BY <2>1, FS_Interval
<1>2. ASSUME NEW k \in Nat PROVE IsFiniteSet(SUBSET (1 .. k)) /\ Cardinality(SUBSET (1 .. k)) = 2 ^ k
  BY <1>1, FS_SUBSET
<1>3. IsFiniteSet(P) /\ Cardinality(P) = 2 ^ n /\ Cardinality(P) \in Nat
  BY <1>2, FS_CardinalityType
<1>4. x \notin S /\ 1 .. n + 1 = S \cup {x}
  OBVIOUS
<1> HIDE DEF S, x
<1>5. Cardinality(SUBSET (S \cup {x})) = 2 ^ (n + 1)
  <2>1. n + 1 \in Nat
    OBVIOUS
  <2> QED
    BY <1>2, <1>4, <2>1
<1>6. IsFiniteSet(Q) /\ Cardinality(Q) = Cardinality(P)
  <2> DEFINE f == [A \in P |-> A \cup {x}]
  <2>1. f \in Bijection(P, Q)
    <3>1. f \in [P -> Q]
      OBVIOUS
    <3>2. ASSUME NEW A \in P, NEW B \in P, f[A] = f[B] PROVE A = B
      <4>1. A \cup {x} = B \cup {x} /\ x \notin A /\ x \notin B
        BY <1>4, <3>2
      <4> QED
        BY <4>1
    <3>3. \A T \in Q : \E A \in P : f[A] = T
      OBVIOUS
    <3> HIDE DEF f, P, Q
    <3> QED
      BY <3>1, <3>2, <3>3, Fun_IsBij
  <2>2. ExistsBijection(P, Q)
    BY <2>1 DEF ExistsBijection
  <2> HIDE DEF P, Q
  <2> QED
    BY <1>3, <2>2, FS_Bijection
<1>7. SUBSET (S \cup {x}) = P \cup Q
  <2>1. ASSUME NEW T \in SUBSET (S \cup {x}) PROVE T \in P \cup Q
    <3>1. CASE x \in T
      <4>1. T \ {x} \in P /\ T = (T \ {x}) \cup {x}
        BY <3>1
      <4> QED
        BY <4>1
    <3>2. CASE x \notin T
      BY <3>2
    <3> QED
      BY <3>1, <3>2
  <2>2. ASSUME NEW T \in P \cup Q PROVE T \in SUBSET (S \cup {x})
    OBVIOUS
  <2> QED
    BY <2>1, <2>2
<1>8. P \cap Q = {}
  BY <1>4
<1> HIDE DEF P, Q
<1>9. Cardinality(P \cup Q) = Cardinality(P) + Cardinality(Q) - Cardinality({})
  BY <1>3, <1>6, <1>8, FS_Union
<1> DEFINE c == 2 ^ n
<1>10. Cardinality({}) = 0
  BY FS_EmptySet
<1>11. 2 ^ (n + 1) = c + c - 0 /\ c \in Nat
  BY <1>3, <1>5, <1>6, <1>7, <1>9, <1>10
<1> HIDE DEF c
<1>12. c + c - 0 = 2 * c
  BY <1>11
<1> QED
  BY <1>11, <1>12 DEF c

\* k hexadecimal digits hold 4 * k bits.
LEMMA HexFits ==
  ASSUME NEW k \in Nat, NEW u \in Nat, u < 2 ^ (4 * k)
  PROVE  divided(u, 16, k) = 0
<1> DEFINE p(j) == divided(u, 16, j)
           left(j) == 2 ^ (4 * (k - j))
           Bad == {j \in 0 .. k : ~(p(j) < left(j))}
<1>1. p(0) = u /\ \A j \in Nat : p(j + 1) = p(j) \div 16
  BY DividedIs
<1>2. \A j \in Nat : p(j) \in Nat
  <2>1. 16 \in {10, 16}
    OBVIOUS
  <2> QED
    BY <2>1, DividedOn
<1>3. left(0) = 2 ^ (4 * k)
  <2>1. 4 * (k - 0) = 4 * k
    OBVIOUS
  <2> QED
    BY <2>1
<1>4. ASSUME NEW j \in 0 .. k - 1 PROVE left(j) = 16 * left(j + 1) /\ left(j + 1) \in Nat
  <2> DEFINE m == 4 * (k - (j + 1))
  <2>1. m \in Nat /\ 4 * (k - j) = m + 1 + 1 + 1 + 1
    OBVIOUS
  <2> HIDE DEF m
  <2>2. /\ 2 ^ (m + 1) = 2 * 2 ^ m /\ 2 ^ m \in Nat
        /\ 2 ^ (m + 1 + 1) = 2 * 2 ^ (m + 1)
        /\ 2 ^ (m + 1 + 1 + 1) = 2 * 2 ^ (m + 1 + 1)
        /\ 2 ^ (m + 1 + 1 + 1 + 1) = 2 * 2 ^ (m + 1 + 1 + 1)
    <3>1. m + 1 \in Nat /\ m + 1 + 1 \in Nat /\ m + 1 + 1 + 1 \in Nat
      BY <2>1
    <3> QED
      BY <2>1, <3>1, PowerIs
  <2> DEFINE a == 2 ^ m
             b == 2 ^ (m + 1 + 1 + 1 + 1)
  <2>3. b = 16 * a /\ a \in Nat
    BY <2>2
  <2>4. left(j) = b /\ left(j + 1) = a
    BY <2>1 DEF m
  <2> HIDE DEF a, b, left
  <2> QED
    BY <2>3, <2>4
<1> HIDE DEF p, left
<1>5. ASSUME Bad # {} PROVE FALSE
  <2>1. PICK x \in Bad : \A y \in Bad : x <= y
    <3>1. Bad \in SUBSET Nat
      OBVIOUS
    <3> HIDE DEF Bad
    <3> QED
      BY <1>5, <3>1, LeastNumber
  <2>2. x \in 0 .. k /\ ~(p(x) < left(x))
    BY <2>1
  <2>3. x # 0
    BY <1>1, <1>3, <2>2
  <2> DEFINE y == x - 1
  <2>4. y \in 0 .. k - 1 /\ y \in 0 .. k /\ y \in Nat /\ y < x /\ y + 1 = x
    BY <2>2, <2>3
  <2>5. p(y) < left(y)
    BY <2>1, <2>2, <2>4
  <2> HIDE DEF y
  <2>6. p(x) = p(y) \div 16 /\ left(y) = 16 * left(x) /\ left(x) \in Nat /\ p(y) \in Nat
    BY <1>1, <1>2, <1>4, <2>4
  <2>7. p(x) < left(x)
    BY <2>5, <2>6
  <2> QED
    BY <2>2, <2>7
<1>6. p(k) < left(k)
  <2>1. k \in 0 .. k
    OBVIOUS
  <2> QED
    BY <1>5, <2>1
<1>7. left(k) = 1
  <2>1. 4 * (k - k) = 0 /\ 2 ^ 0 = 1
    OBVIOUS
  <2> QED
    BY <2>1 DEF left
<1> QED
  BY <1>2, <1>6, <1>7 DEF p

\* The digits of a number as they are printed.
Figures(v, base) == flipped(reversed(v, base))
LEMMA FiguresAre ==
  ASSUME NEW v \in Nat, NEW base \in {10, 16}
  PROVE  /\ Figures(v, base) \in Seq(Int) /\ Len(Figures(v, base)) \in Nat /\ Len(Figures(v, base)) >= 1
         /\ v = 0 => Figures(v, base) = <<0>>
         /\ reversed(v, base) \in Seq(Int)
         /\ \A i \in 1 .. Len(Figures(v, base)) :
              Figures(v, base)[i] = divided(v, base, Len(Figures(v, base)) - i) % base
         /\ base = 10 => Len(Figures(v, base)) = digit_count(v)
         /\ divided(v, base, Len(Figures(v, base))) = 0
         /\ Len(Figures(v, base)) > 1 => divided(v, base, Len(Figures(v, base)) - 1) # 0
<1> DEFINE R == reversed(v, base)
           D == Figures(v, base)
           n == Len(R)
<1>1. RevGood(R, v, base) /\ RevPlaces(R, v, base)
  BY ReversedIs DEF RevAll
<1>2. R \in Seq(Int) /\ n \in Nat /\ n >= 1
  BY <1>1, LenProperties DEF RevGood
<1>3. /\ \A k \in 1 .. n : R[k] = divided(v, base, k - 1) % base
      /\ divided(v, base, n) = 0 /\ (n > 1 => divided(v, base, n - 1) # 0)
      /\ base = 10 => n = digit_count(v)
      /\ v < base => R = <<v>>
  BY <1>1 DEF RevPlaces
<1>4. D \in Seq(Int) /\ Len(D) = n /\ \A i \in 1 .. n : D[i] = R[n + 1 - i]
  BY <1>2, FlipIs DEF Figures
<1> HIDE DEF R, n, D
<1>5. ASSUME NEW i \in 1 .. n PROVE D[i] = divided(v, base, n - i) % base
  <2> DEFINE k == n + 1 - i
  <2>1. k \in 1 .. n /\ k - 1 = n - i
    BY <1>2
  <2>2. D[i] = R[k]
    BY <1>4
  <2> HIDE DEF k
  <2>3. R[k] = divided(v, base, k - 1) % base
    BY <1>3, <2>1
  <2> QED
    BY <2>1, <2>2, <2>3
<1>6. ASSUME v = 0 PROVE D = <<0>>
  <2>1. R = <<0>>
    BY <1>3, <1>6
  <2>2. n = 1 /\ R[1] = 0
    BY <2>1 DEF n
  <2>3. D[1] = 0
    <3>1. 1 \in 1 .. n /\ n + 1 - 1 = 1
      BY <2>2
    <3> QED
      BY <1>4, <2>2, <3>1
  <2>4. <<0>> \in Seq(Int) /\ Len(<<0>>) = 1 /\ <<0>>[1] = 0
    OBVIOUS
  <2>5. \A i \in 1 .. Len(D) : D[i] = <<0>>[i]
    BY <1>4, <2>2, <2>3, <2>4
  <2>6. Len(D) = Len(<<0>>)
    BY <1>4, <2>2, <2>4
  <2> QED
    BY <1>4, <2>4, <2>5, <2>6, SeqEqual
<1> QED
  BY <1>2, <1>3, <1>4, <1>5, <1>6 DEF R, D, n

\* Without width and precision a number is its sign and its digits.
Signed(negative, s) == IF negative THEN <<MINUS>> \o s ELSE s
LEMMA PlainIs ==
  ASSUME NEW v \in Nat, NEW base \in {10, 16}, NEW negative \in BOOLEAN, NEW zero \in BOOLEAN
  PROVE  emit_number(v, base, negative, 0, -1, zero) = Signed(negative, Figures(v, base))
<1> DEFINE D == Figures(v, base)
           n == Len(D)
           sign == IF negative THEN <<MINUS>> ELSE <<>>
<1>1. D \in Seq(Int) /\ n \in Nat /\ n >= 1
  BY FiguresAre
<1>2. sign \in Seq(Int) /\ Len(sign) \in Nat
  BY DEF MINUS
<1>3. repeated(0, 0) = <<>> /\ repeated(SPACE, 0) = <<>>
  BY RunIs, EmptySeq
<1> DEFINE zeroes == IF -1 > n THEN -1 - n ELSE 0
           total == n + zeroes + Len(sign)
           pad == IF total < 0 THEN 0 - total ELSE 0
<1>4. zeroes = 0 /\ pad = 0
  <2> HIDE DEF n, sign
  <2>1. zeroes = 0
    BY <1>1
  <2> HIDE DEF zeroes
  <2>2. total \in Nat
    BY <1>1, <1>2, <2>1
  <2> HIDE DEF total
  <2> QED
    BY <2>1, <2>2
<1>5. emit_number(v, base, negative, 0, -1, zero) =
        IF zero /\ -1 < 0 THEN sign \o repeated(0, pad) \o D
        ELSE repeated(SPACE, pad) \o sign \o repeated(0, zeroes) \o D
  BY DEF emit_number, Figures
<1> HIDE DEF n, zeroes, total, pad
<1>6. sign \o D = Signed(negative, D)
  <2>1. CASE negative
    BY <2>1 DEF Signed
  <2>2. CASE ~negative
    <3>1. sign = <<>>
      BY <2>2
    <3>2. sign \o D = D
      BY <1>1, <3>1, ConcatEmptySeq
    <3> QED
      BY <2>2, <3>2 DEF Signed
  <2> QED
    BY <2>1, <2>2
<1> HIDE DEF sign, D
<1>7. sign \o repeated(0, 0) = sign /\ repeated(SPACE, 0) \o sign = sign
  BY <1>2, <1>3, ConcatEmptySeq
<1>8. emit_number(v, base, negative, 0, -1, zero) = sign \o D
  <2>1. CASE zero /\ -1 < 0
    BY <1>4, <1>5, <1>7, <2>1
  <2>2. CASE ~(zero /\ -1 < 0)
    BY <1>4, <1>5, <1>7, <2>2
  <2> QED
    BY <2>1, <2>2
<1> QED
  BY <1>6, <1>8 DEF D

\* Turning round what ends in the sign puts it first.
LEMMA FlipSign ==
  ASSUME NEW s \in Seq(Int), NEW negative \in BOOLEAN
  PROVE  LET t == s \o (IF negative THEN <<MINUS>> ELSE <<>>)
         IN  /\ flipped(t) = Signed(negative, flipped(s))
             /\ [j \in 1 .. Len(t) |-> t[Len(t) - j + 1]] = flipped(t)
<1> DEFINE sign == IF negative THEN <<MINUS>> ELSE <<>>
           t == s \o sign
           n == Len(s)
           D == flipped(s)
           T == flipped(t)
<1>1. n \in Nat
  BY LenProperties
<1>2. D \in Seq(Int) /\ Len(D) = n /\ \A i \in 1 .. n : D[i] = s[n + 1 - i]
  BY FlipIs
<1>3. T = Signed(negative, D)
  <2>1. CASE ~negative
    <3>1. t = s
      BY <2>1, ConcatEmptySeq
    <3> QED
      BY <2>1, <3>1 DEF Signed
  <2>2. CASE negative
    <3> DEFINE m == <<MINUS>>
               U == m \o D
    <3>1. m \in Seq(Int) /\ Len(m) = 1 /\ m[1] = MINUS
      BY DEF MINUS
    <3>2. t = s \o m
      BY <2>2
    <3> HIDE DEF m, t, D, n
    <3>3. t \in Seq(Int) /\ Len(t) = n + 1 /\ (\A i \in 1 .. n : t[i] = s[i]) /\ t[n + 1] = MINUS
      <4>1. t \in Seq(Int) /\ Len(t) = Len(s) + Len(m) /\ (\A i \in 1 .. Len(s) : t[i] = s[i])
            /\ \A i \in 1 .. Len(m) : t[Len(s) + i] = m[i]
        BY <3>1, <3>2, JoinIs
      <4>2. 1 \in 1 .. Len(m)
        BY <3>1
      <4> QED
        BY <3>1, <4>1, <4>2 DEF n
    <3>4. U \in Seq(Int) /\ Len(U) = n + 1 /\ U[1] = MINUS /\ \A i \in 1 .. n : U[1 + i] = D[i]
      <4>1. U \in Seq(Int) /\ Len(U) = Len(m) + Len(D) /\ (\A i \in 1 .. Len(m) : U[i] = m[i])
            /\ \A i \in 1 .. Len(D) : U[Len(m) + i] = D[i]
        BY <1>2, <3>1, JoinIs
      <4>2. 1 \in 1 .. Len(m)
        BY <3>1
      <4> HIDE DEF U
      <4> QED
        BY <1>1, <1>2, <3>1, <4>1, <4>2
    <3> HIDE DEF U
    <3>5. T \in Seq(Int) /\ Len(T) = n + 1 /\ \A i \in 1 .. n + 1 : T[i] = t[(n + 1) + 1 - i]
      BY <3>3, FlipIs
    <3> HIDE DEF T
    <3>6. ASSUME NEW i \in 1 .. n + 1 PROVE T[i] = U[i]
      <4>1. CASE i = 1
        <5>1. (n + 1) + 1 - i = n + 1
          BY <1>1, <4>1
        <5> QED
          BY <3>3, <3>4, <3>5, <4>1, <5>1
      <4>2. CASE i # 1
        <5> DEFINE j == i - 1
                   k == (n + 1) + 1 - i
        <5>1. j \in 1 .. n /\ 1 + j = i /\ k \in 1 .. n /\ k = n + 1 - j
          BY <1>1, <4>2
        <5>2. T[i] = t[k]
          BY <3>5
        <5> HIDE DEF j, k
        <5>3. t[k] = s[k] /\ U[1 + j] = D[j] /\ D[j] = s[n + 1 - j]
          BY <1>2, <3>3, <3>4, <5>1
        <5> QED
          BY <5>1, <5>2, <5>3
      <4> QED
        BY <4>1, <4>2
    <3>7. T = U
      BY <3>4, <3>5, <3>6, SeqEqual
    <3> QED
      BY <2>2, <3>7 DEF Signed, U, m
  <2> QED
    BY <2>1, <2>2
<1>4. [j \in 1 .. Len(t) |-> t[Len(t) - j + 1]] = T
  <2>1. t \in Seq(Int)
    <3>1. sign \in Seq(Int)
      BY DEF MINUS
    <3> QED
      BY <3>1, ConcatProperties
  <2> DEFINE k == Len(t)
  <2>2. k \in Nat
    BY <2>1, LenProperties
  <2>3. T = [j \in 1 .. k |-> t[k + 1 - j]]
    BY DEF flipped
  <2> HIDE DEF k, t, T
  <2>4. \A j \in 1 .. k : k - j + 1 = k + 1 - j
    BY <2>2
  <2>5. [j \in 1 .. k |-> t[k - j + 1]] = T
    BY <2>3, <2>4
  <2> QED
    BY <2>5 DEF k
<1> QED
  BY <1>3, <1>4

\* The least int takes two places of the array of IntToString.
LEMMA LeastInt == IntToString(INT_MIN).terminated_at < TEMP_SIZE
<1>1. INT_MIN < 0 /\ INT_MIN \in Int
  <2>1. INT_BITS - 1 \in Nat BY FormatAssumption
  <2>2. 2 ^ (INT_BITS - 1) \in Nat \ {0} BY <2>1, BitsAre
  <2> HIDE DEF INT_MIN
  <2> QED BY <2>2 DEF INT_MIN
<1>2. magnitude(INT_MIN) = INT_MIN /\ sign_of(INT_MIN) = <<MINUS>> BY <1>1 DEF magnitude, sign_of
<1> DEFINE x == -((-INT_MIN) % 10)
<1>3. IntToString(INT_MIN).terminated_at = Len(<<x>> \o <<MINUS>>)
  BY <1>1, <1>2 DEF IntToString
<1> HIDE DEF x
<1>4. Len(<<x>> \o <<MINUS>>) = 2 OBVIOUS
<1>5. TEMP_SIZE \in Nat /\ TEMP_SIZE > 2 BY FormatAssumption
<1> QED BY <1>3, <1>4, <1>5

\* All printers of a whole number print the sign and the digits.
LEMMA IntsAgree ==
  ASSUME NEW v \in Int
  PROVE  LET m == IF v < 0 THEN -v ELSE v
             s == Signed(v < 0, Figures(m, 10))
         IN  /\ print_int(v) = s /\ print_i64(v) = s
             /\ v # INT_MIN => /\ str_from_int(v) = s /\ IntToString(v).text = s
                               /\ IntToString(v).terminated_at = Len(s)
<1> DEFINE m == IF v < 0 THEN -v ELSE v
           negative == v < 0
           D == Figures(m, 10)
           s == Signed(negative, D)
<1>1. m \in Nat /\ negative \in BOOLEAN /\ (v < 0 => m = -v /\ m # 0) /\ (~(v < 0) => m = v) /\ (v = 0 <=> m = 0) /\ 10 \in {10, 16}
  OBVIOUS
<1> HIDE DEF m
<1>2. D \in Seq(Int) /\ reversed(m, 10) \in Seq(Int) /\ (m = 0 => D = <<0>>)
  BY <1>1, FiguresAre
<1>3. print_uint(m, 10) = D /\ print_u64(m, 10) = D
  BY <1>2 DEF print_uint, print_u64, Figures
<1> DEFINE sign == IF negative THEN <<MINUS>> ELSE <<>>
           t == reversed(m, 10) \o sign
<1>4. flipped(t) = s /\ [j \in 1 .. Len(t) |-> t[Len(t) - j + 1]] = flipped(t)
  <2> HIDE DEF negative
  <2> QED
    BY <1>1, <1>2, FlipSign DEF Figures
<1>a. Len(flipped(t)) = Len(t)
  <2>1. t \in Seq(Int)
    BY <1>2 DEF MINUS
  <2> HIDE DEF t
  <2> QED
    BY <2>1, FlipIs
<1>b. sign = sign_of(v) /\ (v # INT_MIN => magnitude(v) = m)
  BY DEF sign_of, magnitude, m
<1>5. v # INT_MIN => /\ IntToString(v).text = [j \in 1 .. Len(t) |-> t[Len(t) - j + 1]]
                     /\ IntToString(v).terminated_at = Len(t)
  <2> HIDE DEF sign
  <2> SUFFICES ASSUME v # INT_MIN
               PROVE  IntToString(v) = [text |-> [j \in 1 .. Len(t) |-> t[Len(t) - j + 1]], terminated_at |-> Len(t)]
    OBVIOUS
  <2>1. magnitude(v) = m /\ m >= 0 /\ sign_of(v) = sign
    BY <1>1, <1>b
  <2> QED
    BY <2>1 DEF IntToString
<1>6. v # INT_MIN => str_from_int(v) = IF v = 0 THEN <<0>> ELSE flipped(t)
  <2> HIDE DEF sign
  <2> SUFFICES ASSUME v # INT_MIN, v # 0 PROVE str_from_int(v) = flipped(t)
    BY DEF str_from_int
  <2>1. magnitude(v) = m /\ m > 0 /\ sign_of(v) = sign
    BY <1>1, <1>b
  <2> QED
    BY <2>1 DEF str_from_int
<1> HIDE DEF t, D
<1>7. CASE v < 0
  <2>1. s = <<MINUS>> \o D /\ v # 0
    BY <1>1, <1>7 DEF Signed
  <2>2. print_int(v) = <<MINUS>> \o print_uint(-v, 10) /\ print_i64(v) = <<MINUS>> \o print_u64(-v, 10)
    BY <1>7 DEF print_int, print_i64
  <2> HIDE DEF s
  <2>3. print_uint(-v, 10) = D /\ print_u64(-v, 10) = D
    BY <1>1, <1>3, <1>7
  <2> QED
    BY <1>4, <1>5, <1>6, <2>1, <2>2, <2>3 DEF s, D, m
<1>8. CASE ~(v < 0)
  <2>1. s = D
    BY <1>8 DEF Signed
  <2>2. print_int(v) = print_uint(v, 10) /\ print_i64(v) = print_u64(v, 10)
    BY <1>8 DEF print_int, print_i64
  <2>3. v = 0 => D = <<0>>
    BY <1>1, <1>2
  <2> HIDE DEF s
  <2>4. m = v
    BY <1>1, <1>8
  <2>5. print_int(v) = D /\ print_i64(v) = D
    BY <1>3, <2>2, <2>4
  <2> QED
    BY <1>4, <1>5, <1>6, <2>1, <2>3, <2>5 DEF s, D, m
<1> QED
  BY <1>7, <1>8

\* All printers of an unsigned number print its digits.
LEMMA UintsAgree ==
  ASSUME NEW u \in Nat
  PROVE  /\ str_append_uint(u) = Figures(u, 10) /\ print_uint(u, 10) = Figures(u, 10)
         /\ str_from_hex(u) = Figures(u, 16) /\ print_u64(u, 16) = Figures(u, 16)
<1>1. 10 \in {10, 16} /\ 16 \in {10, 16}
  OBVIOUS
<1>2. (u = 0 => Figures(u, 10) = <<0>>) /\ (u = 0 => Figures(u, 16) = <<0>>)
  BY <1>1, FiguresAre
<1>3. print_uint(u, 10) = Figures(u, 10) /\ str_from_hex(u) = Figures(u, 16) /\ print_u64(u, 16) = Figures(u, 16)
  <2>1. CASE u = 0
    BY <1>2, <2>1 DEF print_uint, str_from_hex, print_u64
  <2>2. CASE u # 0
    BY <2>2 DEF print_uint, str_from_hex, print_u64, Figures
  <2> QED
    BY <2>1, <2>2
<1> DEFINE D == Figures(u, 10)
           n == digit_count(u)
           A == str_append_uint(u)
<1>4. D \in Seq(Int) /\ n \in Nat /\ Len(D) = n /\ \A i \in 1 .. n : D[i] = divided(u, 10, n - i) % 10
  <2>1. /\ D \in Seq(Int) /\ Len(D) \in Nat /\ Len(D) = n
        /\ \A i \in 1 .. Len(D) : D[i] = divided(u, 10, Len(D) - i) % 10
    BY <1>1, FiguresAre
  <2> HIDE DEF D, n
  <2> QED
    BY <2>1
<1>5. A = [i \in 1 .. n |-> divided(u, 10, n - i) % 10]
  BY DEF str_append_uint
<1>6. D = [i \in 1 .. n |-> D[i]]
  <2> HIDE DEF D, n, A
  <2>1. DOMAIN D = 1 .. n
    BY <1>4, LenProperties
  <2>2. D \in [1 .. n -> Int]
    BY <1>4, <2>1, LenProperties
  <2> QED
    BY <2>2
<1> HIDE DEF D, n, A
<1>7. A = D
  BY <1>4, <1>5, <1>6
<1> QED
  BY <1>3, <1>7 DEF A, D

\* All hexadecimal digits of a number that has no more than there is room for.
LEMMA HexAgrees ==
  ASSUME NEW u \in Nat, u < 2 ^ INT_BITS
  PROVE  print_hexa32(u) = emit_number(u, 16, FALSE, HEX_DIGITS, -1, TRUE)
<1> DEFINE D == Figures(u, 16)
           n == Len(D)
           h == HEX_DIGITS
           p(k) == divided(u, 16, k)
<1>1. 16 \in {10, 16} /\ h \in Nat /\ h >= 1 /\ INT_BITS = 4 * h
  BY FormatAssumption
<1>2. /\ D \in Seq(Int) /\ n \in Nat /\ n >= 1
      /\ \A i \in 1 .. n : D[i] = p(n - i) % 16
      /\ p(n) = 0 /\ (n > 1 => p(n - 1) # 0)
  BY <1>1, FiguresAre
<1>3. p(h) = 0
  BY <1>1, HexFits
<1>4. \A k, j \in Nat : p(k) = 0 /\ k <= j => p(j) = 0
  BY <1>1, DividedOn
<1>5. n <= h
  <2> SUFFICES ASSUME n > h PROVE FALSE
    BY <1>1, <1>2
  <2>1. n > 1 /\ n - 1 \in Nat /\ h <= n - 1
    BY <1>1, <1>2
  <2>2. p(n - 1) = 0
    BY <1>1, <1>3, <1>4, <2>1
  <2> QED
    BY <1>2, <2>1, <2>2
<1> DEFINE pad == h - n
           Z == repeated(0, pad)
           E == Z \o D
           A == print_hexa32(u)
<1>6. emit_number(u, 16, FALSE, h, -1, TRUE) = E
  <2> DEFINE zeroes == IF -1 > n THEN -1 - n ELSE 0
             total == n + zeroes + Len(<<>>)
             blank == IF total < h THEN h - total ELSE 0
  <2>1. zeroes = 0
    BY <1>2
  <2>2. blank = pad
    <3>1. Len(<<>>) = 0
      OBVIOUS
    <3> HIDE DEF n, h
    <3> QED
      BY <1>1, <1>2, <1>5, <2>1, <3>1
  <2>3. emit_number(u, 16, FALSE, h, -1, TRUE) = <<>> \o repeated(0, blank) \o D
    BY DEF emit_number, Figures
  <2>4. <<>> \o Z = Z
    <3>1. pad \in Int
      BY <1>1, <1>2
    <3>2. Z \in Seq(Int)
      BY <3>1, RepeatIs
    <3> QED
      BY <3>2, ConcatEmptySeq
  <2> HIDE DEF D, blank, Z, pad
  <2> QED
    BY <2>2, <2>3, <2>4 DEF Z
<1>7. pad \in Nat
  BY <1>1, <1>2, <1>5
<1>8. Z \in Seq(Int) /\ Len(Z) = pad /\ \A i \in 1 .. pad : Z[i] = 0
  BY <1>7, RunIs
<1>9. /\ E \in Seq(Int) /\ Len(E) = Len(Z) + n /\ (\A i \in 1 .. Len(Z) : E[i] = Z[i])
      /\ \A i \in 1 .. n : E[Len(Z) + i] = D[i]
  BY <1>2, <1>8, JoinIs
<1>10. A = [i \in 1 .. h |-> p(h - i) % 16]
  BY DEF print_hexa32, hexa32_nibble
<1> HIDE DEF p, A, Z, E, D, n, h
<1>11. Len(E) = h /\ (\A i \in 1 .. pad : E[i] = 0) /\ \A i \in 1 .. n : E[pad + i] = D[i]
  <2>1. Len(Z) + n = h
    BY <1>1, <1>2, <1>8
  <2> HIDE DEF pad
  <2>2. \A i \in 1 .. pad : E[i] = 0
    BY <1>8, <1>9
  <2> QED
    BY <1>8, <1>9, <2>1, <2>2
<1>12. ASSUME NEW i \in 1 .. h PROVE E[i] = p(h - i) % 16
  <2>1. CASE i <= pad
    <3>1. i \in 1 .. pad /\ h - i \in Nat /\ n <= h - i
      BY <1>1, <1>2, <1>7, <2>1
    <3>2. p(h - i) = 0
      BY <1>2, <1>4, <3>1
    <3> QED
      BY <1>11, <3>1, <3>2
  <2>2. CASE ~(i <= pad)
    <3> DEFINE j == i - pad
    <3>1. j \in 1 .. n /\ pad + j = i /\ n - j = h - i
      BY <1>1, <1>2, <1>7, <2>2
    <3> HIDE DEF j, pad
    <3>2. E[pad + j] = D[j] /\ D[j] = p(n - j) % 16
      BY <1>2, <1>11, <3>1
    <3> QED
      BY <3>1, <3>2
  <2> QED
    BY <2>1, <2>2
<1>13. E = [i \in 1 .. h |-> E[i]]
  <2>1. DOMAIN E = 1 .. h
    BY <1>9, <1>11, LenProperties
  <2>2. E \in [1 .. h -> Int]
    BY <1>9, <2>1, LenProperties
  <2> QED
    BY <2>2
<1>14. A = E
  BY <1>10, <1>12, <1>13
<1> QED
  BY <1>6, <1>14 DEF A, h

\* A buffer of some size after i characters of a text.
Written(text, size, i) == [k \in 1 .. size |-> IF k <= i /\ k < size THEN text[k] ELSE UNWRITTEN]

\* The loop over the characters.
IsFill(c, text, size) ==
    c = [i \in 0 .. Len(text) |-> IF i = 0 THEN repeated(UNWRITTEN, size) ELSE emit(c[i - 1], size, i - 1, text[i])]

\* One character more goes behind the others, if there is room.
LEMMA EmitIs ==
  ASSUME NEW text \in Seq(Int), NEW size \in Nat, NEW i \in 1 .. Len(text)
  PROVE  emit(Written(text, size, i - 1), size, i - 1, text[i]) = Written(text, size, i)
<1> DEFINE a == Written(text, size, i - 1)
           b == Written(text, size, i)
           j == i - 1
<1>1. i \in Nat /\ i > 0 /\ j \in Nat /\ j + 1 = i
  BY LenProperties
<1>2. /\ a = [k \in 1 .. size |-> IF k <= j /\ k < size THEN text[k] ELSE UNWRITTEN]
      /\ b = [k \in 1 .. size |-> IF k <= i /\ k < size THEN text[k] ELSE UNWRITTEN]
  BY DEF Written
<1>3. emit(a, size, j, text[i]) = IF size > 0 /\ i < size THEN [a EXCEPT ![i] = text[i]] ELSE a
  BY <1>1 DEF emit, room
<1> HIDE DEF a, b, j
<1>4. CASE i < size
  <2> DEFINE c == [a EXCEPT ![i] = text[i]]
  <2>1. c = [k \in 1 .. size |-> IF k = i THEN text[i] ELSE a[k]]
    BY <1>2
  <2>2. ASSUME NEW k \in 1 .. size PROVE (IF k = i THEN text[i] ELSE a[k]) = IF k <= i /\ k < size THEN text[k] ELSE UNWRITTEN
    <3>1. a[k] = IF k <= j /\ k < size THEN text[k] ELSE UNWRITTEN
      BY <1>2
    <3>2. CASE k = i
      BY <1>1, <1>4, <3>2
    <3>3. CASE k # i
      <4>1. k <= i <=> k <= j
        BY <1>1, <3>3
      <4> QED
        BY <3>1, <3>3, <4>1
    <3> QED
      BY <3>2, <3>3
  <2>3. c = b
    <3> HIDE DEF c
    <3> QED
      BY <1>2, <2>1, <2>2
  <2>4. size > 0
    BY <1>1, <1>4
  <2> QED
    BY <1>3, <1>4, <2>3, <2>4 DEF a, b, j
<1>5. CASE ~(i < size)
  <2>1. ASSUME NEW k \in 1 .. size PROVE k <= j /\ k < size <=> k <= i /\ k < size
    BY <1>1, <1>5
  <2>2. a = b
    BY <1>2, <2>1
  <2> QED
    BY <1>3, <1>5, <2>2 DEF a, b, j
<1> QED
  BY <1>4, <1>5

\* What vsnprintf leaves in a buffer: the text as far as it goes, the end,
\* and what was there.
Room(text, size) == IF Len(text) < size THEN Len(text) ELSE size - 1
Printed(data, text, size) ==
    /\ data \in Seq(Int) /\ Len(data) = size
    /\ \A k \in 1 .. size : data[k] = IF k <= Room(text, size) THEN text[k]
                                      ELSE IF k = Room(text, size) + 1 THEN END ELSE UNWRITTEN

\* It does so with any buffer.
LEMMA PrintedIs ==
  ASSUME NEW f \in Seq(Directives), NEW size \in Nat
  PROVE  /\ vsnprintf(size, f).result = Len(emitted(f))
         /\ size = 0 => vsnprintf(size, f).data = <<>>
         /\ size > 0 => Printed(vsnprintf(size, f).data, emitted(f), size)
<1> DEFINE text == emitted(f)
           n == Len(text)
           g == CHOOSE c : IsFill(c, text, size)
           h == [i \in 0 .. n |-> Written(text, size, i)]
           r == vsnprintf(size, f)
<1>1. text \in Seq(Int) /\ n \in Nat
  BY EmittedIs, LenProperties
<1>2. r = [data |-> IF size = 0 THEN <<>> ELSE [g[n] EXCEPT ![terminator(n, size) + 1] = END], result |-> n]
  BY DEF vsnprintf, IsFill
<1> HIDE DEF text, g, r
<1>3. Written(text, size, 0) = repeated(UNWRITTEN, size)
  <2>1. \A k \in 1 .. size : ~(k <= 0)
    OBVIOUS
  <2> QED
    BY <2>1 DEF Written, repeated
<1>4. IsFill(h, text, size)
  <2>1. ASSUME NEW i \in 0 .. n
        PROVE  Written(text, size, i) = IF i = 0 THEN repeated(UNWRITTEN, size) ELSE emit(h[i - 1], size, i - 1, text[i])
    <3>1. CASE i = 0
      BY <1>3, <3>1
    <3>2. CASE i # 0
      <4>1. i \in 1 .. n /\ i - 1 \in 0 .. n
        BY <1>1, <3>2
      <4>2. h[i - 1] = Written(text, size, i - 1)
        BY <4>1
      <4> HIDE DEF h
      <4> QED
        BY <1>1, <3>2, <4>1, <4>2, EmitIs
    <3> QED
      BY <3>1, <3>2
  <2>2. h = [i \in 0 .. n |-> IF i = 0 THEN repeated(UNWRITTEN, size) ELSE emit(h[i - 1], size, i - 1, text[i])]
    BY <2>1
  <2> HIDE DEF h
  <2> QED
    BY <2>2 DEF IsFill
<1>5. IsFill(g, text, size)
  <2> HIDE DEF h
  <2> QED
    BY <1>4 DEF g
<1> HIDE DEF h
<1>6. \A i \in 0 .. n : g[i] = IF i = 0 THEN repeated(UNWRITTEN, size) ELSE emit(g[i - 1], size, i - 1, text[i])
  BY <1>5 DEF IsFill
<1> DEFINE Bad == {i \in 0 .. n : g[i] # Written(text, size, i)}
<1> HIDE DEF n
<1>7. ASSUME Bad # {} PROVE FALSE
  <2>1. PICK x \in Bad : \A y \in Bad : x <= y
    <3>1. Bad \in SUBSET Nat
      BY <1>1
    <3> HIDE DEF Bad
    <3> QED
      BY <1>7, <3>1, LeastNumber
  <2>2. x \in 0 .. n /\ g[x] # Written(text, size, x)
    BY <2>1
  <2>3. CASE x = 0
    BY <1>3, <1>6, <2>2, <2>3
  <2>4. CASE x # 0
    <3>1. x - 1 \in 0 .. n /\ x \in 1 .. n /\ x - 1 < x
      BY <1>1, <2>2, <2>4
    <3>2. g[x - 1] = Written(text, size, x - 1)
      BY <1>1, <2>1, <2>2, <3>1
    <3>3. g[x] = emit(g[x - 1], size, x - 1, text[x])
      BY <1>6, <2>2, <2>4
    <3> QED
      BY <1>1, <2>2, <3>1, <3>2, <3>3, EmitIs DEF n
  <2> QED
    BY <2>3, <2>4
<1>8. g[n] = Written(text, size, n)
  <2>1. n \in 0 .. n
    BY <1>1
  <2> QED
    BY <1>7, <2>1
<1>9. ASSUME size > 0 PROVE Printed(r.data, text, size)
  <2> DEFINE e == Room(text, size)
             w == Written(text, size, n)
             c == [w EXCEPT ![e + 1] = END]
  <2>1. e \in Nat /\ e + 1 \in 1 .. size /\ e <= n /\ e < size /\ (e = n \/ e = size - 1) /\ terminator(n, size) = e
    BY <1>1, <1>9 DEF Room, terminator, n
  <2>2. r.data = c
    <3>1. size # 0
      BY <1>9
    <3> QED
      BY <1>2, <1>8, <2>1, <3>1
  <2> HIDE DEF e
  <2>3. w = [k \in 1 .. size |-> IF k <= n /\ k < size THEN text[k] ELSE UNWRITTEN]
    BY DEF Written
  <2> HIDE DEF w
  <2>4. c = [k \in 1 .. size |-> IF k = e + 1 THEN END ELSE w[k]]
    BY <2>3
  <2> HIDE DEF c
  <2>5. ASSUME NEW k \in 1 .. size
        PROVE  c[k] = (IF k <= e THEN text[k] ELSE IF k = e + 1 THEN END ELSE UNWRITTEN) /\ c[k] \in Int
    <3>1. c[k] = IF k = e + 1 THEN END ELSE w[k]
      BY <2>4
    <3>2. w[k] = IF k <= n /\ k < size THEN text[k] ELSE UNWRITTEN
      BY <2>3
    <3>3. END \in Int /\ UNWRITTEN \in Int
      BY DEF END, UNWRITTEN
    <3>4. CASE k <= e
      <4>1. k # e + 1 /\ k <= n /\ k < size /\ k \in 1 .. n
        BY <1>1, <2>1, <3>4
      <4>2. text[k] \in Int
        BY <1>1, <4>1, ElementOfSeq DEF n
      <4> QED
        BY <3>1, <3>2, <3>4, <4>1, <4>2
    <3>5. CASE k = e + 1
      <4>1. ~(k <= e)
        BY <2>1, <3>5
      <4> QED
        BY <3>1, <3>3, <3>5, <4>1
    <3>6. CASE ~(k <= e) /\ k # e + 1
      <4>1. ~(k <= n /\ k < size)
        BY <1>1, <2>1, <3>6
      <4> QED
        BY <3>1, <3>2, <3>3, <3>6, <4>1
    <3> QED
      BY <3>4, <3>5, <3>6
  <2>6. c \in [1 .. size -> Int]
    BY <2>4, <2>5
  <2>7. c \in Seq(Int)
    BY <2>6, SeqDef
  <2>8. Len(c) = size
    <3>1. DOMAIN c = 1 .. size
      BY <2>4
    <3> QED
      BY <2>7, <3>1, LenProperties
  <2> QED
    BY <2>2, <2>5, <2>7, <2>8 DEF Printed, e
<1> QED
  BY <1>2, <1>9 DEF text, n, r

\* The beginning of a text.
LEMMA FrontIs ==
  ASSUME NEW s \in Seq(Int), NEW k \in 0 .. Len(s)
  PROVE  SubSeq(s, 1, k) \in Seq(Int) /\ Len(SubSeq(s, 1, k)) = k /\ \A i \in 1 .. k : SubSeq(s, 1, k)[i] = s[i]
<1> DEFINE q == SubSeq(s, 1, k)
           n == Len(s)
<1>1. n \in Nat /\ k \in Nat /\ \A i \in 1 .. n : s[i] \in Int
  BY LenProperties, ElementOfSeq
<1>2. q = [i \in 1 .. k |-> s[1 + i - 1]]
  BY <1>1 DEF SubSeq
<1> HIDE DEF n, q
<1>3. ASSUME NEW i \in 1 .. k PROVE 1 + i - 1 = i /\ s[i] \in Int
  BY <1>1 DEF n
<1>4. q = [i \in 1 .. k |-> s[i]]
  BY <1>2, <1>3
<1>5. q \in [1 .. k -> Int]
  BY <1>3, <1>4
<1>6. q \in Seq(Int)
  BY <1>1, <1>5, SeqDef
<1>7. Len(q) = k
  BY <1>1, <1>4, <1>6, LenProperties
<1> QED
  BY <1>4, <1>6, <1>7 DEF q

\* The loop that reads digits, behind place q and up to place r.
IsVal(c, s, q, r) == c = [k \in q .. r |-> IF k = q THEN 0 ELSE c[k - 1] * 10 + s[k]]

\* It comes to an end.
LEMMA ValExists ==
  ASSUME NEW s, NEW q \in Nat, NEW r \in Nat, q <= r
  PROVE  \E c : IsVal(c, s, q, r)
<1> DEFINE Bad == {k \in Nat : k >= q /\ ~\E c : IsVal(c, s, q, k)}
<1>1. ASSUME Bad # {} PROVE FALSE
  <2>1. PICK x \in Bad : \A y \in Bad : x <= y
    <3>1. Bad \in SUBSET Nat
      OBVIOUS
    <3> HIDE DEF Bad
    <3> QED
      BY <1>1, <3>1, LeastNumber
  <2>2. x \in Nat /\ x >= q /\ ~\E c : IsVal(c, s, q, x)
    BY <2>1
  <2>3. CASE x = q
    <3> DEFINE c == [k \in q .. q |-> 0]
    <3>1. \A k \in q .. q : k = q
      OBVIOUS
    <3>2. c = [k \in q .. q |-> IF k = q THEN 0 ELSE c[k - 1] * 10 + s[k]]
      BY <3>1
    <3>3. IsVal(c, s, q, q)
      BY <3>2 DEF IsVal
    <3> QED
      BY <2>2, <2>3, <3>3
  <2>4. CASE x # q
    <3>1. x - 1 \in Nat /\ x - 1 >= q /\ x - 1 \notin Bad
      BY <2>1, <2>2, <2>4
    <3>2. PICK c : IsVal(c, s, q, x - 1)
      BY <3>1
    <3> DEFINE F(g, k) == IF k = q THEN 0 ELSE g[k - 1] * 10 + s[k]
               d == [k \in q .. x |-> F(c, k)]
    <3>3. c = [k \in q .. x - 1 |-> F(c, k)]
      BY <3>2 DEF IsVal
    <3>4. ASSUME NEW w \in q .. x - 1 PROVE d[w] = c[w]
      <4>1. w \in q .. x
        BY <2>2
      <4> HIDE DEF F
      <4>2. c[w] = F(c, w)
        BY <3>3
      <4> QED
        BY <4>1, <4>2
    <3>5. ASSUME NEW k \in q .. x PROVE F(c, k) = F(d, k)
      <4>1. CASE k = q
        BY <4>1
      <4>2. CASE k # q
        <5>1. k - 1 \in q .. x - 1
          BY <2>2, <4>2
        <5>2. d[k - 1] = c[k - 1]
          BY <3>4, <5>1
        <5> HIDE DEF d
        <5> QED
          BY <4>2, <5>2
      <4> QED
        BY <4>1, <4>2
    <3>6. d = [k \in q .. x |-> F(d, k)]
      <4> HIDE DEF F
      <4>1. d = [k \in q .. x |-> F(c, k)]
        OBVIOUS
      <4> HIDE DEF d
      <4> QED
        BY <3>5, <4>1
    <3>7. IsVal(d, s, q, x)
      <4> HIDE DEF d
      <4> QED
        BY <3>6 DEF IsVal
    <3> QED
      BY <2>2, <3>7
  <2> QED
    BY <2>3, <2>4
<1> QED
  BY <1>1

\* What can be read: D are digits, the digits of v.
Legible(D, v) == D \in Seq(Int) /\ Len(D) >= 1 /\ (\A i \in 1 .. Len(D) : D[i] \in Digits) /\ Reads(D, v)

\* Behind the sign there is nothing but digits, and they are those of v.
LEMMA DigitsFrom ==
  ASSUME NEW s, NEW b, NEW g, NEW z, NEW D, NEW v, Shape(s, b, g, z, D), Legible(D, v)
  PROVE  /\ digits_from(s, b + g + 1) = v /\ b + g + 1 <= Len(s)
         /\ \A j \in b + g + 1 .. Len(s) : s[j] \in Digits
<1> DEFINE q == b + g
           k == q + 1
           r == Len(s)
           n == Len(D)
           p == q + z
           c == CHOOSE f : f = [x \in k - 1 .. r |-> IF x = k - 1 THEN 0 ELSE f[x - 1] * 10 + s[x]]
           S == {x \in k .. r : \A j \in k .. x : s[j] \in Digits}
           m == CHOOSE x \in 0 .. r : S = k .. k + x - 1
<1>1. /\ b \in Nat /\ z \in Nat /\ g \in {0, 1} /\ n \in Nat /\ n >= 1 /\ r = b + g + z + n
      /\ \A i \in 1 .. n : D[i] \in Digits
  BY LenProperties DEF Shape, Legible
<1>2. q \in Nat /\ k - 1 = q /\ r = p + n /\ p \in Nat /\ r \in Nat /\ k <= r /\ q <= p /\ q <= r /\ k \in Nat
  BY <1>1
<1>3. (\A i \in 1 .. z : s[q + i] = 0) /\ (\A i \in 1 .. n : s[p + i] = D[i])
  BY DEF Shape
<1>4. digits_from(s, k) = c[k + m - 1]
  BY DEF digits_from
<1> HIDE DEF p, n, r, k, q
<1>5. ASSUME NEW j \in k .. r PROVE s[j] \in Digits
  <2>1. CASE j <= p
    <3>1. j - q \in 1 .. z /\ q + (j - q) = j
      BY <1>1, <1>2, <2>1 DEF p, k
    <3>2. s[j] = 0
      BY <1>3, <3>1
    <3> QED
      BY <3>2 DEF Digits
  <2>2. CASE ~(j <= p)
    <3>1. j - p \in 1 .. n /\ p + (j - p) = j
      BY <1>1, <1>2, <2>2
    <3>2. s[j] = D[j - p]
      BY <1>3, <3>1
    <3> QED
      BY <1>1, <3>1, <3>2
  <2> QED
    BY <2>1, <2>2
<1>6. m \in 0 .. r /\ k + m - 1 = r
  <2>1. S = k .. r
    <3>1. ASSUME NEW x \in k .. r, NEW j \in k .. x PROVE s[j] \in Digits
      <4>1. j \in k .. r
        BY <1>2
      <4> QED
        BY <1>5, <4>1
    <3> QED
      BY <3>1
  <2> HIDE DEF S
  <2> DEFINE y == r - k + 1
  <2>2. y \in 0 .. r /\ k + y - 1 = r
    BY <1>2 DEF k
  <2>3. S = k .. k + y - 1
    BY <2>1, <2>2
  <2> HIDE DEF y
  <2>4. m \in 0 .. r /\ S = k .. k + m - 1
    BY <2>2, <2>3
  <2> HIDE DEF m
  <2>5. r \in k .. k + m - 1
    BY <1>2, <2>1, <2>4
  <2>6. k + m - 1 \in k .. r
    BY <1>2, <2>1, <2>4, <2>5
  <2> QED
    BY <1>2, <2>4, <2>5, <2>6
<1> HIDE DEF m, S
<1>7. IsVal(c, s, q, r)
  <2>1. c = CHOOSE f : IsVal(f, s, q, r)
    BY <1>2 DEF IsVal
  <2> HIDE DEF c
  <2> QED
    BY <1>2, <2>1, ValExists
<1> HIDE DEF c
<1>8. \A x \in q .. r : c[x] = IF x = q THEN 0 ELSE c[x - 1] * 10 + s[x]
  BY <1>7 DEF IsVal
<1> DEFINE Bad == {i \in 0 .. z : c[q + i] # 0}
<1>9. ASSUME Bad # {} PROVE FALSE
  <2>1. PICK x \in Bad : \A y \in Bad : x <= y
    <3>1. Bad \in SUBSET Nat
      BY <1>1
    <3> HIDE DEF Bad
    <3> QED
      BY <1>9, <3>1, LeastNumber
  <2>2. x \in 0 .. z /\ c[q + x] # 0
    BY <2>1
  <2>3. CASE x = 0
    <3>1. q + x = q /\ q \in q .. r
      BY <1>2, <2>3
    <3> QED
      BY <1>8, <2>2, <3>1
  <2>4. CASE x # 0
    <3>1. x - 1 \in 0 .. z /\ x \in 1 .. z /\ q + x \in q .. r /\ q + x # q /\ (q + x) - 1 = q + (x - 1)
      BY <1>1, <1>2, <2>2, <2>4 DEF p
    <3>2. c[q + (x - 1)] = 0
      BY <1>1, <2>1, <2>2, <3>1
    <3>3. s[q + x] = 0
      BY <1>3, <3>1
    <3>4. c[q + x] = c[(q + x) - 1] * 10 + s[q + x]
      BY <1>8, <3>1
    <3> QED
      BY <2>2, <3>1, <3>2, <3>3, <3>4
  <2> QED
    BY <2>3, <2>4
<1> DEFINE h == [j \in 0 .. n |-> c[p + j]]
<1>10. h[0] = 0
  <2>1. z \in 0 .. z /\ 0 \in 0 .. n /\ p + 0 = q + z
    BY <1>1, <1>2 DEF p
  <2>2. c[q + z] = 0
    BY <1>9, <2>1
  <2> QED
    BY <2>1, <2>2
<1>11. ASSUME NEW j \in 1 .. n PROVE h[j] = h[j - 1] * 10 + D[j]
  <2>1. j \in 0 .. n /\ j - 1 \in 0 .. n /\ p + j \in q .. r /\ p + j # q /\ (p + j) - 1 = p + (j - 1)
    BY <1>1, <1>2
  <2>2. c[p + j] = c[(p + j) - 1] * 10 + s[p + j]
    BY <1>8, <2>1
  <2>3. h[j] = c[p + j] /\ h[j - 1] = c[p + (j - 1)]
    BY <2>1
  <2>4. s[p + j] = D[j]
    BY <1>3
  <2> HIDE DEF h
  <2> QED
    BY <2>1, <2>2, <2>3, <2>4
<1>12. h[n] = c[p + n]
  BY <1>1
<1> HIDE DEF h
<1>13. h[n] = v
  <2>1. Reads(D, v)
    BY DEF Legible
  <2> QED
    BY <1>10, <1>11, <2>1 DEF Reads, n
<1>14. c[k + m - 1] = v
  BY <1>2, <1>6, <1>12, <1>13
<1> QED
  BY <1>2, <1>4, <1>5, <1>14 DEF k, q, r

\* sscanf and atoi skip the blanks, see the sign and read the number.
LEMMA ScanIs ==
  ASSUME NEW s, NEW b, NEW g, NEW z, NEW D, NEW v, Shape(s, b, g, z, D), Legible(D, v)
  PROVE  LET a == (IF g = 1 THEN -1 ELSE 1) * v
         IN  sscanf(s) = [assigned |-> 1, value |-> a] /\ atoi(s) = a
<1> DEFINE r == Len(s)
           Q(i) == (i > r \/ s[i] # SPACE) /\ \A j \in 1 .. i - 1 : s[j] = SPACE
           e == CHOOSE i \in 1 .. r + 1 : Q(i)
<1>1. /\ b \in Nat /\ g \in {0, 1} /\ r \in Nat /\ (\A i \in 1 .. b : s[i] = SPACE) /\ (g = 1 => s[b + 1] = MINUS)
  BY LenProperties DEF Shape
<1>2. digits_from(s, b + g + 1) = v /\ b + g + 1 <= r /\ \A j \in b + g + 1 .. r : s[j] \in Digits
  BY DigitsFrom
<1>3. s[b + g + 1] \in Digits
  <2>1. b + g + 1 \in b + g + 1 .. r
    BY <1>1, <1>2
  <2> QED
    BY <1>2, <2>1
<1>4. s[b + 1] # SPACE /\ (g = 0 => s[b + 1] # MINUS)
  <2>1. CASE g = 1
    BY <1>1, <2>1 DEF MINUS, SPACE
  <2>2. CASE g = 0
    <3>1. b + g + 1 = b + 1
      BY <1>1, <2>2
    <3> QED
      BY <1>3, <3>1 DEF MINUS, SPACE, Digits
  <2> QED
    BY <1>1, <2>1, <2>2
<1>5. after_blanks(s) = e
  BY DEF after_blanks
<1>6. b + 1 \in 1 .. r + 1 /\ b + 1 <= r /\ (b + 1) - 1 = b
  BY <1>1, <1>2
<1> HIDE DEF r
<1>7. Q(b + 1)
  BY <1>1, <1>4, <1>6
<1>8. e \in 1 .. r + 1 /\ Q(e)
  <2> HIDE DEF Q
  <2> QED
    BY <1>6, <1>7
<1> HIDE DEF e
<1>9. e = b + 1
  <2>1. ASSUME e < b + 1 PROVE FALSE
    <3>1. e \in 1 .. b /\ ~(e > r)
      BY <1>1, <1>6, <1>8, <2>1
    <3> QED
      BY <1>1, <1>8, <3>1
  <2>2. ASSUME b + 1 < e PROVE FALSE
    <3>1. b + 1 \in 1 .. e - 1
      BY <1>1, <1>8, <2>2
    <3> QED
      BY <1>4, <1>8, <3>1
  <2> QED
    BY <1>1, <1>8, <2>1, <2>2
<1> DEFINE sign == after_blanks(s) <= r /\ s[after_blanks(s)] = MINUS
           k == IF sign THEN after_blanks(s) + 1 ELSE after_blanks(s)
<1>10. sign = (g = 1)
  BY <1>1, <1>4, <1>5, <1>6, <1>9
<1> HIDE DEF sign
<1>11. k = b + g + 1
  <2>1. after_blanks(s) = b + 1
    BY <1>5, <1>9
  <2>2. CASE g = 1
    <3>1. k = after_blanks(s) + 1
      BY <1>10, <2>2
    <3> HIDE DEF k
    <3> QED
      BY <1>1, <2>1, <2>2, <3>1
  <2>3. CASE g = 0
    <3>0. ~sign
      <4>1. g # 1
        BY <2>3
      <4> QED
        BY <1>10, <4>1
    <3>1. k = after_blanks(s)
      BY <3>0
    <3> HIDE DEF k
    <3> QED
      BY <1>1, <2>1, <2>3, <3>1
  <2> QED
    BY <1>1, <2>2, <2>3
<1>12. sscanf(s) = IF k > r \/ s[k] \notin Digits THEN [assigned |-> 0, value |-> 0]
                   ELSE [assigned |-> 1, value |-> (IF sign THEN -1 ELSE 1) * digits_from(s, k)]
  BY DEF sscanf, sign, r
<1>13. atoi(s) = (IF sign THEN -1 ELSE 1) * digits_from(s, k)
  BY DEF atoi, sign, r
<1> HIDE DEF k
<1>14. ~(k > r) /\ s[k] \in Digits
  BY <1>1, <1>2, <1>3, <1>11 DEF r
<1>15. digits_from(s, k) = v
  BY <1>2, <1>11
<1> QED
  BY <1>10, <1>12, <1>13, <1>14, <1>15

\* The buffer is empty, or holds what vsnprintf made of the format.
FormatInv ==
    /\ format \in Seq(Directives)
    /\ \/ returned = -1
       \/ \E size \in Nat : buffer = vsnprintf(size, format).data /\ returned = vsnprintf(size, format).result

\* What a call leaves is cut at the end of the buffer only.
LEMMA CutsRight == FormatInv => SnprintfTruncates
<1> SUFFICES ASSUME FormatInv, returned >= 0 PROVE SnprintfTruncates
  BY DEF SnprintfTruncates
<1>1. returned # -1
  OBVIOUS
<1>2. PICK size \in Nat : buffer = vsnprintf(size, format).data /\ returned = vsnprintf(size, format).result
  BY <1>1 DEF FormatInv
<1> DEFINE text == emitted(format)
           n == Len(text)
           kept == IF n < Len(buffer) THEN n ELSE Len(buffer) - 1
<1>3. format \in Seq(Directives)
  BY DEF FormatInv
<1>4. text \in Seq(Int) /\ n \in Nat
  BY <1>3, EmittedIs, LenProperties
<1>5. returned = n /\ (size = 0 => buffer = <<>>) /\ (size > 0 => Printed(buffer, text, size))
  BY <1>2, <1>3, PrintedIs
<1> HIDE DEF text, n
<1>6. ASSUME buffer # <<>>
      PROVE  /\ SubSeq(buffer, 1, kept) = SubSeq(text, 1, kept)
             /\ buffer[kept + 1] = END
             /\ \A i \in kept + 2 .. Len(buffer) : buffer[i] = UNWRITTEN
             /\ vfprintf_bytes(Len(buffer), format) = SubSeq(text, 1, kept)
  <2>1. size > 0
    BY <1>5, <1>6
  <2>2. buffer \in Seq(Int) /\ Len(buffer) = size
    BY <1>5, <2>1 DEF Printed
  <2>3. kept = Room(text, size) /\ kept \in 0 .. n /\ kept \in 0 .. size /\ kept + 1 \in 1 .. size /\ kept \in Nat
    BY <1>4, <2>1, <2>2 DEF Room, n
  <2> HIDE DEF kept
  <2>4. \A k \in 1 .. size : buffer[k] = IF k <= kept THEN text[k] ELSE IF k = kept + 1 THEN END ELSE UNWRITTEN
    BY <1>5, <2>1, <2>3 DEF Printed
  <2>5. buffer[kept + 1] = END
    <3>1. ~(kept + 1 <= kept)
      BY <2>3
    <3> QED
      BY <2>3, <2>4, <3>1
  <2>6. ASSUME NEW i \in kept + 2 .. Len(buffer) PROVE buffer[i] = UNWRITTEN
    <3>1. i \in 1 .. size /\ ~(i <= kept) /\ i # kept + 1
      BY <2>2, <2>3
    <3> QED
      BY <2>4, <3>1
  <2>7. SubSeq(buffer, 1, kept) = SubSeq(text, 1, kept)
    <3> DEFINE p == SubSeq(buffer, 1, kept)
               q == SubSeq(text, 1, kept)
    <3>1. p \in Seq(Int) /\ Len(p) = kept /\ \A i \in 1 .. kept : p[i] = buffer[i]
      BY <2>2, <2>3, FrontIs
    <3>2. q \in Seq(Int) /\ Len(q) = kept /\ \A i \in 1 .. kept : q[i] = text[i]
      BY <1>4, <2>3, FrontIs DEF n
    <3> HIDE DEF p, q
    <3>3. ASSUME NEW i \in 1 .. kept PROVE p[i] = q[i]
      <4>1. i \in 1 .. size /\ i <= kept
        BY <2>3
      <4> QED
        BY <2>4, <3>1, <3>2, <4>1
    <3>4. p = q
      BY <3>1, <3>2, <3>3, SeqEqual
    <3> QED
      BY <3>4 DEF p, q
  <2>8. vfprintf_bytes(Len(buffer), format) = SubSeq(text, 1, kept)
    <3>1. vfprintf_bytes(size, format) = SubSeq(buffer, 1, IF n < size THEN n ELSE size - 1)
      BY <1>2, <1>5 DEF vfprintf_bytes
    <3>2. (IF n < size THEN n ELSE size - 1) = kept
      BY <2>2 DEF kept
    <3> QED
      BY <2>2, <2>7, <3>1, <3>2
  <2> QED
    BY <2>5, <2>6, <2>7, <2>8
<1> QED
  BY <1>5, <1>6 DEF SnprintfTruncates, text, n, kept

\* And a number in it reads back.
LEMMA ReadsRight == FormatInv => ReadsBack
<1> SUFFICES ASSUME FormatInv, returned >= 0, Len(format) = 1, format[1].conv = "d", Len(buffer) > returned
             PROVE  LET d == format[1]
                        s == SubSeq(buffer, 1, returned)
                    IN  /\ sscanf(s) = [assigned |-> 1, value |-> d.arg] /\ atoi(s) = d.arg
                        /\ returned >= d.width /\ returned >= d.precision
  BY DEF ReadsBack
<1> DEFINE d == format[1]
           text == emitted(format)
           n == Len(text)
           s == SubSeq(buffer, 1, returned)
           v == IF d.arg < 0 THEN -d.arg ELSE d.arg
           negative == d.arg < 0
           g == IF negative THEN 1 ELSE 0
           D == flipped(reversed(v, 10))
<1>1. returned # -1
  OBVIOUS
<1>2. PICK size \in Nat : buffer = vsnprintf(size, format).data /\ returned = vsnprintf(size, format).result
  BY <1>1 DEF FormatInv
<1>3. format \in Seq(Directives)
  BY DEF FormatInv
<1>4. d \in Directives
  BY <1>3, ElementOfSeq
<1>5. text \in Seq(Int) /\ n \in Nat /\ text = directive(d)
  BY <1>3, EmittedIs, LenProperties
<1>6. returned = n /\ (size = 0 => buffer = <<>>) /\ (size > 0 => Printed(buffer, text, size))
  BY <1>2, <1>3, PrintedIs
<1> HIDE DEF text, n
<1>7. size > 0
  <2>1. CASE size = 0
    <3>1. Len(buffer) = 0
      BY <1>6, <2>1
    <3> QED
      BY <1>5, <1>6, <3>1
  <2> QED
    BY <2>1
<1>8. s = text
  <2>1. buffer \in Seq(Int) /\ Len(buffer) = size /\ n < size
    BY <1>6, <1>7 DEF Printed
  <2>2. Room(text, size) = n
    BY <2>1 DEF Room, n
  <2>3. \A k \in 1 .. size : buffer[k] = IF k <= n THEN text[k] ELSE IF k = n + 1 THEN END ELSE UNWRITTEN
    BY <1>6, <1>7, <2>2 DEF Printed
  <2>4. n \in 0 .. Len(buffer)
    BY <1>5, <2>1
  <2>5. s \in Seq(Int) /\ Len(s) = n /\ \A i \in 1 .. n : s[i] = buffer[i]
    BY <1>6, <2>1, <2>4, FrontIs
  <2> HIDE DEF s
  <2>6. ASSUME NEW i \in 1 .. n PROVE s[i] = text[i]
    <3>1. i \in 1 .. size /\ i <= n
      BY <1>5, <2>1
    <3> QED
      BY <2>3, <2>5, <3>1
  <2> QED
    BY <1>5, <2>5, <2>6, SeqEqual DEF n
<1>9. d.arg \in Int /\ d.width \in Int /\ d.precision \in Int /\ d.zero \in BOOLEAN
  BY <1>4 DEF Directives
<1>10. v \in Nat /\ negative \in BOOLEAN /\ g \in {0, 1} /\ (IF g = 1 THEN -1 ELSE 1) * v = d.arg
  BY <1>9
<1>11. text = emit_number(v, 10, negative, d.width, d.precision, d.zero)
  BY <1>5 DEF directive
<1> HIDE DEF v, negative, s, d
<1>12. PICK b, z : Shape(text, b, g, z, D) /\ Len(text) >= d.width /\ Len(text) >= d.precision
  <2>1. 10 \in {10, 16}
    OBVIOUS
  <2> QED
    BY <1>9, <1>10, <1>11, <2>1, NumberIs
<1>13. Legible(D, v)
  <2> DEFINE R == reversed(v, 10)
             l == Len(R)
  <2>1. RevGood(R, v, 10)
    BY <1>10, ReversedIs DEF RevAll
  <2>2. R \in Seq(Int) /\ l >= 1 /\ (\A i \in 1 .. l : R[i] \in 0 .. 10 - 1) /\ Reads(D, v) /\ l \in Nat
    BY <2>1, LenProperties DEF RevGood
  <2>3. D \in Seq(Int) /\ Len(D) = l /\ \A i \in 1 .. l : D[i] = R[l + 1 - i]
    BY <2>2, FlipIs
  <2> HIDE DEF R, l, D
  <2>4. ASSUME NEW i \in 1 .. l PROVE D[i] \in Digits
    <3>1. l + 1 - i \in 1 .. l
      BY <2>2
    <3>2. R[l + 1 - i] \in 0 .. 10 - 1
      BY <2>2, <3>1
    <3> QED
      BY <2>3, <3>2 DEF Digits
  <2> QED
    BY <2>2, <2>3, <2>4 DEF Legible
<1> HIDE DEF D, g
<1>14. sscanf(text) = [assigned |-> 1, value |-> (IF g = 1 THEN -1 ELSE 1) * v] /\ atoi(text) = (IF g = 1 THEN -1 ELSE 1) * v
  BY <1>12, <1>13, ScanIs
<1>15. sscanf(s) = [assigned |-> 1, value |-> d.arg] /\ atoi(s) = d.arg
  BY <1>8, <1>10, <1>14
<1>16. returned >= d.width /\ returned >= d.precision
  BY <1>6, <1>12 DEF n
<1> QED
  BY <1>15, <1>16 DEF s, d

\* Every way to print a number prints the same.
LEMMA PrintersRight == FormatInv => PrintersAgree
<1> SUFFICES ASSUME FormatInv, NEW i \in DOMAIN format
             PROVE  LET v == format[i].arg
                        u == unsigned(v)
                        plain(c) == directive([format[i] EXCEPT !.conv = c, !.width = 0, !.precision = -1])
                    IN  /\ print_int(v) = plain("d") /\ print_i64(v) = plain("d")
                        /\ v # INT_MIN => str_from_int(v) = plain("d") /\ IntToString(v).text = plain("d")
                        /\ IntToString(v).terminated_at < TEMP_SIZE <=> v = INT_MIN \/ Len(plain("d")) < TEMP_SIZE
                        /\ str_append_uint(u) = plain("u") /\ print_uint(u, 10) = plain("u")
                        /\ str_from_hex(u) = plain("x") /\ print_u64(u, 16) = plain("x")
                        /\ print_hexa32(u) = directive([format[i] EXCEPT !.conv = "x", !.width = HEX_DIGITS,
                                                        !.precision = -1, !.zero = TRUE])
  BY DEF PrintersAgree
<1> DEFINE d == format[i]
           v == d.arg
           u == unsigned(v)
           simple(c) == [d EXCEPT !.conv = c, !.width = 0, !.precision = -1]
           wide == [d EXCEPT !.conv = "x", !.width = HEX_DIGITS, !.precision = -1, !.zero = TRUE]
           m == IF v < 0 THEN -v ELSE v
<1>1. d \in Directives
  <2>1. format \in Seq(Directives)
    BY DEF FormatInv
  <2>2. i \in 1 .. Len(format)
    BY <2>1, LenProperties
  <2> QED
    BY <2>1, <2>2, ElementOfSeq
<1> HIDE DEF d
<1>2. v \in Int /\ d.zero \in BOOLEAN /\ m \in Nat /\ (v < 0) \in BOOLEAN
  BY <1>1 DEF Directives
<1>3. u \in Nat /\ u < 2 ^ INT_BITS
  <2> DEFINE w == 2 ^ INT_BITS
  <2>1. w \in Nat \ {0}
    BY WordIs
  <2>2. u = v % w
    BY DEF unsigned
  <2> HIDE DEF w, u
  <2>3. v % w \in 0 .. w - 1
    BY <1>2, <2>1
  <2>4. u \in Nat /\ u < w
    BY <2>1, <2>2, <2>3
  <2> QED
    BY <2>4 DEF w
<1>4. ASSUME NEW c \in {"d", "u", "x"}
      PROVE  /\ simple(c).conv = c /\ simple(c).width = 0 /\ simple(c).precision = -1
             /\ simple(c).zero = d.zero /\ simple(c).arg = v
  BY <1>1 DEF Directives
<1>5. wide.conv = "x" /\ wide.width = HEX_DIGITS /\ wide.precision = -1 /\ wide.zero = TRUE /\ wide.arg = v
  BY <1>1 DEF Directives
<1> HIDE DEF simple, wide
<1>6. directive(simple("d")) = emit_number(m, 10, v < 0, 0, -1, d.zero)
  BY <1>4 DEF directive
<1>7. directive(simple("u")) = emit_number(u, 10, FALSE, 0, -1, d.zero)
  BY <1>4 DEF directive
<1>8. directive(simple("x")) = emit_number(u, 16, FALSE, 0, -1, d.zero)
  BY <1>4 DEF directive
<1>9. directive(wide) = emit_number(u, 16, FALSE, HEX_DIGITS, -1, TRUE)
  BY <1>5 DEF directive
<1>10. directive(simple("d")) = Signed(v < 0, Figures(m, 10))
  <2> HIDE DEF m, v
  <2>1. 10 \in {10, 16}
    OBVIOUS
  <2> QED
    BY <1>2, <1>6, <2>1, PlainIs
<1>11. directive(simple("u")) = Figures(u, 10) /\ directive(simple("x")) = Figures(u, 16)
  <2>1. 10 \in {10, 16} /\ 16 \in {10, 16} /\ FALSE \in BOOLEAN
    OBVIOUS
  <2>2. emit_number(u, 10, FALSE, 0, -1, d.zero) = Signed(FALSE, Figures(u, 10))
    BY <1>2, <1>3, <2>1, PlainIs
  <2>3. emit_number(u, 16, FALSE, 0, -1, d.zero) = Signed(FALSE, Figures(u, 16))
    BY <1>2, <1>3, <2>1, PlainIs
  <2> HIDE DEF u
  <2> QED
    BY <1>7, <1>8, <2>2, <2>3 DEF Signed
<1>12. LET s == directive(simple("d"))
       IN  /\ print_int(v) = s /\ print_i64(v) = s
           /\ v # INT_MIN => /\ str_from_int(v) = s /\ IntToString(v).text = s
                             /\ IntToString(v).terminated_at = Len(s)
  BY <1>2, <1>10, IntsAgree
<1>l. v = INT_MIN => IntToString(v).terminated_at < TEMP_SIZE
  BY LeastInt
<1>13. /\ str_append_uint(u) = directive(simple("u")) /\ print_uint(u, 10) = directive(simple("u"))
       /\ str_from_hex(u) = directive(simple("x")) /\ print_u64(u, 16) = directive(simple("x"))
  BY <1>3, <1>11, UintsAgree
<1>14. print_hexa32(u) = directive(wide)
  BY <1>3, <1>9, HexAgrees
<1> QED
  BY <1>12, <1>13, <1>14, <1>l DEF simple, wide, d

\* snprintf cuts what it prints at the end of the buffer and nowhere else,
\* whatever the format and the size; a number other than the least int, printed
\* with whatever width, precision and padding, is read back by sscanf and atoi;
\* the printers of the kernel and of the C library print the same, but for the
\* least int in str_from_int and IntToString, whose array is overrun by exactly
\* the other numbers PrintersAgree names; and streams own their files.
THEOREM StdioIsSound == FormatSpec /\ StdioSpec => []StdioSound
<1>1. FormatInit => FormatInv
  BY FormatAssumption DEF FormatInit, FormatInv, Directives
<1>2. FormatInv /\ [FormatNext]_fmtvars => FormatInv'
  <2> SUFFICES ASSUME FormatInv, [FormatNext]_fmtvars PROVE FormatInv'
    OBVIOUS
  <2>1. CASE UNCHANGED fmtvars
    BY <2>1 DEF FormatInv, fmtvars
  <2>2. CASE FormatNext
    <3>1. PICK size \in Capacities : snprintf(size)
      BY <2>2 DEF FormatNext
    <3>2. size \in Nat
      BY FormatAssumption
    <3> QED
      BY <3>1, <3>2 DEF snprintf, FormatInv
  <2> QED
    BY <2>1, <2>2
<1>3. FormatInv /\ StreamsOwnFds => StdioSound
  BY CutsRight, ReadsRight, PrintersRight DEF StdioSound
<1> QED
  BY <1>1, <1>2, <1>3, StreamsKeepFds, PTL DEF FormatSpec
=============================================================================
