--------------------------- MODULE CowMemoryProofs ---------------------------
(***************************************************************************)
(* What programs get from copy-on-write: a private memory, write access    *)
(* that a fork does not take away, and a system that gets every frame back *)
(* (theorems about CowSpaces; CowSpacesProofs has what they rest on).      *)
(***************************************************************************)
EXTENDS CowSpacesProofs

-----------------------------------------------------------------------------
(* What a program owns and sees.                                           *)

\* A region of rs that is not the framebuffer contains the page v.
Owns(rs, v) == \E r \in Listed(rs) : v \in covers(r) /\ ~ r.mmio

\* No page that belongs to a process is on the backbuffer.
OwnedOffBackbuffer == \A s \in Spaces, v \in Pages : Owns(regions[s], v) => frame[s][v] # Backbuffer

\* What a program sees at page v, from a page table, a region list and memory.
see(F, rs, D, v) == IF F[v] = NULL \/ ~ Owns(rs, v) THEN NULL ELSE D[F[v]]

\* owned, for all regions of a space.
LEMMA OwnedIsOwns ==
  ASSUME NEW s, NEW v \in Pages
  PROVE  v \in owned(s, 1 .. Len(regions[s])) <=> Owns(regions[s], v)
  BY DEF owned, Owns, Listed

\* seen, page by page.
LEMMA SeenIs == seen = [s \in Spaces |-> [v \in Pages |-> see(frame[s], regions[s], data, v)]]
  BY OwnedIsOwns DEF seen, see

\* The same after the step.
LEMMA SeenIsNext == seen' = [s \in Spaces |-> [v \in Pages |-> see(frame'[s], regions'[s], data', v)]]
<1>1. ASSUME NEW s, NEW v \in Pages
      PROVE  (v \in owned(s, 1 .. Len(regions[s]))') <=> Owns(regions'[s], v)
  BY DEF owned, Owns, Listed
<1> QED BY <1>1 DEF seen, see

\* A program sees values, or nothing.
LEMMA SeenType == ASSUME TypeOK PROVE seen \in [Spaces -> [Pages -> Values \cup {NULL}]]
<1>1. ASSUME NEW s \in Spaces, NEW v \in Pages
      PROVE see(frame[s], regions[s], data, v) \in Values \cup {NULL}
  BY DEF see, TypeOK
<1> QED BY <1>1, SeenIs

\* The same after the step.
LEMMA SeenTypeNext == ASSUME TypeOK' PROVE seen' \in [Spaces -> [Pages -> Values \cup {NULL}]]
<1>1. ASSUME NEW s \in Spaces, NEW v \in Pages
      PROVE see(frame'[s], regions'[s], data', v) \in Values \cup {NULL}
  BY DEF see, TypeOK
<1> QED BY <1>1, SeenIsNext

\* Memories that agree on every page are equal.
LEMMA SameMemory ==
  ASSUME NEW V, NEW f \in [Spaces -> [Pages -> V]], NEW g \in [Spaces -> [Pages -> V]],
         \A s \in Spaces, v \in Pages : f[s][v] = g[s][v]
  PROVE  f = g
<1>1. \A s \in Spaces : f[s] = g[s] OBVIOUS
<1> QED BY <1>1

\* Flags other than mmio do not matter to ownership.
LEMMA SameOwns ==
  ASSUME NEW rs \in Seq(Region), NEW q \in Seq(Region), Len(q) = Len(rs),
         \A i \in 1 .. Len(rs) : q[i].base = rs[i].base /\ q[i].size = rs[i].size /\ q[i].mmio = rs[i].mmio
  PROVE  \A v : Owns(q, v) <=> Owns(rs, v)
<1>1. \A i \in 1 .. Len(rs) : covers(q[i]) = covers(rs[i]) BY DEF covers
<1>2. \A v : Owns(q, v) <=> \E i \in 1 .. Len(rs) : v \in covers(q[i]) /\ ~ q[i].mmio
  BY DEF Owns, Listed
<1>3. \A v : Owns(rs, v) <=> \E i \in 1 .. Len(rs) : v \in covers(rs[i]) /\ ~ rs[i].mmio
  BY DEF Owns, Listed
<1> QED BY <1>1, <1>2, <1>3

\* What is owned is covered.
LEMMA OwnsCovered == \A rs, v : Owns(rs, v) => Covered(rs, v)
  BY DEF Owns, Covered

-----------------------------------------------------------------------------
(* What each action does to page tables, ownership and memory.             *)

\* vmm_space_alloc and vmm_map_phys: one more region.
LEMMA InsertOwns ==
  ASSUME NEW rs \in Seq(Region), Sorted(rs), NEW r \in Region,
         \A i \in 1 .. Len(rs) : covers(rs[i]) \cap covers(r) = {}
  PROVE  /\ \A v : Owns(insert(rs, r), v) <=> Owns(rs, v) \/ (v \in covers(r) /\ ~ r.mmio)
         /\ \A v \in covers(r) : ~ Covered(rs, v)
<1>1. Listed(insert(rs, r)) = Listed(rs) \cup {r} BY InsertSorted
<1>2. \A v \in covers(r) : ~ Covered(rs, v)
  BY DEF Covered, Listed
<1> QED BY <1>1, <1>2 DEF Owns

\* vmm_space_alloc: fresh frames at pages that were not mapped, which the space
\* now owns.
LEMMA AllocOwns ==
  ASSUME TypeOK, Tables, NEW s \in Spaces, NEW b \in Pages, NEW n \in 1 .. REGION_PAGES,
         NEW w \in BOOLEAN,
         vmm_space_alloc(s, b, n, w)
  PROVE  \E g \in [b .. b + n - 1 -> Frames \ used] :
           \A u \in Spaces, v \in Pages :
              /\ frame'[u][v] = IF u = s /\ v \in b .. b + n - 1 THEN g[v] ELSE frame[u][v]
              /\ Owns(regions'[u], v) <=> Owns(regions[u], v) \/ (u = s /\ v \in b .. b + n - 1)
              /\ (u = s /\ v \in b .. b + n - 1) => frame[u][v] = NULL
<1> DEFINE r == [base |-> b, size |-> n, write |-> w, cow |-> FALSE, mmio |-> FALSE]
<1>1. r \in Region /\ b .. b + n - 1 \subseteq Pages /\ covers(r) = b .. b + n - 1 /\ ~ r.mmio
  BY PagesAssumption DEF vmm_space_alloc, is_vaddr_range_free, Region, Pages, covers
<1>2. \A i \in 1 .. Len(regions[s]) : covers(regions[s][i]) \cap covers(r) = {}
  BY <1>1 DEF vmm_space_alloc, is_vaddr_range_free
<1>3. \A u \in Spaces : regions'[u] = IF u = s THEN insert(regions[s], r) ELSE regions[u]
  BY DEF vmm_space_alloc, TypeOK
<1> HIDE DEF r
<1>4. PICK g \in [b .. b + n - 1 -> Frames \ used] :
          frame' = [frame EXCEPT ![s] = [v \in Pages |-> IF v \in DOMAIN g THEN g[v] ELSE frame[s][v]]]
  BY DEF vmm_space_alloc, TypeOK
<1>5. regions[s] \in Seq(Region) /\ Sorted(regions[s]) BY DEF TypeOK, Tables
<1>6. /\ \A v : Owns(insert(regions[s], r), v) <=> Owns(regions[s], v) \/ (v \in covers(r) /\ ~ r.mmio)
      /\ \A v \in covers(r) : ~ Covered(regions[s], v)
  BY <1>1, <1>2, <1>5, InsertOwns
<1>7. \A v \in b .. b + n - 1 : frame[s][v] = NULL BY <1>1, <1>6 DEF Tables
<1>8. \A u \in Spaces, v \in Pages :
         /\ frame'[u][v] = IF u = s /\ v \in b .. b + n - 1 THEN g[v] ELSE frame[u][v]
         /\ Owns(regions'[u], v) <=> Owns(regions[u], v) \/ (u = s /\ v \in b .. b + n - 1)
         /\ (u = s /\ v \in b .. b + n - 1) => frame[u][v] = NULL
  <2> TAKE u \in Spaces, v \in Pages
  <2>1. frame'[u][v] = IF u = s /\ v \in b .. b + n - 1 THEN g[v] ELSE frame[u][v]
    BY <1>1, <1>4 DEF TypeOK
  <2>2. Owns(regions'[u], v) <=> Owns(regions[u], v) \/ (u = s /\ v \in b .. b + n - 1)
    BY <1>1, <1>3, <1>6
  <2> QED BY <2>1, <2>2, <1>7
<1> QED BY <1>8

\* vmm_map_phys: the backbuffer at a page that was not owned, and is not.
LEMMA MapPhysOwns ==
  ASSUME TypeOK, Tables, NEW s \in Spaces, vmm_map_phys(s)
  PROVE  \A u \in Spaces, v \in Pages :
              /\ frame'[u][v] = IF u = s /\ v = FB_MAP_VADDR THEN Backbuffer ELSE frame[u][v]
              /\ Owns(regions'[u], v) <=> Owns(regions[u], v)
              /\ (u = s /\ v = FB_MAP_VADDR) => ~ Owns(regions[u], v)
<1> DEFINE r == [base |-> FB_MAP_VADDR, size |-> 1, write |-> TRUE, cow |-> FALSE, mmio |-> TRUE]
<1>1. r \in Region /\ covers(r) = FB_MAP_VADDR .. FB_MAP_VADDR + 1 - 1 /\ covers(r) = {FB_MAP_VADDR} /\ FB_MAP_VADDR \in Pages
      /\ r.mmio
  BY PagesAssumption DEF Region, Pages, covers
<1>2. \A i \in 1 .. Len(regions[s]) : covers(regions[s][i]) \cap covers(r) = {}
  BY <1>1 DEF vmm_map_phys, is_vaddr_range_free
<1>3. \A u \in Spaces : regions'[u] = IF u = s THEN insert(regions[s], r) ELSE regions[u]
  BY DEF vmm_map_phys, TypeOK
<1> HIDE DEF r
<1>4. regions[s] \in Seq(Region) /\ Sorted(regions[s]) BY DEF TypeOK, Tables
<1>5. /\ \A v : Owns(insert(regions[s], r), v) <=> Owns(regions[s], v) \/ (v \in covers(r) /\ ~ r.mmio)
      /\ \A v \in covers(r) : ~ Covered(regions[s], v)
  BY <1>1, <1>2, <1>4, InsertOwns
<1> TAKE u \in Spaces, v \in Pages
<1>6. frame'[u][v] = IF u = s /\ v = FB_MAP_VADDR THEN Backbuffer ELSE frame[u][v]
  BY <1>1 DEF TypeOK, vmm_map_phys
<1>7. Owns(regions'[u], v) <=> Owns(regions[u], v)
  BY <1>1, <1>3, <1>5
<1>8. (u = s /\ v = FB_MAP_VADDR) => ~ Owns(regions[u], v)
  BY <1>1, <1>5, OwnsCovered
<1> QED BY <1>6, <1>7, <1>8

\* vmm_space_free: the pages of one region go.
LEMMA FreeOwns ==
  ASSUME TypeOK, Tables, NEW s \in Spaces, NEW i \in Pages, vmm_space_free(s, i)
  PROVE  \A u \in Spaces, v \in Pages :
              /\ frame'[u][v] = IF u = s /\ v \in covers(regions[s][i]) THEN NULL ELSE frame[u][v]
              /\ u # s => regions'[u] = regions[u]
              /\ v \notin covers(regions[s][i]) => (Owns(regions'[u], v) <=> Owns(regions[u], v))
<1> DEFINE rs == regions[s] q == SubSeq(rs, 1, i - 1) \o SubSeq(rs, i + 1, Len(rs))
<1>1. rs \in Seq(Region) /\ Sorted(rs) /\ i \in 1 .. Len(rs)
  BY DEF TypeOK, Tables, vmm_space_free
<1>2. /\ \A u \in Spaces : regions'[u] = IF u = s THEN q ELSE regions[u]
      /\ \A u \in Spaces, v \in Pages : frame'[u][v] = IF u = s /\ v \in covers(rs[i]) THEN NULL ELSE frame[u][v]
  BY DEF vmm_space_free, TypeOK, freed
<1> HIDE DEF rs
<1>3. Listed(q) = Listed(rs) \ {rs[i]} BY <1>1, RemoveSorted
<1> HIDE DEF q
<1>4. \A v : v \notin covers(rs[i]) => (Owns(q, v) <=> Owns(rs, v)) BY <1>3 DEF Owns
<1> QED BY <1>2, <1>4 DEF rs

\* Regions that become copy-on-write own what they owned.
LEMMA FlagsOwns ==
  ASSUME NEW q \in Seq(Region), NEW k
  PROVE  LET c == [i \in 1 .. Len(q) |-> IF i <= k THEN as_cow(q[i]) ELSE q[i]] IN
         \A v : Owns(c, v) <=> Owns(q, v)
<1> DEFINE c == [i \in 1 .. Len(q) |-> IF i <= k THEN as_cow(q[i]) ELSE q[i]]
<1>1. \A i \in 1 .. Len(q) : q[i] \in Region OBVIOUS
<1>2. c \in [1 .. Len(q) -> Region] BY <1>1, AsCow
<1>3. c \in Seq(Region) /\ Len(c) = Len(q) BY <1>2, Mapped
<1>4. \A i \in 1 .. Len(q) : c[i] = IF i <= k THEN as_cow(q[i]) ELSE q[i] OBVIOUS
<1> HIDE DEF c
<1>5. \A i \in 1 .. Len(q) : c[i].base = q[i].base /\ c[i].size = q[i].size /\ c[i].mmio = q[i].mmio
  BY <1>1, <1>4, AsCow
<1>6. \A v : Owns(c, v) <=> Owns(q, v) BY <1>3, <1>5, SameOwns
<1> QED BY <1>6 DEF c

\* vmm_clone_space: the clone has entries and owned pages of the original.
LEMMA CloneOwns ==
  ASSUME TypeOK, NEW s \in Spaces, NEW d \in Spaces, vmm_clone_space(s, d)
  PROVE  \A u \in Spaces :
              /\ frame'[u] = IF u = d THEN frame[s] ELSE frame[u]
              /\ \A v : Owns(regions'[u], v) <=> Owns(regions[IF u = d THEN s ELSE u], v)
<1> DEFINE q == regions[s] c == [i \in 1 .. Len(q) |-> as_cow(q[i])]
           e == [i \in 1 .. Len(q) |-> IF i <= Len(q) THEN as_cow(q[i]) ELSE q[i]]
<1>1. q \in Seq(Region) /\ s # d BY DEF TypeOK, vmm_clone_space, may_fork, up
<1>2. \A u \in Spaces : /\ regions'[u] = IF u \in {s, d} THEN c ELSE regions[u]
                        /\ frame'[u] = IF u = d THEN frame[s] ELSE frame[u]
  BY <1>1 DEF vmm_clone_space, TypeOK
<1> HIDE DEF q
<1>3. e = c BY <1>1
<1>4. \A v : Owns(e, v) <=> Owns(q, v)
  <2>1. \A k : LET a == [i \in 1 .. Len(q) |-> IF i <= k THEN as_cow(q[i]) ELSE q[i]] IN
               \A v : Owns(a, v) <=> Owns(q, v)
    BY <1>1, FlagsOwns
  <2> QED BY <2>1
<1> HIDE DEF c, e
<1> QED BY <1>2, <1>3, <1>4 DEF q

\* A clone that fails changes neither.
LEMMA CloneFailsOwns ==
  ASSUME TypeOK, NEW s \in Spaces, NEW k \in Pages, vmm_clone_space_fails(s, k)
  PROVE  frame' = frame /\ \A u \in Spaces : \A v : Owns(regions'[u], v) <=> Owns(regions[u], v)
<1> DEFINE q == regions[s] c == [i \in 1 .. Len(q) |-> IF i <= k THEN as_cow(q[i]) ELSE q[i]]
<1>1. q \in Seq(Region) BY DEF TypeOK
<1>2. frame' = frame /\ \A u \in Spaces : regions'[u] = IF u = s THEN c ELSE regions[u]
  BY DEF vmm_clone_space_fails, TypeOK
<1>3. \A v : Owns(c, v) <=> Owns(q, v) BY <1>1, FlagsOwns
<1> HIDE DEF c
<1> QED BY <1>2, <1>3

\* vmm_cow_break changes one entry and no ownership.
LEMMA BrokenOwns ==
  ASSUME TypeOK, NEW s \in Spaces, NEW v \in Pages, NEW f, cow_broken(s, v, f)
  PROVE  \A u \in Spaces :
           /\ \A x : Owns(regions'[u], x) <=> Owns(regions[u], x)
           /\ \A x \in Pages : frame'[u][x] = IF u = s /\ x = v THEN f ELSE frame[u][x]
<1> DEFINE q == regions[s] i == vmm_space_find(s, v) r == [q[i] EXCEPT !.cow = FALSE, !.write = TRUE]
           c == [q EXCEPT ![i] = r]
<1>1. q \in Seq(Region) BY DEF TypeOK
<1>2. \A u \in Spaces : regions'[u] = IF u = s THEN c ELSE regions[u]
  BY DEF cow_broken, TypeOK
<1>3. \A u \in Spaces, x \in Pages : frame'[u][x] = IF u = s /\ x = v THEN f ELSE frame[u][x]
  BY DEF cow_broken, TypeOK
<1> HIDE DEF q, i
<1>4. i \in 1 .. Len(q) => q[i] \in Region BY <1>1
<1>5. i \in 1 .. Len(q) => r \in Region /\ r.base = q[i].base /\ r.size = q[i].size /\ r.mmio = q[i].mmio
  BY <1>4 DEF Region
<1> HIDE DEF r
<1>6. c \in Seq(Region) /\ Len(c) = Len(q) /\ \A j \in 1 .. Len(q) : c[j] = IF j = i THEN r ELSE q[j]
  BY <1>1, <1>5, Changed
<1> HIDE DEF c
<1>7. \A j \in 1 .. Len(q) : c[j].base = q[j].base /\ c[j].size = q[j].size /\ c[j].mmio = q[j].mmio
  BY <1>5, <1>6
<1>8. \A x : Owns(c, x) <=> Owns(q, x) BY <1>1, <1>6, <1>7, SameOwns
<1> QED BY <1>2, <1>3, <1>8 DEF q

-----------------------------------------------------------------------------
(* Steps of PrivateMemory.                                                 *)

\* The inductive invariant of the refinement.
MemorySound == CowSound /\ Tables /\ OwnedOffBackbuffer

\* Handling a fault changes nothing a program sees: the copy is made before the
\* entry moves, to a frame nobody is on.
LEMMA FaultOwns ==
  ASSUME MemorySound, NEW s \in Spaces, NEW v \in Pages, cow_page_fault_handler(s, v)
  PROVE  OwnedOffBackbuffer' /\ live' = live /\ seen' = seen
<1>1. up(s) /\ frame[s][v] # NULL /\ frame[s][v] \in AllFrames /\ live' = live /\ TypeOK /\ OwnedOffBackbuffer
  BY DEF cow_page_fault_handler, writes, MemorySound, CowSound, TypeOK
<1>2. CASE regions' = regions /\ frame' = frame /\ data' = data
  BY <1>1, <1>2, SeenIs, SeenIsNext DEF OwnedOffBackbuffer
<1>3. CASE cow_in_place(s, v)
  <2>1. \A u \in Spaces :
           /\ \A x : Owns(regions'[u], x) <=> Owns(regions[u], x)
           /\ \A x \in Pages : frame'[u][x] = IF u = s /\ x = v THEN frame[s][v] ELSE frame[u][x]
    BY <1>1, <1>3, BrokenOwns DEF cow_in_place
  <2>2. \A u \in Spaces, x \in Pages : frame'[u][x] = frame[u][x] BY <2>1
  <2>3. data' = data BY <1>3 DEF cow_in_place
  <2>4. \A u \in Spaces, x \in Pages : see(frame'[u], regions'[u], data', x) = see(frame[u], regions[u], data, x)
    BY <2>1, <2>2, <2>3 DEF see
  <2>5. OwnedOffBackbuffer' BY <1>1, <2>1, <2>2 DEF OwnedOffBackbuffer
  <2> QED BY <1>1, <2>4, <2>5, SeenIs, SeenIsNext
<1>4. CASE cow_copy(s, v)
  <2>1. PICK g \in Frames \ used : cow_broken(s, v, g) /\ data' = [data EXCEPT ![g] = data[frame[s][v]]]
    BY <1>4 DEF cow_copy, copied
  <2>2. \A u \in Spaces :
           /\ \A x : Owns(regions'[u], x) <=> Owns(regions[u], x)
           /\ \A x \in Pages : frame'[u][x] = IF u = s /\ x = v THEN g ELSE frame[u][x]
    BY <1>1, <2>1, BrokenOwns
  <2>3. g \in AllFrames /\ g # NULL /\ g # Backbuffer BY FramesAssumption DEF AllFrames
  <2>4. ASSUME NEW u \in Spaces, NEW x \in Pages PROVE frame[u][x] # g
    <3>1. Counted(g) BY <1>1, CountsAre DEF MemorySound, CowSound, up
    <3>2. mappers(g) = {} BY <3>1 DEF Counted
    <3>3. frame[u][x] = g => <<u, x>> \in mappers(g) BY DEF mappers
    <3> QED BY <3>2, <3>3
  <2>5. data'[g] = data[frame[s][v]] /\ \A f \in AllFrames : f # g => data'[f] = data[f]
    BY <2>1, <2>3 DEF MemorySound, CowSound, TypeOK
  <2>6. ASSUME NEW u \in Spaces, NEW x \in Pages
        PROVE  see(frame'[u], regions'[u], data', x) = see(frame[u], regions[u], data, x)
    <3>1. frame[u][x] \in AllFrames \cup {NULL} BY <1>1 DEF TypeOK
    <3>2. CASE u = s /\ x = v BY <3>2, <1>1, <2>2, <2>3, <2>5 DEF see
    <3>3. CASE ~ (u = s /\ x = v) BY <3>1, <3>3, <2>2, <2>4, <2>5 DEF see
    <3> QED BY <3>2, <3>3
  <2>7. OwnedOffBackbuffer' BY <1>1, <2>2, <2>3 DEF OwnedOffBackbuffer
  <2> QED BY <1>1, <2>6, <2>7, SeenIs, SeenIsNext
<1> QED BY <1>2, <1>3, <1>4 DEF cow_page_fault_handler, vmm_cow_break, cow_panic, memVars

\* A store changes one page of one program, or none if it is to the
\* framebuffer.
LEMMA StoreStep ==
  ASSUME MemorySound, TypeOK', NEW CONSTANT s \in Spaces, NEW CONSTANT v \in Pages,
         NEW CONSTANT val \in Values, store(s, v, val)
  PROVE  OwnedOffBackbuffer' /\ live' = live /\ (seen' = seen \/ Private!Store(s, v))
<1>1. /\ frame[s][v] # NULL /\ frame[s][v] \in AllFrames /\ wbit[s][v] /\ s \in live
      /\ frame' = frame /\ regions' = regions /\ live' = live /\ TypeOK /\ OwnedOffBackbuffer
      /\ data' = [data EXCEPT ![frame[s][v]] = val]
  BY DEF store, writes, up, MemorySound, CowSound, TypeOK
<1>2. OwnedOffBackbuffer' BY <1>1 DEF OwnedOffBackbuffer
<1>3. data'[frame[s][v]] = val /\ \A f \in AllFrames : f # frame[s][v] => data'[f] = data[f]
  BY <1>1 DEF TypeOK
<1>4. ASSUME NEW u \in Spaces, NEW x \in Pages, Owns(regions[u], x), frame[u][x] = frame[s][v]
      PROVE u = s /\ x = v
  <2>1. frame[s][v] # Backbuffer BY <1>1, <1>4 DEF OwnedOffBackbuffer
  <2>2. mappers(frame[s][v]) = {<<s, v>>}
    BY <1>1, <2>1 DEF MemorySound, CowSound, WritableIsPrivate
  <2>3. <<u, x>> \in mappers(frame[s][v]) BY <1>4 DEF mappers
  <2> QED BY <2>2, <2>3
<1>5. ASSUME NEW u \in Spaces, NEW x \in Pages, ~ (u = s /\ x = v)
      PROVE  see(frame'[u], regions'[u], data', x) = see(frame[u], regions[u], data, x)
  <2>1. frame[u][x] \in AllFrames \cup {NULL} BY <1>1 DEF TypeOK
  <2> QED BY <2>1, <1>1, <1>3, <1>4, <1>5 DEF see
<1>6. seen \in [Spaces -> [Pages -> Values \cup {NULL}]] /\ seen' \in [Spaces -> [Pages -> Values \cup {NULL}]]
  BY <1>1, SeenType, SeenTypeNext
<1>7. \A u \in Spaces, x \in Pages : ~ (u = s /\ x = v) => seen'[u][x] = seen[u][x]
  BY <1>5, SeenIs, SeenIsNext
<1>8. CASE Owns(regions[s], v)
  <2>1. seen[s][v] = data[frame[s][v]] /\ seen'[s][v] = val
    BY <1>1, <1>3, <1>8, SeenIs, SeenIsNext DEF see
  <2>2. seen[s][v] # NULL BY <1>1, <2>1, FramesAssumption DEF TypeOK
  <2>3. seen' = [seen EXCEPT ![s][v] = seen'[s][v]] BY <1>6, <1>7, SameMemory
  <2> QED BY <1>1, <1>2, <2>1, <2>2, <2>3 DEF Private!Store
<1>9. CASE ~ Owns(regions[s], v)
  <2>1. seen[s][v] = NULL /\ seen'[s][v] = NULL BY <1>1, <1>9, SeenIs, SeenIsNext DEF see
  <2>2. \A u \in Spaces, x \in Pages : seen'[u][x] = seen[u][x] BY <1>7, <2>1
  <2>3. seen' = seen BY <1>6, <2>2, SameMemory
  <2> QED BY <1>1, <1>2, <2>3
<1> QED BY <1>8, <1>9

\* vmm_space_create is Create.
LEMMA CreateStep ==
  ASSUME MemorySound, NEW CONSTANT s \in Spaces, vmm_space_create(s)
  PROVE  OwnedOffBackbuffer' /\ Private!Create(s) /\ seen' = seen
<1>1. frame' = frame /\ regions' = regions /\ data' = data /\ s \notin live /\ live' = live \cup {s}
  BY DEF vmm_space_create, memVars
<1>2. seen' = seen BY <1>1, SeenIs, SeenIsNext
<1> QED BY <1>1, <1>2 DEF Private!Create, OwnedOffBackbuffer, MemorySound

\* vmm_space_destroy is Exit.
LEMMA DestroyStep ==
  ASSUME MemorySound, TypeOK', NEW CONSTANT s \in Spaces, vmm_space_destroy(s)
  PROVE  OwnedOffBackbuffer' /\ Private!Exit(s)
<1>1. /\ \A u \in Spaces : u # s => frame'[u] = frame[u] /\ regions'[u] = regions[u]
      /\ \A v \in Pages : frame'[s][v] = NULL
      /\ data' = data /\ s \in live /\ live' = live \ {s} /\ TypeOK /\ OwnedOffBackbuffer
  BY DEF vmm_space_destroy, nothing_mapped, up, MemorySound, CowSound, TypeOK
<1>2. OwnedOffBackbuffer' BY <1>1, FramesAssumption DEF OwnedOffBackbuffer, AllFrames
<1>3. seen \in [Spaces -> [Pages -> Values \cup {NULL}]] /\ seen' \in [Spaces -> [Pages -> Values \cup {NULL}]]
  BY <1>1, SeenType, SeenTypeNext
<1>4. \A u \in Spaces, v \in Pages : seen'[u][v] = IF u = s THEN NULL ELSE seen[u][v]
  BY <1>1, SeenIs, SeenIsNext DEF see
<1>5. seen' = [seen EXCEPT ![s] = [v \in Pages |-> NULL]] BY <1>3, <1>4, SameMemory
<1> QED BY <1>1, <1>2, <1>5 DEF Private!Exit

\* vmm_space_alloc is Map.
LEMMA AllocStep ==
  ASSUME MemorySound, TypeOK', NEW CONSTANT s \in Spaces, NEW CONSTANT b \in Pages,
         NEW CONSTANT n \in 1 .. REGION_PAGES,
         NEW CONSTANT w \in BOOLEAN, vmm_space_alloc(s, b, n, w)
  PROVE  OwnedOffBackbuffer' /\ Private!Map(s)
<1>1. data' = data /\ s \in live /\ live' = live /\ TypeOK /\ Tables /\ OwnedOffBackbuffer
  BY DEF vmm_space_alloc, up, MemorySound, CowSound
<1>2. PICK g \in [b .. b + n - 1 -> Frames \ used] :
           \A u \in Spaces, v \in Pages :
              /\ frame'[u][v] = IF u = s /\ v \in b .. b + n - 1 THEN g[v] ELSE frame[u][v]
              /\ Owns(regions'[u], v) <=> Owns(regions[u], v) \/ (u = s /\ v \in b .. b + n - 1)
              /\ (u = s /\ v \in b .. b + n - 1) => frame[u][v] = NULL
  BY <1>1, AllocOwns
<1>3. \A v \in b .. b + n - 1 : g[v] # Backbuffer BY FramesAssumption
<1>4. OwnedOffBackbuffer' BY <1>1, <1>2, <1>3 DEF OwnedOffBackbuffer
<1>5. seen \in [Spaces -> [Pages -> Values \cup {NULL}]] /\ seen' \in [Spaces -> [Pages -> Values \cup {NULL}]]
  BY <1>1, SeenType, SeenTypeNext
<1>6. \A u \in Spaces, v \in Pages : ~ (u = s /\ v \in b .. b + n - 1) => seen'[u][v] = seen[u][v]
  BY <1>1, <1>2, SeenIs, SeenIsNext DEF see
<1>7. \A v \in Pages : v \in b .. b + n - 1 => seen[s][v] = NULL
  BY <1>2, SeenIs DEF see
<1>8. seen' = [seen EXCEPT ![s] = seen'[s]]
  <2>1. [seen EXCEPT ![s] = seen'[s]] \in [Spaces -> [Pages -> Values \cup {NULL}]] BY <1>5
  <2>2. \A u \in Spaces, v \in Pages : seen'[u][v] = [seen EXCEPT ![s] = seen'[s]][u][v]
    BY <1>5, <1>6
  <2> QED BY <1>5, <2>1, <2>2, SameMemory
<1>9. \A v \in Pages : seen[s][v] # NULL => seen'[s][v] = seen[s][v] BY <1>6, <1>7
<1>10. seen'[s] \in [Pages -> Values \cup {NULL}] BY <1>5
<1> QED BY <1>1, <1>4, <1>8, <1>9, <1>10 DEF Private!Map

\* vmm_space_free is Unmap.
LEMMA FreeStep ==
  ASSUME MemorySound, TypeOK', NEW CONSTANT s \in Spaces,
         NEW CONSTANT i \in Pages, vmm_space_free(s, i)
  PROVE  OwnedOffBackbuffer' /\ Private!Unmap(s)
<1>1. data' = data /\ s \in live /\ live' = live /\ TypeOK /\ Tables /\ OwnedOffBackbuffer
  BY DEF vmm_space_free, up, MemorySound, CowSound
<1>2. \A u \in Spaces, v \in Pages :
              /\ frame'[u][v] = IF u = s /\ v \in covers(regions[s][i]) THEN NULL ELSE frame[u][v]
              /\ u # s => regions'[u] = regions[u]
              /\ v \notin covers(regions[s][i]) => (Owns(regions'[u], v) <=> Owns(regions[u], v))
  BY <1>1, FreeOwns
<1>3. OwnedOffBackbuffer' BY <1>1, <1>2, FramesAssumption DEF OwnedOffBackbuffer, AllFrames
<1>4. seen \in [Spaces -> [Pages -> Values \cup {NULL}]] /\ seen' \in [Spaces -> [Pages -> Values \cup {NULL}]]
  BY <1>1, SeenType, SeenTypeNext
<1>5. \A u \in Spaces, v \in Pages : u # s => seen'[u][v] = seen[u][v]
  BY <1>1, <1>2, SeenIs, SeenIsNext DEF see
<1>6. \A v \in Pages : seen'[s][v] = IF seen'[s][v] = NULL THEN NULL ELSE seen[s][v]
  BY <1>1, <1>2, SeenIs, SeenIsNext DEF see
<1> DEFINE left == [v \in Pages |-> IF seen'[s][v] = NULL THEN NULL ELSE seen[s][v]]
<1>7. left \in [Pages -> Values \cup {NULL}] /\ \A v \in Pages : left[v] = seen'[s][v]
  BY <1>4, <1>6
<1>8. seen' = [seen EXCEPT ![s] = left]
  <2> HIDE DEF left
  <2>1. [seen EXCEPT ![s] = left] \in [Spaces -> [Pages -> Values \cup {NULL}]] BY <1>4, <1>7
  <2>2. \A u \in Spaces, v \in Pages : seen'[u][v] = [seen EXCEPT ![s] = left][u][v]
    BY <1>4, <1>5, <1>7
  <2> QED BY <1>4, <2>1, <2>2, SameMemory
<1> QED BY <1>1, <1>3, <1>8 DEF Private!Unmap

\* vmm_clone_space is Fork.
LEMMA CloneStep ==
  ASSUME MemorySound, TypeOK', NEW CONSTANT s \in Spaces,
         NEW CONSTANT d \in Spaces, vmm_clone_space(s, d)
  PROVE  OwnedOffBackbuffer' /\ Private!Fork(s, d)
<1>1. data' = data /\ s \in live /\ d \notin live /\ live' = live \cup {d} /\ TypeOK /\ OwnedOffBackbuffer
  BY DEF vmm_clone_space, may_fork, up, MemorySound, CowSound
<1>2. \A u \in Spaces :
              /\ frame'[u] = IF u = d THEN frame[s] ELSE frame[u]
              /\ \A v : Owns(regions'[u], v) <=> Owns(regions[IF u = d THEN s ELSE u], v)
  BY <1>1, CloneOwns
<1>3. OwnedOffBackbuffer' BY <1>1, <1>2 DEF OwnedOffBackbuffer
<1>4. seen \in [Spaces -> [Pages -> Values \cup {NULL}]] /\ seen' \in [Spaces -> [Pages -> Values \cup {NULL}]]
  BY <1>1, SeenType, SeenTypeNext
<1>5. \A u \in Spaces, v \in Pages : seen'[u][v] = IF u = d THEN seen[s][v] ELSE seen[u][v]
  BY <1>1, <1>2, SeenIs, SeenIsNext DEF see
<1>6. seen' = [seen EXCEPT ![d] = seen[s]] BY <1>4, <1>5, SameMemory
<1> QED BY <1>1, <1>3, <1>6 DEF Private!Fork

\* Steps that move no entry and write nothing.
LEMMA QuietStep ==
  ASSUME TypeOK, OwnedOffBackbuffer, frame' = frame, data' = data,
         \A u \in Spaces, v \in Pages : Owns(regions'[u], v) <=> Owns(regions[u], v)
  PROVE  OwnedOffBackbuffer' /\ seen' = seen
<1>1. \A u \in Spaces, v \in Pages : see(frame'[u], regions'[u], data', v) = see(frame[u], regions[u], data, v)
  BY DEF see
<1> QED BY <1>1, SeenIs, SeenIsNext DEF OwnedOffBackbuffer

\* Mapping the framebuffer changes nothing that belongs to a program.
LEMMA MapPhysStep ==
  ASSUME MemorySound, NEW s \in Spaces, vmm_map_phys(s)
  PROVE  OwnedOffBackbuffer' /\ live' = live /\ seen' = seen
<1>1. data' = data /\ live' = live /\ TypeOK /\ Tables /\ OwnedOffBackbuffer
  BY DEF vmm_map_phys, memVars, MemorySound, CowSound
<1>2. \A u \in Spaces, v \in Pages :
              /\ frame'[u][v] = IF u = s /\ v = FB_MAP_VADDR THEN Backbuffer ELSE frame[u][v]
              /\ Owns(regions'[u], v) <=> Owns(regions[u], v)
              /\ (u = s /\ v = FB_MAP_VADDR) => ~ Owns(regions[u], v)
  BY <1>1, MapPhysOwns
<1>3. \A u \in Spaces, v \in Pages : see(frame'[u], regions'[u], data', v) = see(frame[u], regions[u], data, v)
  BY <1>1, <1>2 DEF see
<1>4. seen' = seen BY <1>3, SeenIs, SeenIsNext
<1> QED BY <1>1, <1>2, <1>4 DEF OwnedOffBackbuffer

\* A step of CowSpaces is a step of PrivateMemory, or changes nothing there;
\* and only a store changes what is seen without changing the tables.
LEMMA MemoryStep ==
  ASSUME MemorySound, "refork" \notin Situations, [Next]_vars
  PROVE  /\ MemorySound'
         /\ \/ live' = live /\ seen' = seen
            \/ \E s \in Spaces : Private!Create(s) \/ Private!Map(s) \/ Private!Unmap(s) \/ Private!Exit(s)
            \/ \E s, d \in Spaces : Private!Fork(s, d)
            \/ /\ \E s \in Spaces, v \in Pages : Private!Store(s, v)
               /\ <<live, regions, frame, wbit>>' = <<live, regions, frame, wbit>>
<1> DEFINE Quiet == live' = live /\ seen' = seen
           One == \E s \in Spaces : Private!Create(s) \/ Private!Map(s) \/ Private!Unmap(s) \/ Private!Exit(s)
           Two == \E s, d \in Spaces : Private!Fork(s, d)
           Put == /\ \E s \in Spaces, v \in Pages : Private!Store(s, v)
                  /\ <<live, regions, frame, wbit>>' = <<live, regions, frame, wbit>>
           Goal == OwnedOffBackbuffer' /\ (Quiet \/ One \/ Two \/ Put)
<1>1. CowSound' /\ Tables' /\ TypeOK' /\ TypeOK /\ OwnedOffBackbuffer
  BY CowStep, TablesStep DEF MemorySound, CowSound
<1>2. ASSUME frame' = frame, regions' = regions, data' = data, live' = live PROVE Goal
  BY <1>1, <1>2, QuietStep
<1>3. ASSUME UNCHANGED vars PROVE Goal BY <1>2, <1>3 DEF vars, memVars
<1>4. ASSUME NEW s \in Spaces, vmm_space_create(s) \/ vmm_space_destroy(s) \/ vmm_map_phys(s)
      PROVE Goal
  <2>1. CASE vmm_space_create(s) BY <2>1, CreateStep
  <2>2. CASE vmm_space_destroy(s) BY <1>1, <2>2, DestroyStep
  <2>3. CASE vmm_map_phys(s) BY <2>3, MapPhysStep
  <2> QED BY <1>4, <2>1, <2>2, <2>3
<1>5. ASSUME NEW s \in Spaces, NEW b \in Pages, NEW n \in 1 .. REGION_PAGES,
             (\E w \in BOOLEAN : vmm_space_alloc(s, b, n, w)) \/ vmm_space_alloc_fails(s, b, n)
               PROVE Goal
  <2>1. CASE \E w \in BOOLEAN : vmm_space_alloc(s, b, n, w) BY <1>1, <2>1, AllocStep
  <2>2. CASE vmm_space_alloc_fails(s, b, n)
    <3>1. frame' = frame /\ regions' = regions /\ data' = data /\ live' = live
      BY <2>2 DEF vmm_space_alloc_fails
    <3> QED BY <3>1, <1>2
  <2> QED BY <1>5, <2>1, <2>2
<1>6. ASSUME NEW s \in Spaces,
             NEW i \in Pages, vmm_space_free(s, i) \/ vmm_clone_space_fails(s, i)
      PROVE Goal
  <2>1. CASE vmm_space_free(s, i) BY <1>1, <2>1, FreeStep
  <2>2. CASE vmm_clone_space_fails(s, i)
    <3>1. frame' = frame /\ \A u \in Spaces : \A v : Owns(regions'[u], v) <=> Owns(regions[u], v)
      BY <1>1, <2>2, CloneFailsOwns
    <3>2. data' = data /\ live' = live BY <2>2 DEF vmm_clone_space_fails
    <3> QED BY <1>1, <3>1, <3>2, QuietStep
  <2> QED BY <1>6, <2>1, <2>2
<1>7. ASSUME NEW s \in Spaces, NEW d \in Spaces, vmm_clone_space(s, d) PROVE Goal
  BY <1>1, <1>7, CloneStep
<1>8. ASSUME NEW s \in Spaces, NEW v \in Pages,
             cow_page_fault_handler(s, v) \/ \E val \in Values : store(s, v, val) PROVE Goal
  <2>1. CASE cow_page_fault_handler(s, v) BY <2>1, FaultOwns
  <2>2. ASSUME NEW val \in Values, store(s, v, val) PROVE Goal
    <3>1. OwnedOffBackbuffer' /\ live' = live /\ (seen' = seen \/ Private!Store(s, v))
      BY <1>1, <2>2, StoreStep
    <3>2. <<live, regions, frame, wbit>>' = <<live, regions, frame, wbit>> BY <2>2 DEF store
    <3> QED BY <3>1, <3>2
  <2> QED BY <1>8, <2>1, <2>2
<1>9. Goal
  <2> HIDE DEF Goal
  <2>1. CASE halted
    <3>1. UNCHANGED vars BY <2>1 DEF halted
    <3> QED BY <1>3, <3>1
  <2>2. CASE Next /\ ~ halted
    BY <2>2, <1>4, <1>5, <1>6, <1>7, <1>8 DEF Next
  <2> QED BY <2>1, <2>2, <1>3
<1> QED BY <1>1, <1>9 DEF MemorySound

\* The invariant and the abstract initial state hold at boot.
LEMMA MemoryInit == Init => MemorySound /\ Private!Init
<1> SUFFICES ASSUME Init PROVE MemorySound /\ Private!Init OBVIOUS
<1>1. CowSound /\ Tables BY CowInit, TablesInit
<1>2. \A s \in Spaces, v \in Pages : frame[s][v] = NULL BY DEF Init, nothing_mapped
<1>3. OwnedOffBackbuffer BY <1>2, FramesAssumption DEF OwnedOffBackbuffer, AllFrames
<1>4. seen = [s \in Spaces |-> [v \in Pages |-> NULL]] BY <1>2, SeenIs DEF see
<1>5. live = {} BY DEF Init
<1> QED BY <1>1, <1>3, <1>4, <1>5 DEF MemorySound, Private!Init

\* Frames, counts, read-only entries and page faults implement PrivateMemory: every
\* process has a memory of its own (ImplementsPrivateMemory).
THEOREM MemoryIsPrivate ==
  ASSUME "refork" \notin Situations
  PROVE  Spec => ImplementsPrivateMemory
<1>1. Init => MemorySound /\ Private!Init BY MemoryInit
<1>2. MemorySound /\ [Next]_vars => MemorySound' /\ [Private!Next]_<<live, seen>>
  BY MemoryStep DEF Private!Next
<1> QED BY <1>1, <1>2, PTL DEF Spec, ImplementsPrivateMemory, Private!Spec

\* Whatever changes page tables, regions or the set of processes changes no content
\* that a running program sees (FaultsAreInvisible).
THEOREM FaultsHidden ==
  ASSUME "refork" \notin Situations
  PROVE  Spec => FaultsAreInvisible
<1> DEFINE Kept == \A s \in live, v \in Pages : seen[s][v] # NULL => seen'[s][v] \in {seen[s][v], NULL}
           Tab == <<live, regions, frame, wbit>>
<1>1. Init => MemorySound BY MemoryInit
<1>2. MemorySound /\ [Next]_vars => MemorySound' /\ [Tab' # Tab => Kept]_vars
  <2> SUFFICES ASSUME MemorySound, [Next]_vars
               PROVE MemorySound' /\ (Tab' # Tab => Kept) OBVIOUS
  <2>1. MemorySound' BY MemoryStep
  <2>2. /\ seen \in [Spaces -> [Pages -> Values \cup {NULL}]] /\ seen' \in [Spaces -> [Pages -> Values \cup {NULL}]]
        /\ live \subseteq Spaces
    BY <2>1, SeenType, SeenTypeNext DEF MemorySound, CowSound, TypeOK
  <2>3. ASSUME live' = live, seen' = seen PROVE Kept BY <2>3
  <2>4. ASSUME NEW s \in Spaces, Private!Create(s) \/ Private!Map(s) \/ Private!Unmap(s) \/ Private!Exit(s)
        PROVE  Kept
    <3>1. CASE Private!Create(s) BY <3>1 DEF Private!Create
    <3>2. CASE Private!Map(s) BY <2>2, <3>2 DEF Private!Map
    <3>3. CASE Private!Unmap(s) BY <2>2, <3>3 DEF Private!Unmap
    <3>4. CASE Private!Exit(s) BY <2>2, <3>4 DEF Private!Exit
    <3> QED BY <2>4, <3>1, <3>2, <3>3, <3>4
  <2>5. ASSUME NEW s \in Spaces, NEW d \in Spaces, Private!Fork(s, d) PROVE Kept
    BY <2>2, <2>5 DEF Private!Fork
  <2> HIDE DEF Kept, Tab
  <2>6. \/ live' = live /\ seen' = seen
        \/ \E s \in Spaces : Private!Create(s) \/ Private!Map(s) \/ Private!Unmap(s) \/ Private!Exit(s)
        \/ \E s, d \in Spaces : Private!Fork(s, d)
        \/ Tab' = Tab
    BY MemoryStep DEF Tab
  <2> QED BY <2>1, <2>3, <2>4, <2>5, <2>6
<1> QED BY <1>1, <1>2, PTL DEF Spec, FaultsAreInvisible

\* Breaking a page whose frame another page is on gives it another frame
\* (BreakGivesPrivateFrame), unless a frame of count zero was forked.
THEOREM BreaksArePrivate ==
  ASSUME "refork" \notin Situations
  PROVE  Spec => BreakGivesPrivateFrame
<1> DEFINE Broken == \A s \in Spaces, v \in Pages :
                        ~wbit[s][v] /\ wbit'[s][v] /\ frame[s][v] \in Frames /\ mappers(frame[s][v]) # {<<s, v>>}
                           => frame'[s][v] # frame[s][v]
<1>1. Init => MemorySound BY MemoryInit
<1>2. MemorySound /\ [Next]_vars => MemorySound' /\ [Broken]_vars
  <2> SUFFICES ASSUME MemorySound, [Next]_vars PROVE MemorySound' /\ Broken OBVIOUS
  <2>1. MemorySound' BY MemoryStep
  <2>2. WritableIsPrivate' /\ TypeOK /\ Tables BY <2>1 DEF MemorySound, CowSound
  <2> SUFFICES ASSUME NEW s \in Spaces,
                      NEW v \in Pages, ~ wbit[s][v], wbit'[s][v], frame[s][v] \in Frames,
                      frame'[s][v] = frame[s][v]
               PROVE  mappers(frame[s][v]) = {<<s, v>>}
    BY <2>1
  <2>3. frame[s][v] # Backbuffer /\ frame[s][v] # NULL BY FramesAssumption DEF AllFrames
  <2>4. {e \in Spaces \X Pages : frame'[e[1]][e[2]] = frame'[s][v]} = {<<s, v>>}
    BY <2>2, <2>3 DEF WritableIsPrivate, mappers
  <2>5. CASE frame' = frame BY <2>4, <2>5 DEF mappers
  <2>6. CASE \E u \in Spaces, x \in Pages : cow_page_fault_handler(u, x)
    <3>1. PICK u \in Spaces, x \in Pages : cow_page_fault_handler(u, x) BY <2>6
    <3>2. CASE cow_in_place(u, x)
      <4>1. frame' = frame BY <2>2, <3>2 DEF cow_in_place, cow_broken, TypeOK
      <4> QED BY <2>5, <4>1
    <3>3. CASE cow_copy(u, x)
      <4>1. PICK g \in Frames \ used : cow_broken(u, x, g) BY <3>3 DEF cow_copy
      <4>2. u = s /\ x = v /\ frame'[s][v] = g BY <2>2, <4>1 DEF cow_broken, TypeOK
      <4>3. Counted(g)
        BY <3>1, CountsAre DEF MemorySound, CowSound, cow_page_fault_handler, writes, up
      <4>4. mappers(g) = {} BY <4>3 DEF Counted
      <4>5. <<s, v>> \in mappers(g) BY <4>2 DEF mappers
      <4> QED BY <4>4, <4>5
    <3> QED BY <2>5, <3>1, <3>2, <3>3 DEF cow_page_fault_handler, vmm_cow_break, cow_panic
  <2>7. CASE \E u \in Spaces, b \in Pages, n \in 1 .. REGION_PAGES, w \in BOOLEAN : vmm_space_alloc(u, b, n, w)
    <3>1. PICK u \in Spaces, b \in Pages, n \in 1 .. REGION_PAGES, w \in BOOLEAN : vmm_space_alloc(u, b, n, w)
      BY <2>7
    <3>2. PICK g \in [b .. b + n - 1 -> Frames \ used] :
             wbit' = [wbit EXCEPT ![u] = [x \in Pages |-> IF x \in DOMAIN g THEN w ELSE wbit[u][x]]]
      BY <2>2, <3>1 DEF vmm_space_alloc, TypeOK
    <3>3. u = s /\ v \in b .. b + n - 1 BY <2>2, <3>2 DEF TypeOK
    <3>4. frame[s][v] = NULL BY <2>2, <3>1, <3>3, AllocOwns
    <3> QED BY <2>3, <3>4
  <2>8. CASE \E u \in Spaces : vmm_map_phys(u)
    <3>1. PICK u \in Spaces : vmm_map_phys(u) BY <2>8
    <3>2. FB_MAP_VADDR \in Pages BY PagesAssumption
    <3>3. u = s /\ v = FB_MAP_VADDR BY <2>2, <3>1, <3>2 DEF vmm_map_phys, TypeOK
    <3>4. frame'[s][v] = Backbuffer BY <2>2, <3>1, <3>3 DEF vmm_map_phys, TypeOK
    <3> QED BY <2>3, <3>4
  <2>9. CASE \A x \in Pages, u \in Spaces : wbit'[u][x] => wbit[u][x] BY <2>9
  <2>10. CASE Next
    <3>1. CASE halted BY <2>5, <3>1 DEF halted, vars
    <3>2. ASSUME NEW u \in Spaces, vmm_space_create(u) \/ vmm_space_destroy(u)
          PROVE \A x \in Pages, y \in Spaces : wbit'[y][x] => wbit[y][x]
      <4>1. wbit' = wbit \/ wbit' = [wbit EXCEPT ![u] = no_bits]
        BY <3>2 DEF vmm_space_create, vmm_space_destroy
      <4>2. wbit \in [Spaces -> [Pages -> BOOLEAN]] BY <2>2 DEF TypeOK
      <4>3. \A y \in Spaces : wbit'[y] = wbit[y] \/ wbit'[y] = no_bits BY <4>1, <4>2
      <4> QED BY <4>3 DEF no_bits
    <3>3. ASSUME NEW u \in Spaces, NEW b \in Pages,
                 NEW n \in 1 .. REGION_PAGES, vmm_space_alloc_fails(u, b, n)
          PROVE frame' = frame
      BY <3>3 DEF vmm_space_alloc_fails
    <3>4. ASSUME NEW u \in Spaces, NEW i \in Pages, vmm_space_free(u, i)
          PROVE \A x \in Pages, y \in Spaces : wbit'[y][x] => wbit[y][x]
      <4> DEFINE Gone == freed(regions[u][i])
      <4>1. wbit' = [wbit EXCEPT ![u] = [x \in Pages |-> IF x \in Gone THEN FALSE ELSE wbit[u][x]]]
        BY <2>2, <3>4 DEF vmm_space_free, TypeOK
      <4> HIDE DEF Gone
      <4> QED BY <2>2, <4>1 DEF TypeOK
    <3>5. ASSUME NEW u \in Spaces, NEW i \in Pages, vmm_clone_space_fails(u, i)
          PROVE frame' = frame
      BY <3>5 DEF vmm_clone_space_fails
    <3>6. ASSUME NEW u \in Spaces, NEW d \in Spaces, vmm_clone_space(u, d)
          PROVE \A x \in Pages, y \in Spaces : wbit'[y][x] => wbit[y][x]
      <4>1. wbit' = [[wbit EXCEPT ![u] = no_bits] EXCEPT ![d] = no_bits]
        BY <3>6 DEF vmm_clone_space, bits_shared
      <4>2. wbit \in [Spaces -> [Pages -> BOOLEAN]] BY <2>2 DEF TypeOK
      <4>3. \A y \in Spaces : wbit'[y] = IF y \in {u, d} THEN no_bits ELSE wbit[y] BY <4>1, <4>2
      <4> QED BY <4>3 DEF no_bits
    <3>7. ASSUME NEW u \in Spaces, NEW x \in Pages, NEW val \in Values, store(u, x, val)
          PROVE frame' = frame
      BY <3>7 DEF store
    <3> QED
      BY <2>10, <2>5, <2>6, <2>7, <2>8, <2>9, <3>1, <3>2, <3>3, <3>4, <3>5, <3>6, <3>7 DEF Next
  <2> QED BY <2>5, <2>10 DEF vars
<1> QED BY <1>1, <1>2, PTL DEF Spec, BreakGivesPrivateFrame

-----------------------------------------------------------------------------
(* Write access.                                                           *)

\* Page v lies in a region of rs that is copy-on-write, or that has a page with
\* its writable bit set.
WriteAt(rs, bits, v) ==
    \E r \in Listed(rs) : v \in covers(r) /\ (r.cow \/ \E u \in Pages : u \in covers(r) /\ bits[u])

Writable == \A s \in Spaces : \A v \in wants[s] : WriteAt(regions[s], wbit[s], v)

WriteSound == TypeOK /\ Tables /\ Writable

\* The same, region by region.
LEMMA WriteAtIndex ==
  ASSUME NEW rs, NEW bits, NEW v
  PROVE  WriteAt(rs, bits, v) <=>
           \E j \in 1 .. Len(rs) : /\ v \in covers(rs[j])
                                   /\ rs[j].cow \/ \E u \in Pages : u \in covers(rs[j]) /\ bits[u]
  BY DEF WriteAt, Listed

\* A new region, writable where its pages are wanted for writing.
LEMMA InsertWrite ==
  ASSUME TypeOK, Tables, Writable,
         NEW s \in Spaces, NEW r \in Region, NEW P \in SUBSET Pages, P \subseteq covers(r),
         \A i \in 1 .. Len(regions[s]) : covers(regions[s][i]) \cap covers(r) = {},
         regions' = [regions EXCEPT ![s] = insert(regions[s], r)],
         wants' = [wants EXCEPT ![s] = wants[s] \cup P],
         \A v \in P : wbit'[s][v],
         \A u \in Spaces, v \in Pages : ~ (u = s /\ v \in covers(r)) => wbit'[u][v] = wbit[u][v]
  PROVE  Writable'
<1>1. regions[s] \in Seq(Region) /\ Sorted(regions[s]) BY DEF TypeOK, Tables
<1>2. Listed(insert(regions[s], r)) = Listed(regions[s]) \cup {r} BY <1>1, InsertSorted
<1>3. \A p \in Listed(regions[s]) : covers(p) \cap covers(r) = {} BY DEF Listed
<1>4. /\ \A u \in Spaces : Listed(regions'[u]) = IF u = s THEN Listed(regions[s]) \cup {r} ELSE Listed(regions[u])
      /\ \A u \in Spaces : wants'[u] = IF u = s THEN wants[s] \cup P ELSE wants[u]
  BY <1>2 DEF TypeOK
<1>5. ASSUME NEW u \in Spaces, NEW v \in wants'[u] PROVE WriteAt(regions'[u], wbit'[u], v)
  <2>1. CASE u = s /\ v \in P
    <3>1. r \in Listed(regions'[u]) /\ v \in covers(r) /\ v \in Pages /\ wbit'[u][v] BY <2>1, <1>4
    <3> QED BY <3>1 DEF WriteAt
  <2>2. CASE ~ (u = s /\ v \in P)
    <3>1. v \in wants[u] BY <2>2, <1>4, <1>5
    <3>2. PICK p \in Listed(regions[u]) :
            v \in covers(p) /\ (p.cow \/ \E x \in Pages : x \in covers(p) /\ wbit[u][x])
      BY <3>1 DEF Writable, WriteAt
    <3>3. p \in Listed(regions'[u]) BY <1>4
    <3>4. ASSUME NEW x \in Pages, x \in covers(p), wbit[u][x] PROVE wbit'[u][x]
      BY <3>4, <1>3
    <3> QED BY <3>2, <3>3, <3>4 DEF WriteAt
  <2> QED BY <2>1, <2>2
<1> QED BY <1>5 DEF Writable

\* vmm_space_alloc keeps the write access of every region.
LEMMA AllocWrite ==
  ASSUME WriteSound, NEW s \in Spaces, NEW b \in Pages,
         NEW n \in 1 .. REGION_PAGES, NEW w \in BOOLEAN,
         vmm_space_alloc(s, b, n, w)
  PROVE  Writable'
<1> DEFINE r == [base |-> b, size |-> n, write |-> w, cow |-> FALSE, mmio |-> FALSE]
           P == IF w THEN b .. b + n - 1 ELSE {}
<1>1. r \in Region /\ b .. b + n - 1 \subseteq Pages /\ covers(r) = b .. b + n - 1
  BY PagesAssumption DEF vmm_space_alloc, is_vaddr_range_free, Region, Pages, covers
<1>2. \A i \in 1 .. Len(regions[s]) : covers(regions[s][i]) \cap covers(r) = {}
  BY <1>1 DEF vmm_space_alloc, is_vaddr_range_free
<1>3. regions' = [regions EXCEPT ![s] = insert(regions[s], r)]
  BY DEF vmm_space_alloc, TypeOK, WriteSound
<1>4. wants' = [wants EXCEPT ![s] = wants[s] \cup P] BY DEF vmm_space_alloc, TypeOK, WriteSound
<1>5. P \in SUBSET Pages /\ P \subseteq covers(r) /\ (P # {} => w) BY <1>1
<1> HIDE DEF r, P
<1>6. \A u \in Spaces, v \in Pages : wbit'[u][v] = IF u = s /\ v \in covers(r) THEN w ELSE wbit[u][v]
  <2>1. PICK g \in [b .. b + n - 1 -> Frames \ used] :
          wbit' = [wbit EXCEPT ![s] = [v \in Pages |-> IF v \in DOMAIN g THEN w ELSE wbit[s][v]]]
    BY DEF vmm_space_alloc, TypeOK, WriteSound
  <2>2. DOMAIN g = covers(r) BY <1>1
  <2> QED BY <2>1, <2>2 DEF TypeOK, WriteSound
<1>7. TypeOK /\ Tables /\ Writable BY DEF WriteSound
<1>8. \A v \in P : wbit'[s][v] BY <1>5, <1>6
<1>9. \A u \in Spaces, v \in Pages : ~ (u = s /\ v \in covers(r)) => wbit'[u][v] = wbit[u][v]
  BY <1>6
<1> QED BY <1>1, <1>2, <1>3, <1>4, <1>5, <1>7, <1>8, <1>9, InsertWrite

\* vmm_map_phys keeps the write access of every region.
LEMMA MapPhysWrite ==
  ASSUME WriteSound, NEW s \in Spaces, vmm_map_phys(s)
  PROVE  Writable'
<1> DEFINE r == [base |-> FB_MAP_VADDR, size |-> 1, write |-> TRUE, cow |-> FALSE, mmio |-> TRUE]
<1>1. r \in Region /\ covers(r) = FB_MAP_VADDR .. FB_MAP_VADDR + 1 - 1 /\ covers(r) = {FB_MAP_VADDR} /\ FB_MAP_VADDR \in Pages
  BY PagesAssumption DEF Region, Pages, covers
<1>2. \A i \in 1 .. Len(regions[s]) : covers(regions[s][i]) \cap covers(r) = {}
  BY <1>1 DEF vmm_map_phys, is_vaddr_range_free
<1>3. regions' = [regions EXCEPT ![s] = insert(regions[s], r)]
  BY DEF vmm_map_phys, TypeOK, WriteSound
<1> HIDE DEF r
<1>4. wants' = [wants EXCEPT ![s] = wants[s] \cup {FB_MAP_VADDR}]
  BY DEF vmm_map_phys, TypeOK, WriteSound
<1>5. \A u \in Spaces, v \in Pages : wbit'[u][v] = IF u = s /\ v = FB_MAP_VADDR THEN TRUE ELSE wbit[u][v]
  BY <1>1 DEF vmm_map_phys, TypeOK, WriteSound
<1>6. TypeOK /\ Tables /\ Writable BY DEF WriteSound
<1> DEFINE P == {FB_MAP_VADDR}
<1>7. P \in SUBSET Pages /\ P \subseteq covers(r) /\ wants' = [wants EXCEPT ![s] = wants[s] \cup P]
  BY <1>1, <1>4
<1>8. \A v \in P : wbit'[s][v] BY <1>1, <1>5
<1>9. \A u \in Spaces, v \in Pages : ~ (u = s /\ v \in covers(r)) => wbit'[u][v] = wbit[u][v]
  BY <1>1, <1>5
<1> HIDE DEF P
<1> QED BY <1>1, <1>2, <1>3, <1>6, <1>7, <1>8, <1>9, InsertWrite

\* vmm_space_free keeps the write access of the other regions: none shares a page
\* with the one that goes.
LEMMA FreeWrite ==
  ASSUME WriteSound, NEW s \in Spaces, NEW i \in Pages, vmm_space_free(s, i)
  PROVE  Writable'
<1> DEFINE rs == regions[s] q == SubSeq(rs, 1, i - 1) \o SubSeq(rs, i + 1, Len(rs))
<1>1. rs \in Seq(Region) /\ Sorted(rs) /\ i \in 1 .. Len(rs)
  BY DEF TypeOK, Tables, vmm_space_free, WriteSound
<1>2. /\ \A u \in Spaces : regions'[u] = IF u = s THEN q ELSE regions[u]
      /\ \A u \in Spaces : wants'[u] = IF u = s THEN wants[s] \ covers(rs[i]) ELSE wants[u]
      /\ \A x \in Pages : wbit'[s][x] = IF x \in covers(rs[i]) THEN FALSE ELSE wbit[s][x]
      /\ \A u \in Spaces : u # s => wbit'[u] = wbit[u]
  BY DEF vmm_space_free, TypeOK, freed, WriteSound
<1>3. \A v \in wants[s] : WriteAt(rs, wbit[s], v) BY DEF WriteSound, Writable
<1> HIDE DEF rs
<1>4. Listed(q) = Listed(rs) \ {rs[i]} BY <1>1, RemoveSorted
<1> HIDE DEF q
<1>5. ASSUME NEW v \in wants'[s] PROVE WriteAt(q, wbit'[s], v)
  <2>1. v \in wants[s] /\ v \notin covers(rs[i]) BY <1>2, <1>5
  <2>2. PICK j \in 1 .. Len(rs) : /\ v \in covers(rs[j])
                                  /\ rs[j].cow \/ \E x \in Pages : x \in covers(rs[j]) /\ wbit[s][x]
    BY <1>3, <2>1, WriteAtIndex
  <2>3. rs[j] # rs[i] /\ j # i BY <2>1, <2>2
  <2>4. rs[j] \in Listed(q) BY <1>4, <2>3 DEF Listed
  <2>5. ASSUME NEW x \in Pages, x \in covers(rs[j]), wbit[s][x] PROVE wbit'[s][x]
    <3>1. x \notin covers(rs[i]) BY <1>1, <2>3, <2>5, Apart
    <3> QED BY <3>1, <2>5, <1>2
  <2> QED BY <2>2, <2>4, <2>5 DEF WriteAt
<1>6. \A u \in Spaces : u # s => \A v \in wants'[u] : WriteAt(regions'[u], wbit'[u], v)
  BY <1>2 DEF WriteSound, Writable
<1> QED BY <1>2, <1>5, <1>6 DEF Writable

\* vmm_space_destroy leaves the other spaces alone.
LEMMA DestroyWrite ==
  ASSUME WriteSound, NEW s \in Spaces, vmm_space_destroy(s)
  PROVE  Writable'
<1>1. /\ wants'[s] = {}
      /\ \A u \in Spaces : u # s => regions'[u] = regions[u] /\ wants'[u] = wants[u] /\ wbit'[u] = wbit[u]
  BY DEF vmm_space_destroy, WriteSound, TypeOK
<1> QED BY <1>1 DEF WriteSound, Writable

\* After a fork every wanted page is copy-on-write, in both spaces.
LEMMA CloneWrite ==
  ASSUME WriteSound, NEW s \in Spaces, NEW d \in Spaces, vmm_clone_space(s, d)
  PROVE  Writable'
<1> DEFINE q == regions[s] c == [i \in 1 .. Len(q) |-> as_cow(q[i])]
<1>1. q \in Seq(Region) /\ s # d
  BY DEF TypeOK, vmm_clone_space, may_fork, up, WriteSound
<1>2. \A u \in Spaces : /\ regions'[u] = IF u \in {s, d} THEN c ELSE regions[u]
                        /\ wants'[u] = IF u = d THEN wants[s] ELSE wants[u]
                        /\ u \notin {s, d} => wbit'[u] = wbit[u]
  BY <1>1 DEF vmm_clone_space, TypeOK, WriteSound
<1>3. \A v \in wants[s] : WriteAt(q, wbit[s], v) BY DEF WriteSound, Writable
<1> HIDE DEF q
<1>4. \A i \in 1 .. Len(q) : q[i] \in Region BY <1>1
<1>5. c \in [1 .. Len(q) -> Region] BY <1>4, AsCow
<1>6. Len(c) = Len(q) BY <1>1, <1>5, Mapped
<1>7. \A i \in 1 .. Len(q) : covers(c[i]) = covers(q[i]) /\ c[i].cow BY <1>4, AsCow
<1> HIDE DEF c
<1>8. ASSUME NEW v \in wants[s], NEW bits PROVE WriteAt(c, bits, v)
  <2>1. PICK j \in 1 .. Len(q) : v \in covers(q[j]) BY <1>3, <1>8, WriteAtIndex
  <2> QED BY <2>1, <1>6, <1>7, WriteAtIndex
<1>9. ASSUME NEW u \in Spaces, NEW v \in wants'[u] PROVE WriteAt(regions'[u], wbit'[u], v)
  <2>1. CASE u \in {s, d} BY <2>1, <1>2, <1>8, <1>9
  <2>2. CASE u \notin {s, d} BY <2>2, <1>2, <1>9 DEF WriteSound, Writable
  <2> QED BY <2>1, <2>2
<1> QED BY <1>9 DEF Writable

\* A clone that fails has made copy-on-write whatever it made read-only.
LEMMA CloneFailsWrite ==
  ASSUME WriteSound, NEW s \in Spaces, NEW k \in Pages, vmm_clone_space_fails(s, k)
  PROVE  Writable'
<1> DEFINE q == regions[s] c == [i \in 1 .. Len(q) |-> IF i <= k THEN as_cow(q[i]) ELSE q[i]]
<1>1. q \in Seq(Region) /\ Sorted(q) BY DEF WriteSound, TypeOK, Tables
<1>2. \A u \in Spaces : /\ regions'[u] = IF u = s THEN c ELSE regions[u]
                        /\ wants'[u] = wants[u]
                        /\ u # s => wbit'[u] = wbit[u]
  BY DEF vmm_clone_space_fails, TypeOK, WriteSound
<1>3. /\ k \in 1 .. Len(q) - 1
      /\ \A v \in Pages : wbit'[s][v] = (wbit[s][v] /\ ~ \E i \in 1 .. k : v \in covers(q[i]))
  <2> DEFINE back == owned(s, 1 .. k)
             kept == {v \in Pages \ back : \E i \in 1 .. k : v \in covers(regions[s][i])}
  <2>1. wbit' = [wbit EXCEPT ![s] = [v \in Pages |-> @[v] /\ v \notin back \cup kept]] /\ k \in 1 .. Len(q) - 1
    BY DEF vmm_clone_space_fails
  <2>2. \A v \in Pages : v \in back \cup kept <=> \E i \in 1 .. k : v \in covers(q[i])
    BY DEF owned
  <2> HIDE DEF back, kept
  <2> QED BY <2>1, <2>2 DEF WriteSound, TypeOK
<1>4. \A v \in wants[s] : WriteAt(q, wbit[s], v) BY DEF WriteSound, Writable
<1> HIDE DEF q
<1>5. \A i \in 1 .. Len(q) : q[i] \in Region BY <1>1
<1>6. c \in [1 .. Len(q) -> Region] BY <1>5, AsCow
<1>7. Len(c) = Len(q) BY <1>1, <1>6, Mapped
<1>8. \A i \in 1 .. Len(q) : covers(c[i]) = covers(q[i]) /\ (IF i <= k THEN c[i].cow ELSE c[i] = q[i])
  BY <1>5, AsCow
<1> HIDE DEF c
<1>9. ASSUME NEW v \in wants[s] PROVE WriteAt(c, wbit'[s], v)
  <2>1. PICK j \in 1 .. Len(q) : /\ v \in covers(q[j])
                                 /\ q[j].cow \/ \E x \in Pages : x \in covers(q[j]) /\ wbit[s][x]
    BY <1>4, <1>9, WriteAtIndex
  <2>2. CASE j <= k BY <2>1, <2>2, <1>7, <1>8, WriteAtIndex
  <2>3. CASE ~ (j <= k)
    <3>1. c[j] = q[j] BY <2>3, <1>8
    <3>2. ASSUME NEW x \in Pages, x \in covers(q[j]), wbit[s][x] PROVE wbit'[s][x]
      <4>1. ASSUME NEW i \in 1 .. k, x \in covers(q[i]) PROVE FALSE
        <5>1. i \in 1 .. Len(q) /\ i # j BY <1>1, <1>3, <2>3
        <5> QED BY <1>1, <4>1, <5>1, <3>2, Apart
      <4> QED BY <4>1, <3>2, <1>3
    <3> QED BY <2>1, <3>1, <3>2, <1>7, WriteAtIndex
  <2> QED BY <2>2, <2>3
<1>10. \A u \in Spaces : u # s => \A v \in wants'[u] : WriteAt(regions'[u], wbit'[u], v)
  BY <1>2 DEF WriteSound, Writable
<1> QED BY <1>2, <1>9, <1>10 DEF Writable

\* vmm_cow_break ends copy-on-write for a region and makes a page of it writable.
LEMMA BrokenWrite ==
  ASSUME WriteSound, NEW s \in Spaces, NEW v \in Pages,
         NEW f, cow_broken(s, v, f), wants' = wants
  PROVE  Writable'
<1> DEFINE q == regions[s] i == vmm_space_find(s, v) r == [q[i] EXCEPT !.cow = FALSE, !.write = TRUE]
           c == [q EXCEPT ![i] = r]
<1>1. q \in Seq(Region) /\ Sorted(q) BY DEF WriteSound, TypeOK, Tables
<1>2. /\ \A u \in Spaces : regions'[u] = IF u = s THEN c ELSE regions[u]
      /\ \A x \in Pages : wbit'[s][x] = IF x = v THEN TRUE ELSE wbit[s][x]
      /\ \A u \in Spaces : u # s => wbit'[u] = wbit[u]
  BY DEF cow_broken, TypeOK, WriteSound
<1>3. i \in 1 .. Len(q) => v \in covers(q[i])
  <2>1. vmm_space_find(s, v) # 0 <=> Covered(regions[s], v) BY <1>1, FindSorted
  <2>2. \A j \in 1 .. Len(regions[s]) : v \in covers(regions[s][j]) => vmm_space_find(s, v) = j
    BY <1>1, FindSorted
  <2>3. i \in 1 .. Len(q) => \E j \in 1 .. Len(q) : v \in covers(q[j])
    BY <2>1 DEF Covered, Listed
  <2> QED BY <2>2, <2>3
<1>4. \A x \in wants[s] : WriteAt(q, wbit[s], x) BY DEF WriteSound, Writable
<1> HIDE DEF q, i
<1>5. i \in 1 .. Len(q) => q[i] \in Region BY <1>1
<1>6. i \in 1 .. Len(q) => r \in Region /\ r.base = q[i].base /\ r.size = q[i].size
  BY <1>5 DEF Region
<1> HIDE DEF r
<1>7. c \in Seq(Region) /\ Len(c) = Len(q) /\ \A j \in 1 .. Len(q) : c[j] = IF j = i THEN r ELSE q[j]
  BY <1>1, <1>6, Changed
<1> HIDE DEF c
<1>8. \A j \in 1 .. Len(q) : covers(c[j]) = covers(q[j])
  BY <1>6, <1>7 DEF covers
<1>9. ASSUME NEW x \in wants[s] PROVE WriteAt(c, wbit'[s], x)
  <2>1. PICK j \in 1 .. Len(q) : /\ x \in covers(q[j])
                                 /\ q[j].cow \/ \E u \in Pages : u \in covers(q[j]) /\ wbit[s][u]
    BY <1>4, <1>9, WriteAtIndex
  <2>2. CASE j = i
    <3>1. v \in covers(c[j]) /\ wbit'[s][v] BY <2>1, <2>2, <1>2, <1>3, <1>8
    <3> QED BY <3>1, <2>1, <1>7, <1>8, WriteAtIndex
  <2>3. CASE j # i
    <3>1. c[j] = q[j] BY <2>3, <1>7
    <3>2. \A u \in Pages : wbit[s][u] => wbit'[s][u] BY <1>2
    <3> QED BY <2>1, <3>1, <3>2, <1>7, WriteAtIndex
  <2> QED BY <2>2, <2>3
<1>10. \A u \in Spaces : u # s => \A x \in wants'[u] : WriteAt(regions'[u], wbit'[u], x)
  BY <1>2 DEF WriteSound, Writable
<1> QED BY <1>2, <1>9, <1>10 DEF Writable

\* Every step keeps the write access of every region.
LEMMA WriteStep ==
  ASSUME WriteSound, [Next]_vars
  PROVE  WriteSound'
<1> DEFINE Goal == Writable'
<1>1. TypeOK' /\ Tables' BY TypeStep, TablesStep DEF WriteSound
<1>2. ASSUME regions' = regions, wants' = wants, wbit' = wbit PROVE Goal
  BY <1>2 DEF WriteSound, Writable
<1>3. ASSUME UNCHANGED vars PROVE Goal BY <1>2, <1>3 DEF vars
<1>4. ASSUME NEW s \in Spaces, vmm_space_create(s) \/ vmm_space_destroy(s) \/ vmm_map_phys(s)
      PROVE Goal
  <2>1. CASE vmm_space_create(s) BY <1>2, <2>1 DEF vmm_space_create
  <2> QED BY <1>4, <2>1, DestroyWrite, MapPhysWrite
<1>5. ASSUME NEW s \in Spaces, NEW b \in Pages, NEW n \in 1 .. REGION_PAGES,
             (\E w \in BOOLEAN : vmm_space_alloc(s, b, n, w)) \/ vmm_space_alloc_fails(s, b, n)
               PROVE Goal
  <2>1. CASE vmm_space_alloc_fails(s, b, n) BY <1>2, <2>1 DEF vmm_space_alloc_fails
  <2> QED BY <1>5, <2>1, AllocWrite
<1>6. ASSUME NEW s \in Spaces,
             NEW i \in Pages, vmm_space_free(s, i) \/ vmm_clone_space_fails(s, i)
      PROVE Goal
  BY <1>6, FreeWrite, CloneFailsWrite
<1>7. ASSUME NEW s \in Spaces, NEW d \in Spaces, vmm_clone_space(s, d) PROVE Goal
  BY <1>7, CloneWrite
<1>8. ASSUME NEW s \in Spaces, NEW v \in Pages,
             cow_page_fault_handler(s, v) \/ \E val \in Values : store(s, v, val) PROVE Goal
  <2>1. ASSUME NEW val \in Values, store(s, v, val) PROVE Goal BY <1>2, <2>1 DEF store
  <2>2. CASE cow_page_fault_handler(s, v)
    <3>0. wants' = wants BY <2>2 DEF cow_page_fault_handler
    <3>1. CASE cow_in_place(s, v) BY <3>0, <3>1, BrokenWrite DEF cow_in_place
    <3>2. CASE cow_copy(s, v) BY <3>0, <3>2, BrokenWrite DEF cow_copy
    <3>3. CASE regions' = regions /\ wbit' = wbit BY <3>0, <3>3, <1>2
    <3> QED BY <2>2, <3>1, <3>2, <3>3 DEF cow_page_fault_handler, vmm_cow_break, cow_panic
  <2> QED BY <1>8, <2>1, <2>2
<1>9. Goal
  <2> HIDE DEF Goal
  <2>1. CASE halted
    <3>1. UNCHANGED vars BY <2>1 DEF halted
    <3> QED BY <1>3, <3>1
  <2>2. CASE Next /\ ~ halted
    BY <2>2, <1>4, <1>5, <1>6, <1>7, <1>8 DEF Next
  <2> QED BY <2>1, <2>2, <1>3
<1> QED BY <1>1, <1>9 DEF WriteSound

\* No page is wanted at boot.
LEMMA WriteInit == Init => WriteSound
<1> SUFFICES ASSUME Init PROVE WriteSound OBVIOUS
<1>1. TypeOK /\ Tables BY TypeInit, TablesInit
<1>2. \A s \in Spaces : wants[s] = {} BY DEF Init
<1> QED BY <1>1, <1>2 DEF WriteSound, Writable

\* However long its regions and in every situation, a program can write to a page
\* it mapped for writing or a fault on it is seen to, until it has written to
\* another page of the same region after a fork (RegionStaysWritable): neither
\* fork, nor a fork that fails half way, nor the faults of others take write
\* access away.
THEOREM RegionsStayWritable == Spec => []RegionStaysWritable
<1>1. Init => WriteSound BY WriteInit
<1>2. WriteSound /\ [Next]_vars => WriteSound' BY WriteStep
<1>3. WriteSound => RegionStaysWritable
  <2> SUFFICES ASSUME WriteSound, NEW s \in Spaces, NEW v \in wants[s]
               PROVE  \/ is_cow(s, v)
                      \/ \E u \in Pages : wbit[s][u] /\ vmm_space_find(s, u) = vmm_space_find(s, v)
    BY DEF RegionStaysWritable
  <2>1. v \in Pages /\ regions[s] \in Seq(Region) /\ Sorted(regions[s])
    BY DEF WriteSound, TypeOK, Tables
  <2>2. PICK j \in 1 .. Len(regions[s]) :
          /\ v \in covers(regions[s][j])
          /\ regions[s][j].cow \/ \E u \in Pages : u \in covers(regions[s][j]) /\ wbit[s][u]
    BY WriteAtIndex DEF WriteSound, Writable
  <2>3. vmm_space_find(s, v) = j /\ j # 0 BY <2>1, <2>2, FindSorted
  <2>4. \A u \in Pages : u \in covers(regions[s][j]) => vmm_space_find(s, u) = j
    BY <2>1, FindSorted
  <2> QED BY <2>2, <2>3, <2>4 DEF is_cow
<1> QED BY <1>1, <1>2, <1>3, PTL DEF Spec

-----------------------------------------------------------------------------
(* Frames come back.                                                       *)

\* No used frame is lost: page tables still hold it, as often as it is counted.
NoneLost == ~ panicked => \A f \in Frames : f \in used =>
               mappers(f) # {} /\ rc[f] <= Cardinality(mappers(f))

\* Pages that belong to no region but the framebuffer's are on the backbuffer.
MmioOnBackbuffer == \A s \in Spaces, v \in Pages :
    frame[s][v] # NULL /\ ~ Owns(regions[s], v) => frame[s][v] = Backbuffer

\* The framebuffer is never copy-on-write.
MmioNotCow == \A s \in Spaces : \A r \in Listed(regions[s]) : r.mmio => ~ r.cow

\* A space that does not exist has no page.
DeadIsEmpty == \A s \in Spaces : s \notin live => \A v \in Pages : frame[s][v] = NULL

ReturnSound ==
    /\ MemorySound /\ NoneLost /\ MmioOnBackbuffer /\ MmioNotCow /\ DeadIsEmpty
    /\ Backbuffer \in used /\ (panicked => live # {})

\* What NoneLost says of one frame.
Held(f) == f \in used => mappers(f) # {} /\ rc[f] <= Cardinality(mappers(f))

\* NoneLost, frame by frame.
LEMMA HeldAll == NoneLost <=> (~ panicked => \A f \in Frames : Held(f))
  BY DEF NoneLost, Held

\* The same after the step.
LEMMA HeldAllNext == NoneLost' <=> (~ panicked' => \A f \in Frames : Held(f)')
  BY DEF NoneLost, Held

\* A frame whose entries and count do not change.
LEMMA StaysHeld ==
  ASSUME NEW CONSTANT f, Held(f), f \in used' => f \in used, rc'[f] = rc[f],
         \A u \in Spaces, v \in Pages : frame'[u][v] = f <=> frame[u][v] = f
  PROVE  Held(f)'
<1>1. mappers(f)' = mappers(f) BY SameMappers
<1> QED BY <1>1 DEF Held

\* vmm_space_free and vmm_space_destroy: the entries that go are the counted ones.
LEMMA ReleaseHeld ==
  ASSUME TypeOK, NEW CONSTANT f \in Frames, Held(f), NEW CONSTANT s \in Spaces,
         NEW vs \in SUBSET Pages, release(s, vs),
         \A v \in vs : frame'[s][v] = NULL,
         \A u \in Spaces, v \in Pages : frame'[u][v] \in {frame[u][v], NULL},
         \A u \in Spaces, v \in Pages : frame[u][v] = f => frame'[u][v] = f \/ (u = s /\ v \in vs)
  PROVE  Held(f)'
<1> DEFINE D == {v \in vs : frame[s][v] = f} n == drops(s, vs, f)
           m == Cardinality(mappers(f)) k == Cardinality(mappers(f)')
<1>1. f # NULL /\ f \in AllFrames BY FramesAssumption DEF AllFrames
<1>2. n = Cardinality(D) /\ n \in Nat
  <2>1. n = Cardinality(D) BY DEF drops
  <2>2. n \in Nat BY DropsNat
  <2> QED BY <2>1, <2>2
<1>3. rc[f] \in Nat BY <1>1 DEF TypeOK
<1>4. rc'[f] = rc_after(n, f) /\ (f \in used' <=> f \in used /\ (n = 0 \/ rc'[f] # 0))
  BY <1>1 DEF release
<1>5. k = m - n
  <2>1. D \in SUBSET Pages OBVIOUS
  <2>2. \A v \in D : frame[s][v] = f /\ frame'[s][v] # f BY <1>1
  <2>3. \A u \in Spaces, v \in Pages : frame'[u][v] = f => frame[u][v] = f BY <1>1
  <2>4. \A u \in Spaces, v \in Pages : frame[u][v] = f => frame'[u][v] = f \/ (u = s /\ v \in D) OBVIOUS
  <2>5. Cardinality(maps(frame', f)) = Cardinality(maps(frame, f)) - Cardinality(D)
    <3> HIDE DEF D
    <3>1. Lost(frame, frame', f, s, D) BY <2>2, <2>3, <2>4 DEF Lost
    <3> QED BY <2>1, <3>1, ClearedExactly
  <2> QED BY <1>2, <2>5, MappersAre, MappersAreNext
<1>6. k \in Nat /\ m \in Nat BY MappersAre, MappersAreNext
<1>7. f \in used => m # 0 /\ rc[f] <= m BY NoneMapped DEF Held
<1>8. k # 0 => mappers(f)' # {} BY MappersAreNext, FS_EmptySet
<1> HIDE DEF D, n, m, k
<1>9. f \in used' => k # 0 /\ rc'[f] <= k
  BY <1>2, <1>3, <1>4, <1>5, <1>6, <1>7 DEF rc_after
<1> QED BY <1>8, <1>9 DEF Held, k

\* vmm_space_free loses no frame.
LEMMA FreeHeld ==
  ASSUME ReturnSound, NEW CONSTANT s \in Spaces, NEW CONSTANT i \in Pages, vmm_space_free(s, i)
  PROVE  NoneLost'
<1> DEFINE vs == owned(s, {i})
<1>1. vs \in SUBSET Pages /\ release(s, vs) /\ ~panicked /\ TypeOK /\ Tables /\ i \in 1 .. Len(regions[s])
  BY OwnedPages DEF vmm_space_free, up, ReturnSound, MemorySound, CowSound
<1>2. \A u \in Spaces, v \in Pages :
         frame'[u][v] = IF u = s /\ v \in covers(regions[s][i]) THEN NULL ELSE frame[u][v]
  BY <1>1, FreeOwns
<1>3. \A v \in vs : frame'[s][v] = NULL BY <1>1, <1>2 DEF owned
<1>4. ASSUME NEW v \in Pages, v \in covers(regions[s][i]), v \notin vs
      PROVE frame[s][v] \in {Backbuffer, NULL}
  <2>1. regions[s][i].mmio BY <1>4 DEF owned
  <2>2. ~ Owns(regions[s], v)
    <3>1. SUFFICES ASSUME NEW j \in 1 .. Len(regions[s]), v \in covers(regions[s][j]), ~ regions[s][j].mmio
                   PROVE FALSE
      BY DEF Owns, Listed
    <3>2. i = j
      <4>1. regions[s] \in Seq(Region) /\ Sorted(regions[s]) BY <1>1 DEF TypeOK, Tables
      <4> QED BY <4>1, <1>1, <1>4, <3>1, Apart
    <3> QED BY <2>1, <3>1, <3>2
  <2> QED BY <2>2 DEF ReturnSound, MmioOnBackbuffer
<1> HIDE DEF vs
<1> SUFFICES ASSUME NEW CONSTANT f \in Frames PROVE Held(f)' BY HeldAllNext
<1>5. Held(f) /\ f # Backbuffer /\ f # NULL
  BY <1>1, HeldAll, FramesAssumption DEF ReturnSound, AllFrames
<1>6. \A u \in Spaces, v \in Pages : frame'[u][v] \in {frame[u][v], NULL} BY <1>2
<1>7. \A u \in Spaces, v \in Pages : frame[u][v] = f => frame'[u][v] = f \/ (u = s /\ v \in vs)
  BY <1>2, <1>4, <1>5
<1> QED BY <1>1, <1>3, <1>5, <1>6, <1>7, ReleaseHeld

\* vmm_space_destroy loses no frame.
LEMMA DestroyHeld ==
  ASSUME ReturnSound, NEW CONSTANT s \in Spaces, vmm_space_destroy(s)
  PROVE  NoneLost'
<1> DEFINE vs == owned(s, 1 .. Len(regions[s]))
<1>1. vs \in SUBSET Pages /\ release(s, vs) /\ ~panicked /\ TypeOK
  BY OwnedPages DEF vmm_space_destroy, up, ReturnSound, MemorySound, CowSound
<1>2. \A u \in Spaces, v \in Pages : frame'[u][v] = IF u = s THEN NULL ELSE frame[u][v]
  BY <1>1 DEF vmm_space_destroy, nothing_mapped, TypeOK
<1>3. \A v \in Pages : v \in vs <=> Owns(regions[s], v) BY OwnedIsOwns
<1> HIDE DEF vs
<1> SUFFICES ASSUME NEW CONSTANT f \in Frames PROVE Held(f)' BY HeldAllNext
<1>5. Held(f) /\ f # Backbuffer /\ f # NULL
  BY <1>1, HeldAll, FramesAssumption DEF ReturnSound, AllFrames
<1>6. \A u \in Spaces, v \in Pages : frame'[u][v] \in {frame[u][v], NULL} BY <1>2
<1>7. \A u \in Spaces, v \in Pages : frame[u][v] = f => frame'[u][v] = f \/ (u = s /\ v \in vs)
  BY <1>2, <1>3, <1>5 DEF ReturnSound, MmioOnBackbuffer
<1>8. \A v \in vs : frame'[s][v] = NULL BY <1>1, <1>2
<1> QED BY <1>1, <1>5, <1>6, <1>7, <1>8, ReleaseHeld

\* vmm_space_alloc loses no frame.
LEMMA AllocHeld ==
  ASSUME ReturnSound, NEW CONSTANT s \in Spaces, NEW CONSTANT b \in Pages,
         NEW CONSTANT n \in 1 .. REGION_PAGES,
         NEW CONSTANT w \in BOOLEAN, vmm_space_alloc(s, b, n, w)
  PROVE  NoneLost'
<1> DEFINE new == b .. b + n - 1
<1>1. PICK g \in [new -> Frames \ used] :
          /\ \A v, x \in new : g[v] = g[x] => v = x
          /\ used' = used \cup {g[v] : v \in DOMAIN g}
          /\ rc' = [f \in AllFrames |-> IF \E v \in DOMAIN g : g[v] = f THEN 1 ELSE rc[f]]
          /\ frame' = [frame EXCEPT ![s] = [v \in Pages |-> IF v \in DOMAIN g THEN g[v] ELSE frame[s][v]]]
  BY DEF vmm_space_alloc, ReturnSound, MemorySound, CowSound, TypeOK
<1>2. TypeOK /\ Tables /\ ~ panicked
  BY DEF vmm_space_alloc, up, ReturnSound, MemorySound, CowSound
<1>3. new \subseteq Pages /\ \A v \in new : frame[s][v] = NULL
  <2>1. new \subseteq Pages BY PagesAssumption DEF vmm_space_alloc, is_vaddr_range_free, Pages
  <2>2. \A v \in Pages : v \in new => frame[s][v] = NULL BY <1>2, AllocOwns
  <2> QED BY <2>1, <2>2
<1> HIDE DEF new
<1>4. DOMAIN g = new /\ \A v \in new : g[v] \in Frames /\ g[v] \notin used BY <1>1
<1>5. \A u \in Spaces, v \in Pages : frame'[u][v] = IF u = s /\ v \in new THEN g[v] ELSE frame[u][v]
  BY <1>1, <1>3, <1>4, <1>2 DEF TypeOK
<1> SUFFICES ASSUME NEW CONSTANT f \in Frames PROVE Held(f)' BY HeldAllNext
<1>6. Held(f) /\ f # NULL /\ f \in AllFrames
  BY <1>2, HeldAll, FramesAssumption DEF ReturnSound, AllFrames
<1>7. CASE \E v \in new : g[v] = f
  <2>1. PICK x \in new : g[x] = f BY <1>7
  <2>2. rc'[f] = 1 BY <1>1, <1>4, <1>6, <1>7
  <2>3. <<s, x>> \in mappers(f)' BY <1>3, <1>5, <2>1 DEF mappers
  <2>4. Cardinality(mappers(f)') # 0 /\ Cardinality(mappers(f)') \in Nat
    BY <2>3, MappersAreNext, FS_EmptySet
  <2> QED BY <2>2, <2>3, <2>4 DEF Held
<1>8. CASE ~ \E v \in new : g[v] = f
  <2>1. rc'[f] = rc[f] /\ (f \in used' => f \in used) BY <1>1, <1>4, <1>6, <1>8
  <2>2. \A u \in Spaces, v \in Pages : frame'[u][v] = f <=> frame[u][v] = f
    BY <1>3, <1>5, <1>6, <1>8
  <2> QED BY <1>6, <2>1, <2>2, StaysHeld
<1> QED BY <1>7, <1>8

\* vmm_map_phys loses no frame.
LEMMA MapPhysHeld ==
  ASSUME ReturnSound, NEW CONSTANT s \in Spaces, vmm_map_phys(s)
  PROVE  NoneLost'
<1>1. TypeOK /\ Tables /\ ~ panicked /\ used' = used /\ rc' = rc /\ FB_MAP_VADDR \in Pages
  BY PagesAssumption DEF vmm_map_phys, up, memVars, ReturnSound, MemorySound, CowSound
<1>2. \A u \in Spaces, v \in Pages :
         frame'[u][v] = IF u = s /\ v = FB_MAP_VADDR THEN Backbuffer ELSE frame[u][v]
  BY <1>1, MapPhysOwns
<1>3. frame[s][FB_MAP_VADDR] = NULL
  <2>1. ASSUME Covered(regions[s], FB_MAP_VADDR) PROVE FALSE
    <3>1. PICK i \in 1 .. Len(regions[s]) : FB_MAP_VADDR \in covers(regions[s][i])
      BY <2>1 DEF Covered, Listed
    <3>2. covers(regions[s][i]) \cap (FB_MAP_VADDR .. FB_MAP_VADDR + 1 - 1) = {}
      BY DEF vmm_map_phys, is_vaddr_range_free
    <3>3. FB_MAP_VADDR \in FB_MAP_VADDR .. FB_MAP_VADDR + 1 - 1 BY <1>1 DEF Pages
    <3> QED BY <3>1, <3>2, <3>3
  <2> QED BY <1>1, <2>1 DEF Tables
<1> SUFFICES ASSUME NEW CONSTANT f \in Frames PROVE Held(f)' BY HeldAllNext
<1>4. Held(f) /\ f # Backbuffer /\ f # NULL
  BY <1>1, HeldAll, FramesAssumption DEF ReturnSound, AllFrames
<1>5. \A u \in Spaces, v \in Pages : frame'[u][v] = f <=> frame[u][v] = f BY <1>2, <1>3, <1>4
<1> QED BY <1>1, <1>4, <1>5, StaysHeld

\* vmm_clone_space counts no more entries than it adds, as the clone was empty.
LEMMA CloneHeld ==
  ASSUME ReturnSound, NEW CONSTANT s \in Spaces,
         NEW CONSTANT d \in Spaces, vmm_clone_space(s, d)
  PROVE  NoneLost'
<1>1. TypeOK /\ ~ panicked /\ d \notin live /\ used' = used
  BY DEF vmm_clone_space, may_fork, up, ReturnSound, MemorySound, CowSound
<1>2. \A u \in Spaces : frame'[u] = IF u = d THEN frame[s] ELSE frame[u] BY <1>1, CloneOwns
<1>3. \A v \in Pages : frame[d][v] = NULL BY <1>1 DEF ReturnSound, DeadIsEmpty
<1> SUFFICES ASSUME NEW CONSTANT f \in Frames PROVE Held(f)' BY HeldAllNext
<1>4. Held(f) /\ f # NULL /\ f \in AllFrames
  BY <1>1, HeldAll, FramesAssumption DEF ReturnSound, AllFrames
<1> DEFINE D == {v \in Pages : frame[s][v] = f} n == drops(s, Pages, f)
           m == Cardinality(mappers(f)) k == Cardinality(mappers(f)')
<1>5. k = m + n /\ n \in Nat
  <2>1. D \in SUBSET Pages /\ n = Cardinality(D) BY DEF drops
  <2>2. \A v \in Pages : frame[d][v] # f BY <1>3, <1>4
  <2>3. /\ \A u \in Spaces, v \in Pages : frame'[u][v] = f => frame[u][v] = f \/ (u = d /\ v \in D)
        /\ \A u \in Spaces, v \in Pages : frame[u][v] = f => frame'[u][v] = f
        /\ \A v \in D : frame'[d][v] = f
    BY <1>2, <2>2
  <2>4. Cardinality(maps(frame', f)) = Cardinality(maps(frame, f)) + Cardinality(D)
    <3>1. D \in SUBSET Pages BY <2>1
    <3> HIDE DEF D
    <3>2. Gained(frame, frame', f, d, D) BY <2>2, <2>3 DEF Gained
    <3> QED BY <3>1, <3>2, AddedExactly
  <2>5. n \in Nat BY DropsNat
  <2> QED BY <2>1, <2>4, <2>5, MappersAre, MappersAreNext
<1>6. rc'[f] = rc[f] + n BY <1>4 DEF vmm_clone_space, rc_shared
<1>7. k \in Nat /\ m \in Nat /\ rc[f] \in Nat
  BY <1>1, <1>4, MappersAre, MappersAreNext DEF TypeOK
<1>8. f \in used => m # 0 /\ rc[f] <= m BY <1>4, NoneMapped DEF Held
<1>9. k # 0 => mappers(f)' # {} BY MappersAreNext, FS_EmptySet
<1> HIDE DEF D, n, m, k
<1>10. f \in used' => k # 0 /\ rc'[f] <= k BY <1>1, <1>5, <1>6, <1>7, <1>8
<1> QED BY <1>9, <1>10 DEF Held, k

\* A clone that fails takes back every count it raised.
LEMMA CloneFailsHeld ==
  ASSUME ReturnSound, "fork_mmio" \notin Situations, NEW CONSTANT s \in Spaces,
         NEW CONSTANT k \in Pages,
         vmm_clone_space_fails(s, k)
  PROVE  NoneLost' /\ Backbuffer \in used'
<1> DEFINE back == owned(s, 1 .. k)
           kept == {v \in Pages \ back : \E i \in 1 .. k : v \in covers(regions[s][i])}
<1>1. /\ rc' = [f \in AllFrames |-> rc[f] + drops(s, kept, f)]
      /\ used' = {f \in used : drops(s, back, f) = 0 \/ rc'[f] # 0}
      /\ frame' = frame /\ ~panicked /\ k \in 1 .. Len(regions[s]) - 1
      /\ \A i \in 1 .. Len(regions[s]) : ~ regions[s][i].mmio
  BY DEF vmm_clone_space_fails, may_fork, up
<1>0. TypeOK /\ OwnedOffBackbuffer BY DEF ReturnSound, MemorySound, CowSound
<1>2. kept = {}
  <2>1. \A i \in 1 .. k : ~ regions[s][i].mmio BY <1>0, <1>1 DEF TypeOK
  <2> QED BY <2>1 DEF owned
<1>3. \A v \in back : v \in Pages /\ Owns(regions[s], v)
  BY <1>0, <1>1 DEF owned, Owns, Listed, TypeOK
<1>4. drops(s, back, Backbuffer) = 0
  <2>1. back \in SUBSET Pages /\ \A v \in back : frame[s][v] # Backbuffer
    BY <1>0, <1>3 DEF OwnedOffBackbuffer
  <2> HIDE DEF back
  <2> QED BY <2>1, NoDrops
<1> HIDE DEF back, kept
<1>5. Backbuffer \in used' BY <1>1, <1>4 DEF ReturnSound
<1>6. ASSUME NEW CONSTANT f \in Frames PROVE Held(f)'
  <2>1. Held(f) /\ f \in AllFrames /\ rc[f] \in Nat
    BY <1>0, <1>1, HeldAll DEF ReturnSound, AllFrames, TypeOK
  <2>2. drops(s, kept, f) = 0 BY <1>2, NoDrops
  <2>3. rc'[f] = rc[f] BY <1>1, <2>1, <2>2
  <2>4. \A u \in Spaces, v \in Pages : frame'[u][v] = f <=> frame[u][v] = f BY <1>1
  <2> QED BY <1>1, <2>1, <2>3, <2>4, StaysHeld
<1> QED BY <1>5, <1>6, HeldAllNext

\* vmm_cow_break loses no frame: the one it leaves is shared.
LEMMA FaultHeld ==
  ASSUME ReturnSound, NEW CONSTANT s \in Spaces,
         NEW CONSTANT v \in Pages, cow_page_fault_handler(s, v)
  PROVE  NoneLost'
<1>1. TypeOK /\ ~panicked /\ frame[s][v] # NULL /\ frame[s][v] \in AllFrames
  BY DEF cow_page_fault_handler, writes, up, ReturnSound, MemorySound, CowSound, TypeOK
<1> DEFINE f0 == frame[s][v]
<1>2. CASE panicked' = TRUE BY <1>2 DEF NoneLost
<1>3. CASE cow_in_place(s, v)
  <2>1. frame' = frame /\ used' = used /\ rc' = [rc EXCEPT ![f0] = 0]
    BY <1>1, <1>3 DEF cow_in_place, cow_broken, TypeOK
  <2> SUFFICES ASSUME NEW CONSTANT f \in Frames PROVE Held(f)' BY HeldAllNext
  <2>2. Held(f) /\ f \in AllFrames /\ rc[f] \in Nat
    BY <1>1, HeldAll DEF ReturnSound, AllFrames, TypeOK
  <2>3. mappers(f)' = mappers(f) /\ Cardinality(mappers(f)) \in Nat
    BY <2>1, MappersAre DEF mappers
  <2>4. rc'[f] <= rc[f] /\ rc'[f] \in Nat BY <1>1, <2>1, <2>2 DEF TypeOK
  <2>5. f \in used => rc[f] <= Cardinality(mappers(f)) /\ mappers(f) # {} BY <2>2 DEF Held
  <2> QED BY <2>1, <2>2, <2>3, <2>4, <2>5 DEF Held
<1>4. CASE cow_copy(s, v)
  <2>1. PICK g \in Frames \ used : used' = used \cup {g} /\ rc' = [rc EXCEPT ![f0] = @ - 1, ![g] = 1] /\ cow_broken(s, v, g)
    BY <1>4 DEF cow_copy
  <2>2. rc[f0] \in Nat /\ rc[f0] >= 2 BY <1>1, <1>4 DEF cow_copy, rc_after, TypeOK
  <2>3. \A u \in Spaces, x \in Pages : frame'[u][x] = IF u = s /\ x = v THEN g ELSE frame[u][x]
    BY <1>1, <2>1 DEF cow_broken, TypeOK
  <2>4. \A f \in Frames : rc'[f] = IF f = g THEN 1 ELSE IF f = f0 THEN rc[f0] - 1 ELSE rc[f]
    BY <1>1, <2>1 DEF TypeOK, AllFrames
  <2> SUFFICES ASSUME NEW CONSTANT f \in Frames PROVE Held(f)' BY HeldAllNext
  <2>5. Held(f) BY <1>1, HeldAll DEF ReturnSound
  <2>6. CASE f = g
    <3>1. rc'[f] = 1 BY <2>4, <2>6
    <3>2. <<s, v>> \in mappers(f)' BY <2>3, <2>6 DEF mappers
    <3>3. Cardinality(mappers(f)') # 0 /\ Cardinality(mappers(f)') \in Nat
      BY <3>2, MappersAreNext, FS_EmptySet
    <3> QED BY <3>1, <3>2, <3>3 DEF Held
  <2>7. CASE f # g /\ f # f0
    <3>1. \A u \in Spaces, x \in Pages : frame'[u][x] = f <=> frame[u][x] = f BY <2>3, <2>7
    <3>2. rc'[f] = rc[f] /\ (f \in used' => f \in used) BY <2>1, <2>4, <2>7
    <3> QED BY <2>5, <3>1, <3>2, StaysHeld
  <2>8. CASE f # g /\ f = f0
    <3> DEFINE m == Cardinality(mappers(f)) k == Cardinality(mappers(f)')
    <3>1. k = m - 1
      <4>1. \A x \in {v} : frame[s][x] = f /\ frame'[s][x] # f BY <2>3, <2>8
      <4>2. \A u \in Spaces, x \in Pages : frame'[u][x] = f => frame[u][x] = f BY <2>3, <2>8
      <4>3. \A u \in Spaces, x \in Pages : frame[u][x] = f => frame'[u][x] = f \/ (u = s /\ x \in {v})
        BY <2>3, <2>8
      <4>4. {v} \in SUBSET Pages /\ Cardinality({v}) = 1 BY FS_Singleton
      <4>5. Cardinality(maps(frame', f)) = Cardinality(maps(frame, f)) - Cardinality({v})
        <5>1. Lost(frame, frame', f, s, {v}) BY <4>1, <4>2, <4>3 DEF Lost
        <5> QED BY <4>4, <5>1, ClearedExactly
      <4> QED BY <4>4, <4>5, MappersAre, MappersAreNext
    <3>2. m \in Nat /\ k \in Nat BY MappersAre, MappersAreNext
    <3>3. k # 0 => mappers(f)' # {} BY MappersAreNext, FS_EmptySet
    <3>4. f \in used' => rc[f] <= m /\ rc[f] \in Nat /\ rc[f] >= 2 /\ rc'[f] = rc[f] - 1
      BY <2>1, <2>2, <2>4, <2>5, <2>8 DEF Held
    <3> HIDE DEF m, k
    <3>5. f \in used' => k # 0 /\ rc'[f] <= k BY <3>1, <3>2, <3>4
    <3> QED BY <3>3, <3>5 DEF Held, k
  <2> QED BY <2>6, <2>7, <2>8
<1> QED BY <1>2, <1>3, <1>4 DEF cow_page_fault_handler, vmm_cow_break, cow_panic

\* Everything of ReturnSound but what MemorySound and NoneLost say.
Rest == MmioOnBackbuffer /\ MmioNotCow /\ DeadIsEmpty /\ Backbuffer \in used /\ (panicked => live # {})

\* The backbuffer is never freed: no owned page is on it.
LEMMA ReleaseBackbuffer ==
  ASSUME NEW s \in Spaces,
         NEW vs \in SUBSET Pages, OwnedOffBackbuffer, release(s, vs), Backbuffer \in used,
         \A v \in vs : Owns(regions[s], v)
  PROVE  Backbuffer \in used'
<1>1. \A v \in vs : frame[s][v] # Backbuffer BY DEF OwnedOffBackbuffer
<1>2. drops(s, vs, Backbuffer) = 0 BY <1>1, NoDrops
<1> QED BY <1>2 DEF release

\* vmm_space_alloc keeps the rest.
LEMMA AllocRest ==
  ASSUME ReturnSound, NEW s \in Spaces, NEW b \in Pages, NEW n \in 1 .. REGION_PAGES,
         NEW w \in BOOLEAN,
         vmm_space_alloc(s, b, n, w)
  PROVE  Rest'
<1> DEFINE r == [base |-> b, size |-> n, write |-> w, cow |-> FALSE, mmio |-> FALSE]
<1>1. /\ TypeOK /\ Tables /\ MmioOnBackbuffer /\ MmioNotCow /\ DeadIsEmpty /\ Backbuffer \in used
      /\ s \in live /\ ~ panicked /\ live' = live /\ panicked' = panicked /\ used \subseteq used'
  BY DEF ReturnSound, MemorySound, CowSound, vmm_space_alloc, up
<1>2. PICK g \in [b .. b + n - 1 -> Frames \ used] :
           \A u \in Spaces, v \in Pages :
              /\ frame'[u][v] = IF u = s /\ v \in b .. b + n - 1 THEN g[v] ELSE frame[u][v]
              /\ Owns(regions'[u], v) <=> Owns(regions[u], v) \/ (u = s /\ v \in b .. b + n - 1)
  BY <1>1, AllocOwns
<1>3. MmioOnBackbuffer' BY <1>1, <1>2 DEF MmioOnBackbuffer
<1>4. DeadIsEmpty' BY <1>1, <1>2 DEF DeadIsEmpty
<1>5. r \in Region /\ covers(r) = b .. b + n - 1 /\ r.cow = FALSE
  BY PagesAssumption DEF vmm_space_alloc, is_vaddr_range_free, Region, Pages, covers
<1>6. \A i \in 1 .. Len(regions[s]) : covers(regions[s][i]) \cap covers(r) = {}
  BY <1>5 DEF vmm_space_alloc, is_vaddr_range_free
<1>7. \A u \in Spaces : regions'[u] = IF u = s THEN insert(regions[s], r) ELSE regions[u]
  BY <1>1 DEF vmm_space_alloc, TypeOK
<1> HIDE DEF r
<1>8. Listed(insert(regions[s], r)) = Listed(regions[s]) \cup {r}
  <2>1. regions[s] \in Seq(Region) /\ Sorted(regions[s]) BY <1>1 DEF TypeOK, Tables
  <2> QED BY <2>1, <1>5, <1>6, InsertSorted
<1>9. MmioNotCow' BY <1>1, <1>5, <1>7, <1>8 DEF MmioNotCow
<1> QED BY <1>1, <1>3, <1>4, <1>9 DEF Rest

\* vmm_map_phys keeps the rest.
LEMMA MapPhysRest ==
  ASSUME ReturnSound, NEW s \in Spaces, vmm_map_phys(s)
  PROVE  Rest'
<1> DEFINE r == [base |-> FB_MAP_VADDR, size |-> 1, write |-> TRUE, cow |-> FALSE, mmio |-> TRUE]
<1>1. /\ TypeOK /\ Tables /\ MmioOnBackbuffer /\ MmioNotCow /\ DeadIsEmpty /\ Backbuffer \in used
      /\ s \in live /\ ~ panicked /\ live' = live /\ panicked' = panicked /\ used' = used
  BY DEF ReturnSound, MemorySound, CowSound, vmm_map_phys, up, memVars
<1>2. \A u \in Spaces, v \in Pages :
              /\ frame'[u][v] = IF u = s /\ v = FB_MAP_VADDR THEN Backbuffer ELSE frame[u][v]
              /\ Owns(regions'[u], v) <=> Owns(regions[u], v)
  BY <1>1, MapPhysOwns
<1>3. MmioOnBackbuffer' BY <1>1, <1>2 DEF MmioOnBackbuffer
<1>4. DeadIsEmpty' BY <1>1, <1>2 DEF DeadIsEmpty
<1>5. r \in Region /\ covers(r) = FB_MAP_VADDR .. FB_MAP_VADDR + 1 - 1 /\ r.cow = FALSE
  BY PagesAssumption DEF Region, Pages, covers
<1>6. \A i \in 1 .. Len(regions[s]) : covers(regions[s][i]) \cap covers(r) = {}
  BY <1>5 DEF vmm_map_phys, is_vaddr_range_free
<1>7. \A u \in Spaces : regions'[u] = IF u = s THEN insert(regions[s], r) ELSE regions[u]
  BY <1>1 DEF vmm_map_phys, TypeOK
<1> HIDE DEF r
<1>8. Listed(insert(regions[s], r)) = Listed(regions[s]) \cup {r}
  <2>1. regions[s] \in Seq(Region) /\ Sorted(regions[s]) BY <1>1 DEF TypeOK, Tables
  <2> QED BY <2>1, <1>5, <1>6, InsertSorted
<1>9. MmioNotCow' BY <1>1, <1>5, <1>7, <1>8 DEF MmioNotCow
<1> QED BY <1>1, <1>3, <1>4, <1>9 DEF Rest

\* vmm_space_free keeps the rest.
LEMMA FreeRest ==
  ASSUME ReturnSound, NEW s \in Spaces, NEW i \in Pages, vmm_space_free(s, i)
  PROVE  Rest'
<1>1. /\ TypeOK /\ Tables /\ MmioOnBackbuffer /\ MmioNotCow /\ DeadIsEmpty /\ Backbuffer \in used /\ OwnedOffBackbuffer
      /\ s \in live /\ ~ panicked /\ live' = live /\ panicked' = panicked /\ release(s, owned(s, {i}))
      /\ i \in 1 .. Len(regions[s])
  BY DEF ReturnSound, MemorySound, CowSound, vmm_space_free, up
<1>2. \A u \in Spaces, v \in Pages :
              /\ frame'[u][v] = IF u = s /\ v \in covers(regions[s][i]) THEN NULL ELSE frame[u][v]
              /\ u # s => regions'[u] = regions[u]
              /\ v \notin covers(regions[s][i]) => (Owns(regions'[u], v) <=> Owns(regions[u], v))
  BY <1>1, FreeOwns
<1>3. MmioOnBackbuffer'
  <2> SUFFICES ASSUME NEW u \in Spaces,
                      NEW v \in Pages, frame'[u][v] # NULL, ~ Owns(regions'[u], v)
               PROVE  frame'[u][v] = Backbuffer
    BY DEF MmioOnBackbuffer
  <2>1. frame'[u][v] = frame[u][v] /\ ~ (u = s /\ v \in covers(regions[s][i])) BY <1>2
  <2>2. ~ Owns(regions[u], v) BY <1>2, <2>1
  <2> QED BY <1>1, <2>1, <2>2 DEF MmioOnBackbuffer
<1>4. DeadIsEmpty' BY <1>1, <1>2 DEF DeadIsEmpty
<1>5. MmioNotCow'
  <2> DEFINE rs == regions[s] q == SubSeq(rs, 1, i - 1) \o SubSeq(rs, i + 1, Len(rs))
  <2>1. rs \in Seq(Region) /\ Sorted(rs) /\ i \in 1 .. Len(rs) BY <1>1 DEF TypeOK, Tables
  <2>2. \A u \in Spaces : regions'[u] = IF u = s THEN q ELSE regions[u]
    BY <1>1 DEF vmm_space_free, TypeOK
  <2> HIDE DEF rs
  <2>3. Listed(q) = Listed(rs) \ {rs[i]} BY <2>1, RemoveSorted
  <2> HIDE DEF q
  <2> QED BY <1>1, <2>2, <2>3 DEF MmioNotCow, rs
<1>6. Backbuffer \in used'
  <2>1. owned(s, {i}) \in SUBSET Pages BY OwnedPages
  <2>2. \A v \in owned(s, {i}) : Owns(regions[s], v) BY <1>1 DEF owned, Owns, Listed
  <2> QED BY <1>1, <2>1, <2>2, ReleaseBackbuffer
<1> QED BY <1>1, <1>3, <1>4, <1>5, <1>6 DEF Rest

\* vmm_space_destroy keeps the rest.
LEMMA DestroyRest ==
  ASSUME ReturnSound, NEW s \in Spaces, vmm_space_destroy(s)
  PROVE  Rest'
<1>1. /\ TypeOK /\ MmioOnBackbuffer /\ MmioNotCow /\ DeadIsEmpty /\ Backbuffer \in used /\ OwnedOffBackbuffer
      /\ ~ panicked /\ live' = live \ {s} /\ panicked' = panicked /\ release(s, owned(s, 1 .. Len(regions[s])))
  BY DEF ReturnSound, MemorySound, CowSound, vmm_space_destroy, up
<1>2. /\ \A u \in Spaces : u # s => frame'[u] = frame[u] /\ regions'[u] = regions[u]
      /\ regions'[s] = << >> /\ \A v \in Pages : frame'[s][v] = NULL
  BY <1>1 DEF vmm_space_destroy, nothing_mapped, TypeOK
<1>3. MmioOnBackbuffer' BY <1>1, <1>2 DEF MmioOnBackbuffer
<1>4. DeadIsEmpty' BY <1>1, <1>2 DEF DeadIsEmpty
<1>5. MmioNotCow' BY <1>1, <1>2 DEF MmioNotCow, Listed
<1>6. Backbuffer \in used'
  <2>1. owned(s, 1 .. Len(regions[s])) \in SUBSET Pages BY OwnedPages
  <2>2. \A v \in owned(s, 1 .. Len(regions[s])) : Owns(regions[s], v) BY <2>1, OwnedIsOwns
  <2> QED BY <1>1, <2>1, <2>2, ReleaseBackbuffer
<1> QED BY <1>1, <1>3, <1>4, <1>5, <1>6 DEF Rest

\* Regions that are no framebuffer stay none, whichever become copy-on-write.
LEMMA FlagsNoMmio ==
  ASSUME NEW q \in Seq(Region), NEW k, \A i \in 1 .. Len(q) : ~ q[i].mmio
  PROVE  LET c == [i \in 1 .. Len(q) |-> IF i <= k THEN as_cow(q[i]) ELSE q[i]] IN
         \A r \in Listed(c) : ~ r.mmio
<1> DEFINE c == [i \in 1 .. Len(q) |-> IF i <= k THEN as_cow(q[i]) ELSE q[i]]
<1>1. \A i \in 1 .. Len(q) : q[i] \in Region OBVIOUS
<1>2. c \in [1 .. Len(q) -> Region] BY <1>1, AsCow
<1>3. c \in Seq(Region) /\ Len(c) = Len(q) BY <1>2, Mapped
<1>4. \A i \in 1 .. Len(q) : c[i] = IF i <= k THEN as_cow(q[i]) ELSE q[i] OBVIOUS
<1> HIDE DEF c
<1>5. \A i \in 1 .. Len(q) : ~ c[i].mmio BY <1>1, <1>4, AsCow
<1>6. \A r \in Listed(c) : ~ r.mmio BY <1>3, <1>5 DEF Listed
<1> QED BY <1>6 DEF c

\* vmm_clone_space keeps the rest: no framebuffer is mapped.
LEMMA CloneRest ==
  ASSUME ReturnSound, "fork_mmio" \notin Situations, NEW s \in Spaces,
         NEW d \in Spaces, vmm_clone_space(s, d)
  PROVE  Rest'
<1> DEFINE q == regions[s] c == [i \in 1 .. Len(q) |-> as_cow(q[i])]
           e == [i \in 1 .. Len(q) |-> IF i <= Len(q) THEN as_cow(q[i]) ELSE q[i]]
<1>1. /\ TypeOK /\ MmioOnBackbuffer /\ MmioNotCow /\ DeadIsEmpty /\ Backbuffer \in used
      /\ s \in live /\ ~ panicked /\ live' = live \cup {d} /\ panicked' = panicked /\ used' = used /\ s # d
      /\ q \in Seq(Region) /\ \A i \in 1 .. Len(q) : ~ q[i].mmio
  BY DEF ReturnSound, MemorySound, CowSound, TypeOK, vmm_clone_space, may_fork, up
<1>2. \A u \in Spaces :
              /\ frame'[u] = IF u = d THEN frame[s] ELSE frame[u]
              /\ \A v : Owns(regions'[u], v) <=> Owns(regions[IF u = d THEN s ELSE u], v)
  BY <1>1, CloneOwns
<1>3. MmioOnBackbuffer' BY <1>1, <1>2 DEF MmioOnBackbuffer
<1>4. DeadIsEmpty' BY <1>1, <1>2 DEF DeadIsEmpty
<1>5. \A u \in Spaces : regions'[u] = IF u \in {s, d} THEN c ELSE regions[u]
  BY <1>1 DEF vmm_clone_space, TypeOK
<1> HIDE DEF q
<1>6. e = c BY <1>1
<1>7. \A r \in Listed(e) : ~ r.mmio
  <2>1. \A k : LET a == [i \in 1 .. Len(q) |-> IF i <= k THEN as_cow(q[i]) ELSE q[i]] IN
               \A r \in Listed(a) : ~ r.mmio
    BY <1>1, FlagsNoMmio
  <2> QED BY <2>1
<1> HIDE DEF c, e
<1>8. MmioNotCow' BY <1>1, <1>5, <1>6, <1>7 DEF MmioNotCow
<1> QED BY <1>1, <1>3, <1>4, <1>8 DEF Rest

\* A clone that fails keeps the rest.
LEMMA CloneFailsRest ==
  ASSUME ReturnSound, "fork_mmio" \notin Situations, NEW CONSTANT s \in Spaces,
         NEW CONSTANT k \in Pages, vmm_clone_space_fails(s, k)
  PROVE  Rest'
<1> DEFINE q == regions[s] c == [i \in 1 .. Len(q) |-> IF i <= k THEN as_cow(q[i]) ELSE q[i]]
<1>1. /\ TypeOK /\ MmioOnBackbuffer /\ MmioNotCow /\ DeadIsEmpty /\ Backbuffer \in used
      /\ s \in live /\ ~ panicked /\ live' = live /\ panicked' = panicked
      /\ q \in Seq(Region) /\ \A i \in 1 .. Len(q) : ~ q[i].mmio
  BY DEF ReturnSound, MemorySound, CowSound, TypeOK, vmm_clone_space_fails, may_fork, up
<1>2. frame' = frame /\ \A u \in Spaces : \A v : Owns(regions'[u], v) <=> Owns(regions[u], v)
  BY <1>1, CloneFailsOwns
<1>3. MmioOnBackbuffer' BY <1>1, <1>2 DEF MmioOnBackbuffer
<1>4. DeadIsEmpty' BY <1>1, <1>2 DEF DeadIsEmpty
<1>5. \A u \in Spaces : regions'[u] = IF u = s THEN c ELSE regions[u]
  BY <1>1 DEF vmm_clone_space_fails, TypeOK
<1> HIDE DEF q
<1>6. \A r \in Listed(c) : ~ r.mmio BY <1>1, FlagsNoMmio
<1> HIDE DEF c
<1>7. MmioNotCow' BY <1>1, <1>5, <1>6 DEF MmioNotCow
<1>8. Backbuffer \in used' BY CloneFailsHeld
<1> QED BY <1>1, <1>3, <1>4, <1>7, <1>8 DEF Rest

\* The region of rs at v is copy-on-write.
CowAt(rs, v) == \E r \in Listed(rs) : v \in covers(r) /\ r.cow

\* What the page fault handler looks up.
LEMMA IsCowAt ==
  ASSUME TypeOK, Tables, NEW s \in Spaces, NEW v \in Pages
  PROVE  is_cow(s, v) <=> CowAt(regions[s], v)
<1>1. regions[s] \in Seq(Region) /\ Sorted(regions[s]) BY DEF TypeOK, Tables
<1>2. /\ vmm_space_find(s, v) # 0 <=> Covered(regions[s], v)
      /\ \A i \in 1 .. Len(regions[s]) : v \in covers(regions[s][i]) => vmm_space_find(s, v) = i
  BY <1>1, FindSorted
<1>3. Covered(regions[s], v) <=> \E i \in 1 .. Len(regions[s]) : v \in covers(regions[s][i])
  BY DEF Covered, Listed
<1>4. CowAt(regions[s], v) <=> \E i \in 1 .. Len(regions[s]) : v \in covers(regions[s][i]) /\ regions[s][i].cow
  BY DEF CowAt, Listed
<1> QED BY <1>2, <1>3, <1>4 DEF is_cow

\* vmm_cow_break keeps the rest: the page belongs to the space.
LEMMA BrokenRest ==
  ASSUME ReturnSound, NEW s \in Spaces, NEW v \in Pages, s \in live, is_cow(s, v),
         NEW f \in AllFrames,
         cow_broken(s, v, f), live' = live, panicked' = panicked, used \subseteq used'
  PROVE  Rest'
<1> DEFINE q == regions[s] i == vmm_space_find(s, v) r == [q[i] EXCEPT !.cow = FALSE, !.write = TRUE]
           c == [q EXCEPT ![i] = r]
<1>1. /\ TypeOK /\ Tables /\ MmioOnBackbuffer /\ MmioNotCow /\ DeadIsEmpty /\ Backbuffer \in used /\ (panicked => live # {})
      /\ q \in Seq(Region)
  BY DEF ReturnSound, MemorySound, CowSound, TypeOK
<1>2. \A u \in Spaces :
           /\ \A x : Owns(regions'[u], x) <=> Owns(regions[u], x)
           /\ \A x \in Pages : frame'[u][x] = IF u = s /\ x = v THEN f ELSE frame[u][x]
  BY <1>1, BrokenOwns
<1>3. Owns(regions[s], v)
  <2>1. CowAt(regions[s], v) BY <1>1, IsCowAt
  <2> QED BY <1>1, <2>1 DEF CowAt, Owns, MmioNotCow
<1>4. MmioOnBackbuffer' BY <1>1, <1>2, <1>3 DEF MmioOnBackbuffer
<1>5. DeadIsEmpty' BY <1>1, <1>2 DEF DeadIsEmpty
<1>6. \A u \in Spaces : regions'[u] = IF u = s THEN c ELSE regions[u]
  BY <1>1 DEF cow_broken, TypeOK
<1> HIDE DEF q, i
<1>7. i \in 1 .. Len(q) => q[i] \in Region BY <1>1
<1>8. i \in 1 .. Len(q) => r \in Region /\ r.cow = FALSE BY <1>7 DEF Region
<1> HIDE DEF r
<1>9. c \in Seq(Region) /\ Len(c) = Len(q) /\ \A j \in 1 .. Len(q) : c[j] = IF j = i THEN r ELSE q[j]
  BY <1>1, <1>8, Changed
<1> HIDE DEF c
<1>10. \A p \in Listed(c) : p.mmio => ~ p.cow
  <2> SUFFICES ASSUME NEW j \in 1 .. Len(q), c[j].mmio PROVE ~ c[j].cow BY <1>9 DEF Listed
  <2>1. CASE j = i BY <2>1, <1>8, <1>9
  <2>2. CASE j # i
    <3>1. c[j] = q[j] /\ q[j] \in Listed(q) BY <2>2, <1>9 DEF Listed
    <3> QED BY <1>1, <3>1 DEF MmioNotCow, q
  <2> QED BY <2>1, <2>2
<1>11. MmioNotCow' BY <1>1, <1>6, <1>10 DEF MmioNotCow
<1> QED BY <1>1, <1>4, <1>5, <1>11 DEF Rest

\* The page fault handler keeps the rest.
LEMMA FaultRest ==
  ASSUME ReturnSound, NEW s \in Spaces, NEW v \in Pages, cow_page_fault_handler(s, v)
  PROVE  Rest'
<1>1. TypeOK /\ s \in live /\ live' = live /\ frame[s][v] \in AllFrames /\ Rest
  BY DEF cow_page_fault_handler, writes, up, ReturnSound, MemorySound, CowSound, TypeOK, Rest
<1>2. CASE regions' = regions /\ frame' = frame /\ used' = used
  BY <1>1, <1>2 DEF Rest, MmioOnBackbuffer, MmioNotCow, DeadIsEmpty
<1>3. CASE is_cow(s, v) /\ cow_in_place(s, v) BY <1>1, <1>3, BrokenRest DEF cow_in_place
<1>4. CASE is_cow(s, v) /\ cow_copy(s, v)
  <2>1. PICK g \in Frames \ used : used' = used \cup {g} /\ cow_broken(s, v, g)
    BY <1>4 DEF cow_copy
  <2>2. panicked' = panicked BY <1>4 DEF cow_copy
  <2> QED BY <1>1, <1>4, <2>1, <2>2, BrokenRest DEF AllFrames
<1> QED BY <1>2, <1>3, <1>4 DEF cow_page_fault_handler, vmm_cow_break, cow_panic, memVars

\* Every step keeps the frames held.
LEMMA ReturnStep ==
  ASSUME ReturnSound, {"refork", "fork_mmio", "oom"} \cap Situations = {}, [Next]_vars
  PROVE  ReturnSound'
<1> DEFINE Goal == NoneLost' /\ Rest'
<1>1. MemorySound' BY MemoryStep DEF ReturnSound
<1>2. ASSUME used' = used, rc' = rc, regions' = regions, frame' = frame, panicked' = panicked, live \subseteq live'
      PROVE Goal
  <2>1. NoneLost' BY <1>2 DEF ReturnSound, NoneLost, mappers
  <2> QED BY <1>2, <2>1 DEF ReturnSound, Rest, MmioOnBackbuffer, MmioNotCow, DeadIsEmpty
<1>3. ASSUME UNCHANGED vars PROVE Goal BY <1>2, <1>3 DEF vars, memVars
<1>4. ASSUME NEW s \in Spaces, vmm_space_create(s) \/ vmm_space_destroy(s) \/ vmm_map_phys(s)
      PROVE Goal
  <2>1. CASE vmm_space_create(s) BY <1>2, <2>1 DEF vmm_space_create, memVars
  <2>2. CASE vmm_space_destroy(s) BY <2>2, DestroyHeld, DestroyRest
  <2>3. CASE vmm_map_phys(s) BY <2>3, MapPhysHeld, MapPhysRest
  <2> QED BY <1>4, <2>1, <2>2, <2>3
<1>5. ASSUME NEW s \in Spaces, NEW b \in Pages, NEW n \in 1 .. REGION_PAGES,
             (\E w \in BOOLEAN : vmm_space_alloc(s, b, n, w)) \/ vmm_space_alloc_fails(s, b, n)
               PROVE Goal
  <2>1. ~ vmm_space_alloc_fails(s, b, n) BY DEF vmm_space_alloc_fails
  <2>2. PICK w \in BOOLEAN : vmm_space_alloc(s, b, n, w) BY <1>5, <2>1
  <2> QED BY <2>2, AllocHeld, AllocRest
<1>6. ASSUME NEW s \in Spaces,
             NEW i \in Pages, vmm_space_free(s, i) \/ vmm_clone_space_fails(s, i)
      PROVE Goal
  <2>1. CASE vmm_space_free(s, i) BY <2>1, FreeHeld, FreeRest
  <2>2. CASE vmm_clone_space_fails(s, i) BY <2>2, CloneFailsHeld, CloneFailsRest
  <2> QED BY <1>6, <2>1, <2>2
<1>7. ASSUME NEW s \in Spaces, NEW d \in Spaces, vmm_clone_space(s, d) PROVE Goal
  BY <1>7, CloneHeld, CloneRest
<1>8. ASSUME NEW s \in Spaces, NEW v \in Pages,
             cow_page_fault_handler(s, v) \/ \E val \in Values : store(s, v, val) PROVE Goal
  <2>1. ASSUME NEW val \in Values, store(s, v, val) PROVE Goal BY <1>2, <2>1 DEF store
  <2>2. CASE cow_page_fault_handler(s, v) BY <2>2, FaultHeld, FaultRest
  <2> QED BY <1>8, <2>1, <2>2
<1>9. Goal
  <2> HIDE DEF Goal
  <2>1. CASE halted
    <3>1. UNCHANGED vars BY <2>1 DEF halted
    <3> QED BY <1>3, <3>1
  <2>2. CASE Next /\ ~ halted
    BY <2>2, <1>4, <1>5, <1>6, <1>7, <1>8 DEF Next
  <2> QED BY <2>1, <2>2, <1>3
<1> QED BY <1>1, <1>9 DEF ReturnSound, Rest

\* Only the backbuffer is used at boot.
LEMMA ReturnInit == Init => ReturnSound
<1> SUFFICES ASSUME Init PROVE ReturnSound OBVIOUS
<1>1. MemorySound BY MemoryInit
<1>2. /\ used = {Backbuffer} /\ ~ panicked
      /\ \A s \in Spaces : regions[s] = << >> /\ \A v \in Pages : frame[s][v] = NULL
  BY DEF Init, nothing_mapped
<1>3. NoneLost BY <1>2, FramesAssumption DEF NoneLost
<1>4. Listed(<< >>) = {} BY DEF Listed
<1> QED BY <1>1, <1>2, <1>3, <1>4 DEF ReturnSound, MmioOnBackbuffer, MmioNotCow, DeadIsEmpty

\* Once every space is destroyed the backbuffer is the only frame in use
\* (AllReturned): no order of forks, failed forks, faults, unmaps and exits loses a
\* frame, as long as frames do not run out in vmm_space_alloc and neither a frame of
\* count zero nor a framebuffer is forked.
THEOREM FramesComeBack ==
  ASSUME {"refork", "fork_mmio", "oom"} \cap Situations = {}
  PROVE  Spec => []AllReturned
<1>1. Init => ReturnSound BY ReturnInit
<1>2. ReturnSound /\ [Next]_vars => ReturnSound' BY ReturnStep
<1>3. ReturnSound => AllReturned
  <2> SUFFICES ASSUME ReturnSound, live = {} PROVE used = {Backbuffer} BY DEF AllReturned
  <2>1. \A s \in Spaces, v \in Pages : frame[s][v] = NULL BY DEF ReturnSound, DeadIsEmpty
  <2>2. ASSUME NEW f \in Frames PROVE f \notin used
    <3>1. f # NULL BY FramesAssumption DEF AllFrames
    <3>2. mappers(f) = {} BY <2>1, <3>1 DEF mappers
    <3> QED BY <3>2 DEF ReturnSound, NoneLost
  <2>3. used \subseteq AllFrames /\ Backbuffer \in used
    BY DEF ReturnSound, MemorySound, CowSound, TypeOK
  <2> QED BY <2>2, <2>3 DEF AllFrames
<1> QED BY <1>1, <1>2, <1>3, PTL DEF Spec
=============================================================================
