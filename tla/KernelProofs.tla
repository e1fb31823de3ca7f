---------------------------- MODULE KernelProofs -----------------------------
(***************************************************************************)
(* Proofs about four parts of the kernel that share no state: what         *)
(* elf_load leaves in memory for every page size, every file and every     *)
(* outcome of its allocations; which frames are handed out for every       *)
(* memory map; that the ring of the scheduler is a bounded queue for every *)
(* size of the ring and every set of threads; and that mmap, munmap and    *)
(* brk keep the regions of a process apart, for every address space.       *)
(***************************************************************************)
EXTENDS ElfLoad, PhysMem, ReadyRing, UserMem,
        FiniteSetTheorems, SequenceTheorems, WellFoundedInduction, TLAPS

-----------------------------------------------------------------------------
(* Loading a program.                                                      *)

\* Dividing by the size of a page.
LEMMA PageOf ==
    ASSUME NEW v \in Nat
    PROVE  /\ v \div ELF_PAGE \in Nat /\ v % ELF_PAGE \in 0 .. ELF_PAGE - 1
           /\ v = ELF_PAGE * (v \div ELF_PAGE) + (v % ELF_PAGE)
<1> DEFINE P == ELF_PAGE
<1>1. P \in Nat \ {0}
  BY ElfAssumption
<1> HIDE DEF P
<1>2. /\ v \div P \in Nat /\ v % P \in 0 .. P - 1
      /\ v = P * (v \div P) + (v % P)
  BY <1>1
<1> QED
  BY <1>2 DEF P

\* elf_align_down: the start of the page.
LEMMA DownIs ==
    ASSUME NEW v \in Nat
    PROVE  /\ elf_align_down(v) \in Nat
           /\ elf_align_down(v) <= v /\ v < elf_align_down(v) + ELF_PAGE
           /\ elf_align_down(v) = (v \div ELF_PAGE) * ELF_PAGE
<1> DEFINE q == v \div ELF_PAGE
           r == v % ELF_PAGE
<1>1. q \in Nat /\ r \in 0 .. ELF_PAGE - 1 /\ v = ELF_PAGE * q + r /\ ELF_PAGE \in Nat
  BY PageOf, ElfAssumption
<1>2. elf_align_down(v) = v - r
  BY DEF elf_align_down
<1> HIDE DEF q, r
<1>3. ELF_PAGE * q = q * ELF_PAGE /\ ELF_PAGE * q \in Nat
  BY <1>1
<1> DEFINE m == ELF_PAGE * q
<1> HIDE DEF m
<1>4. m \in Nat /\ v = m + r /\ m = q * ELF_PAGE
  BY <1>1, <1>3 DEF m
<1>5. v - r = m
  BY <1>1, <1>4
<1>6. m <= v /\ v < m + ELF_PAGE
  BY <1>1, <1>4
<1> QED
  BY <1>2, <1>4, <1>5, <1>6 DEF q

\* elf_align_up: the first page start that is not below.
LEMMA UpIs ==
    ASSUME NEW v \in Nat
    PROVE  elf_align_up(v) \in Nat /\ v <= elf_align_up(v)
<1>0. ELF_PAGE \in Nat \ {0}
  BY ElfAssumption
<1>1. v + ELF_PAGE - 1 \in Nat
  BY <1>0
<1> DEFINE w == v + ELF_PAGE - 1
<1>2. w \in Nat /\ w + 1 = v + ELF_PAGE
  BY <1>0
<1>3. elf_align_up(v) = elf_align_down(w)
  BY DEF elf_align_up
<1> HIDE DEF w
<1>4. elf_align_down(w) \in Nat /\ w < elf_align_down(w) + ELF_PAGE
  BY <1>2, DownIs
<1> QED
  BY <1>0, <1>2, <1>3, <1>4

\* The pages of a segment hold it.
LEMMA SegIs ==
    ASSUME NEW s \in Segments
    PROVE  /\ seg_base(s) \in Nat /\ seg_end(s) \in Nat
           /\ s.vaddr \in Nat /\ s.memsz \in Nat /\ s.filesz \in Nat /\ s.offset \in Nat
           /\ s.load \in BOOLEAN /\ s.flags \in SUBSET {"write", "exec"}
           /\ seg_base(s) <= s.vaddr /\ s.vaddr + s.memsz <= seg_end(s)
           /\ seg_base(s) = (s.vaddr \div ELF_PAGE) * ELF_PAGE
           /\ s.vaddr \div ELF_PAGE \in Nat
<1>1. /\ s.vaddr \in Nat /\ s.memsz \in Nat /\ s.filesz \in Nat /\ s.offset \in Nat
      /\ s.load \in BOOLEAN /\ s.flags \in SUBSET {"write", "exec"}
  BY DEF Segments
<1>2. s.vaddr + s.memsz \in Nat
  BY <1>1
<1>3. elf_align_up(s.vaddr + s.memsz) \in Nat /\ s.vaddr + s.memsz <= elf_align_up(s.vaddr + s.memsz)
  BY <1>2, UpIs
<1>4. /\ elf_align_down(s.vaddr) \in Nat /\ elf_align_down(s.vaddr) <= s.vaddr
      /\ elf_align_down(s.vaddr) = (s.vaddr \div ELF_PAGE) * ELF_PAGE
  BY <1>1, DownIs
<1>5. s.vaddr \div ELF_PAGE \in Nat
  BY <1>1, PageOf
<1> QED
  BY <1>1, <1>3, <1>4, <1>5 DEF seg_base, seg_end

\* A page that starts in the user space is one of its pages.
LEMMA PageIn ==
    ASSUME NEW q \in Nat, q * ELF_PAGE < USER_STACK_TOP
    PROVE  q \in Pages
<1> DEFINE P == ELF_PAGE
           T == USER_STACK_TOP - 1
           d == T \div P
           r == T % P
           m == q * P
<1>1. P \in Nat \ {0} /\ T \in Nat /\ m <= T
  BY ElfAssumption
<1>2. d \in Nat /\ r \in 0 .. P - 1 /\ T = P * d + r
  BY <1>1, PageOf
<1> HIDE DEF T, d, r, P
<1>3. q <= d
  <2> SUFFICES ASSUME q > d PROVE FALSE
    BY <1>2
  <2>1. q >= d + 1
    BY <1>2
  <2>2. q * P >= (d + 1) * P
    BY <2>1, <1>1, <1>2
  <2>3. (d + 1) * P = P * d + P
    BY <1>1, <1>2
  <2> HIDE DEF m
  <2> DEFINE n == P * d
  <2>4. n \in Nat
    BY <1>1, <1>2
  <2>5. m \in Nat /\ m >= n + P
    BY <2>2, <2>3, <1>1 DEF m
  <2>6. T = n + r
    BY <1>2
  <2> HIDE DEF n
  <2> QED
    BY <2>4, <2>5, <2>6, <1>1, <1>2
<1> QED
  BY <1>2, <1>3 DEF Pages, P, T, d

\* The page of an address of the stack starts in the stack.
LEMMA StackPage ==
    ASSUME NEW a \in USER_STACK_BASE .. USER_STACK_TOP - 1
    PROVE  /\ a \div ELF_PAGE \in Pages
           /\ (a \div ELF_PAGE) * ELF_PAGE \in USER_STACK_BASE .. USER_STACK_TOP - 1
<1> DEFINE P == ELF_PAGE
           B == USER_STACK_BASE
           q == a \div P
           r == a % P
           c == B \div P
<1>1. P \in Nat \ {0} /\ a \in Nat /\ B \in Nat /\ B % P = 0 /\ USER_STACK_TOP \in Nat
      /\ B <= a /\ a < USER_STACK_TOP
  BY ElfAssumption
<1>2. q \in Nat /\ r \in 0 .. P - 1 /\ a = P * q + r
  BY <1>1, PageOf
<1>3. c \in Nat /\ B = P * c + (B % P)
  BY <1>1, PageOf
<1>4. P * c \in Nat /\ P * q \in Nat /\ q * P = P * q
  BY <1>1, <1>2, <1>3
<1> HIDE DEF P, B, q, r, c
<1>5. B = P * c
  BY <1>1, <1>3, <1>4
<1>6. c <= q
  <2> SUFFICES ASSUME c > q PROVE FALSE
    BY <1>2, <1>3
  <2>1. c >= q + 1
    BY <1>2, <1>3
  <2>2. P * c >= P * (q + 1) /\ P * (q + 1) = P * q + P
    BY <2>1, <1>1, <1>2, <1>3
  <2> DEFINE n == P * q
  <2>3. n \in Nat /\ a = n + r /\ B >= n + P
    BY <2>2, <1>2, <1>4, <1>5
  <2> HIDE DEF n
  <2> QED
    BY <2>3, <1>1, <1>2
<1>7. P * c <= P * q
  BY <1>6, <1>1, <1>2, <1>3
<1> DEFINE n == P * q
<1>8. n \in Nat /\ B <= n /\ a = n + r /\ q * P = n
  BY <1>2, <1>4, <1>5, <1>7
<1> HIDE DEF n
<1>9. n <= a /\ n < USER_STACK_TOP
  BY <1>1, <1>2, <1>8
<1>10. q * P \in B .. USER_STACK_TOP - 1
  BY <1>1, <1>8, <1>9
<1>11. q * ELF_PAGE < USER_STACK_TOP
  BY <1>8, <1>9 DEF P
<1>12. q \in Pages
  BY <1>11, <1>2, PageIn
<1> QED
  BY <1>10, <1>12 DEF q, P, B
-----------------------------------------------------------------------------
\* The first n bytes of a segment are in memory, and its pages are mapped.
Right(c, s, n) ==
    \A k \in 0 .. n - 1 : c[s.vaddr + k] = IF k < s.filesz THEN s.offset + k ELSE ZERO
Mapped(ac, s) ==
    /\ seg_base(s) < seg_end(s)
    /\ ac[s.vaddr \div ELF_PAGE] \ {"user", "read"} = s.flags

\* Every segment of a prefix of the file is there.
Prefix(n, f, c, ac) ==
    \A i \in 1 .. Len(f.segments) :
        i < n /\ f.segments[i].load => Mapped(ac, f.segments[i])
                                      /\ Right(c, f.segments[i], f.segments[i].memsz)

\* Halfway through a segment: the cursor is behind what has been copied, and
\* what is left of the file part begins where the copy stopped.
Halfway(c, s, n) ==
    /\ n.src \in Nat /\ n.file \in Nat /\ n.va \in Nat /\ n.mem \in Nat
    /\ n.mem <= s.memsz /\ n.va + n.mem = s.vaddr + s.memsz
    /\ s.filesz <= s.memsz
    /\ n.src + n.file = s.offset + s.filesz
    /\ n.file = IF s.memsz - n.mem < s.filesz THEN s.filesz - (s.memsz - n.mem) ELSE 0
    /\ Right(c, s, s.memsz - n.mem)

StackIsThere(ac) ==
    \A a \in USER_STACK_BASE .. USER_STACK_TOP - 1 : "write" \in ac[a \div ELF_PAGE]

ElfGood(im, st, n, c, ac, cp, pr) ==
    /\ im \in Images /\ n \in Nat \ {0} /\ (st = "check" => n = 1)
    /\ st \in {"segment", "copy", "thread", "launched"} => Prefix(n, im, c, ac)
    /\ st = "copy" => /\ n <= Len(im.segments) /\ im.segments[n].load
                       /\ Mapped(ac, im.segments[n]) /\ Halfway(c, im.segments[n], cp)
    /\ st \in {"thread", "launched"} => n > Len(im.segments) /\ StackIsThere(ac)
    /\ pr = "scheduled" => st = "launched"
ElfInv == ElfGood(image, step, seg, contents, access, copying, proc)

\* A loaded segment of a file: typed, and below the stack.
LEMMA SegOf ==
    ASSUME NEW f \in Images, NEW i \in 1 .. Len(f.segments)
    PROVE  /\ f.segments[i] \in Segments
           /\ Len(f.segments) \in Nat /\ DOMAIN f.segments = 1 .. Len(f.segments)
           /\ f.segments[i].load => seg_end(f.segments[i]) <= USER_STACK_BASE
BY ElfImagesAssumption

\* Addresses of a segment are user addresses in its pages, and so is its page.
LEMMA InPages ==
    ASSUME NEW s \in Segments, seg_end(s) <= USER_STACK_BASE, seg_base(s) < seg_end(s)
    PROVE  /\ \A k \in 0 .. s.memsz - 1 :
                s.vaddr + k \in UserSpace /\ s.vaddr + k \in seg_base(s) .. seg_end(s) - 1
           /\ s.vaddr \div ELF_PAGE \in Pages
           /\ (s.vaddr \div ELF_PAGE) * ELF_PAGE \in seg_base(s) .. seg_end(s) - 1
<1> DEFINE B == seg_base(s)
           E == seg_end(s)
           v == s.vaddr
           m == s.memsz
           q == s.vaddr \div ELF_PAGE
<1>1. B \in Nat /\ E \in Nat /\ v \in Nat /\ m \in Nat /\ B <= v /\ v + m <= E
      /\ B = q * ELF_PAGE /\ q \in Nat
  BY SegIs
<1>2. B < E /\ E <= USER_STACK_BASE
  OBVIOUS
<1>3. USER_STACK_BASE \in Nat /\ USER_STACK_TOP \in Nat /\ USER_STACK_BASE < USER_STACK_TOP
  BY ElfAssumption
<1> HIDE DEF B, E, v, m, q
<1>4. \A k \in 0 .. m - 1 : v + k \in UserSpace /\ v + k \in B .. E - 1
  BY <1>1, <1>2, <1>3 DEF UserSpace
<1>5. q * ELF_PAGE < USER_STACK_TOP
  BY <1>1, <1>2, <1>3
<1>6. q \in Pages
  BY <1>5, <1>1, PageIn
<1>7. q * ELF_PAGE \in B .. E - 1
  BY <1>1, <1>2
<1> QED
  BY <1>4, <1>6, <1>7 DEF B, E, v, m, q

\* What changes outside the pages of a loaded segment leaves it alone.
Elsewhere(c, c2, ac, ac2, B, E) ==
    /\ \A a \in UserSpace : a \notin B .. E - 1 => c2[a] = c[a]
    /\ \A p \in Pages : p * ELF_PAGE \notin B .. E - 1 => ac2[p] = ac[p]

\* A segment outside the range a step touches stays mapped and right.
LEMMA Kept ==
    ASSUME NEW s \in Segments, seg_end(s) <= USER_STACK_BASE,
           NEW c, NEW c2, NEW ac, NEW ac2, NEW B \in Nat, NEW E \in Nat,
           Elsewhere(c, c2, ac, ac2, B, E),
           E <= seg_base(s) \/ seg_end(s) <= B,
           Mapped(ac, s), Right(c, s, s.memsz)
    PROVE  Mapped(ac2, s) /\ Right(c2, s, s.memsz)
<1> DEFINE sb == seg_base(s)
           se == seg_end(s)
           q == s.vaddr \div ELF_PAGE
<1>1. sb < se /\ sb \in Nat /\ se \in Nat
  BY SegIs DEF Mapped
<1>2. /\ \A k \in 0 .. s.memsz - 1 : s.vaddr + k \in UserSpace /\ s.vaddr + k \in sb .. se - 1
      /\ q \in Pages /\ q * ELF_PAGE \in sb .. se - 1
  BY <1>1, InPages
<1>3. E <= sb \/ se <= B
  OBVIOUS
<1> HIDE DEF sb, se
<1>4. \A x \in sb .. se - 1 : x \notin B .. E - 1
  BY <1>1, <1>3
<1>5. ac2[q] = ac[q]
  BY <1>2, <1>4 DEF Elsewhere
<1>6. \A k \in 0 .. s.memsz - 1 : c2[s.vaddr + k] = c[s.vaddr + k]
  BY <1>2, <1>4 DEF Elsewhere
<1>7. Mapped(ac2, s)
  BY <1>5 DEF Mapped, sb, se
<1>8. Right(c2, s, s.memsz)
  BY <1>6 DEF Right
<1> QED
  BY <1>7, <1>8

\* ... and so does a change in the pages of another segment, or in the stack.
LEMMA PrefixKept ==
    ASSUME NEW f \in Images, NEW n \in Nat, NEW c, NEW c2, NEW ac, NEW ac2,
           NEW B \in Nat, NEW E \in Nat, Elsewhere(c, c2, ac, ac2, B, E),
           Prefix(n, f, c, ac),
           \A i \in 1 .. Len(f.segments) : i < n /\ f.segments[i].load =>
               E <= seg_base(f.segments[i]) \/ seg_end(f.segments[i]) <= B
    PROVE  Prefix(n, f, c2, ac2)
<1> SUFFICES ASSUME NEW i \in 1 .. Len(f.segments), i < n, f.segments[i].load
             PROVE  Mapped(ac2, f.segments[i]) /\ Right(c2, f.segments[i], f.segments[i].memsz)
  BY DEF Prefix
<1>1. f.segments[i] \in Segments /\ seg_end(f.segments[i]) <= USER_STACK_BASE
  BY SegOf
<1>2. Mapped(ac, f.segments[i]) /\ Right(c, f.segments[i], f.segments[i].memsz)
  BY DEF Prefix
<1>3. E <= seg_base(f.segments[i]) \/ seg_end(f.segments[i]) <= B
  OBVIOUS
<1> QED
  BY <1>1, <1>2, <1>3, Kept

\* vmm_space_alloc maps its range and touches nothing else.
LEMMA Allocates ==
    ASSUME NEW B \in Nat, NEW E \in Nat, NEW fl, space_alloc(B, E, fl)
    PROVE  /\ Elsewhere(contents, contents', access, access', B, E)
           /\ \A p \in Pages : p * ELF_PAGE \in B .. E - 1 => access'[p] = fl
BY DEF space_alloc, Elsewhere

\* A load that fails keeps ElfInv.
LEMMA ElfFails ==
    ASSUME ElfInv, fails
    PROVE  ElfInv'
BY DEF ElfInv, ElfGood, fails

\* A segment is mapped.
LEMMA ElfMaps ==
    ASSUME ElfInv, step = "segment", seg <= Len(image.segments), ph.load, ~refused,
           space_alloc(va_base, va_end, {"user", "read"} \cup ph.flags),
           copying' = [src |-> ph.offset, file |-> ph.filesz, va |-> ph.vaddr, mem |-> ph.memsz],
           step' = "copy", UNCHANGED <<image, seg, proc>>
    PROVE  ElfInv'
<1> DEFINE s == ph
           B == va_base
           E == va_end
           fl == {"user", "read"} \cup ph.flags
<1>1. image \in Images /\ seg \in 1 .. Len(image.segments) /\ seg \in Nat \ {0}
      /\ Prefix(seg, image, contents, access) /\ proc # "scheduled"
  <2>1. image \in Images /\ seg \in Nat \ {0} /\ Prefix(seg, image, contents, access)
        /\ proc # "scheduled"
    BY DEF ElfInv, ElfGood
  <2>2. Len(image.segments) \in Nat
    BY <2>1, ElfImagesAssumption
  <2> QED
    BY <2>1, <2>2
<1>2. s \in Segments /\ seg_end(s) <= USER_STACK_BASE
  BY <1>1, SegOf DEF ph
<1>3. B = seg_base(s) /\ E = seg_end(s)
  BY DEF va_base, va_end
<1>4. /\ B \in Nat /\ E \in Nat /\ s.vaddr \in Nat /\ s.memsz \in Nat /\ s.filesz \in Nat
      /\ s.offset \in Nat /\ B <= s.vaddr /\ s.vaddr + s.memsz <= E /\ s.flags \subseteq {"write", "exec"}
  BY <1>2, <1>3, SegIs
<1>5. B < E /\ s.filesz <= s.memsz
  BY <1>4 DEF refused
<1>6. /\ Elsewhere(contents, contents', access, access', B, E)
      /\ \A p \in Pages : p * ELF_PAGE \in B .. E - 1 => access'[p] = fl
  BY <1>4, Allocates
<1>7. s.vaddr \div ELF_PAGE \in Pages /\ (s.vaddr \div ELF_PAGE) * ELF_PAGE \in B .. E - 1
  BY <1>2, <1>3, <1>5, InPages
<1>8. Mapped(access', s)
  <2>1. access'[s.vaddr \div ELF_PAGE] = fl
    BY <1>6, <1>7
  <2>2. fl \ {"user", "read"} = s.flags
    BY <1>4
  <2> QED
    BY <2>1, <2>2, <1>3, <1>5 DEF Mapped
<1>9. \A i \in 1 .. Len(image.segments) : i < seg /\ image.segments[i].load =>
               E <= seg_base(image.segments[i]) \/ seg_end(image.segments[i]) <= B
  BY <1>1, <1>3, ElfImagesAssumption DEF ph
<1>10. Prefix(seg, image, contents', access')
  BY <1>1, <1>4, <1>6, <1>9, PrefixKept
<1>11. Halfway(contents', s, copying')
  <2>1. copying'.src = s.offset /\ copying'.file = s.filesz /\ copying'.va = s.vaddr
        /\ copying'.mem = s.memsz
    OBVIOUS
  <2>2. Right(contents', s, s.memsz - copying'.mem)
    BY <2>1, <1>4 DEF Right
  <2> HIDE DEF s
  <2> QED
    BY <2>1, <2>2, <1>4, <1>5 DEF Halfway
<1>12. s = image'.segments[seg']
  BY DEF ph
<1> HIDE DEF s, B, E, fl
<1> QED
  BY <1>1, <1>8, <1>10, <1>11, <1>12 DEF ElfInv, ElfGood, s, ph

\* What is left of the file part with `mem' bytes to go, and how much of a
\* chunk comes from the file.
Leftover(m, mem, fs) == IF m - mem < fs THEN fs - (m - mem) ELSE 0
Least(x, y) == IF x < y THEN x ELSE y

\* One turn of the copy loop, as arithmetic: after it every byte of the first
\* m - mem + chunk is right, from the file, cleared, or from before.
Turned(v, m, fs, o, src, file, va, mem, chunk, copied) ==
    \A k \in 0 .. (m - (mem - chunk)) - 1 :
        \/ v + k \in va .. (va + copied) - 1 /\ k < fs /\ src + ((v + k) - va) = o + k
        \/ /\ v + k \notin va .. (va + copied) - 1
           /\ v + k \in va + copied .. (va + chunk) - 1 /\ ~(k < fs)
        \/ /\ v + k \notin va .. (va + copied) - 1
           /\ v + k \notin va + copied .. (va + chunk) - 1 /\ k < m - mem

Turning(v, m, fs, o, src, file, va, mem, chunk, copied) ==
    /\ v \in Nat /\ m \in Nat /\ fs \in Nat /\ o \in Nat /\ src \in Nat /\ file \in Nat
    /\ va \in Nat /\ mem \in Nat /\ chunk \in Nat /\ copied \in Nat
    /\ mem <= m /\ va + mem = v + m /\ fs <= m /\ src + file = o + fs
    /\ file = Leftover(m, mem, fs) /\ chunk <= mem /\ copied = Least(chunk, file)

\* The counters of the copy loop after one turn.
LEMMA CopyTurn ==
    ASSUME NEW v, NEW m, NEW fs, NEW o, NEW src, NEW file, NEW va, NEW mem,
           NEW chunk, NEW copied,
           Turning(v, m, fs, o, src, file, va, mem, chunk, copied)
    PROVE  /\ copied <= file /\ copied <= chunk
           /\ (src + copied) + (file - copied) = o + fs
           /\ (va + chunk) + (mem - chunk) = v + m
           /\ file - copied = Leftover(m, mem - chunk, fs)
           /\ Turned(v, m, fs, o, src, file, va, mem, chunk, copied)
<1> USE DEF Turning
<1>1. copied <= file /\ copied <= chunk
  BY DEF Least
<1>2. (src + copied) + (file - copied) = o + fs /\ (va + chunk) + (mem - chunk) = v + m
  BY <1>1
<1>3. file - copied = Leftover(m, mem - chunk, fs)
  BY <1>1 DEF Leftover, Least
<1>4. ASSUME NEW k \in 0 .. (m - (mem - chunk)) - 1
      PROVE  \/ v + k \in va .. (va + copied) - 1 /\ k < fs /\ src + ((v + k) - va) = o + k
             \/ /\ v + k \notin va .. (va + copied) - 1
                /\ v + k \in va + copied .. (va + chunk) - 1 /\ ~(k < fs)
             \/ /\ v + k \notin va .. (va + copied) - 1
                /\ v + k \notin va + copied .. (va + chunk) - 1 /\ k < m - mem
  BY <1>1 DEF Leftover, Least
<1>5. Turned(v, m, fs, o, src, file, va, mem, chunk, copied)
  BY <1>4 DEF Turned
<1> QED
  BY <1>1, <1>2, <1>3, <1>5

\* One turn of the copy loop keeps ElfInv.
LEMMA ElfCopies ==
    ASSUME ElfInv, copy_page
    PROVE  ElfInv'
<1> DEFINE s == ph
           left == ELF_PAGE - (copying.va % ELF_PAGE)
           chunk == IF left > copying.mem THEN copying.mem ELSE left
           copied == IF chunk < copying.file THEN chunk ELSE copying.file
           d == s.memsz - copying.mem
<1>1. step = "copy" /\ copying.mem > 0 /\ UNCHANGED <<image, step, seg, access, proc>>
  BY DEF copy_page
<1>2. /\ contents' = [a \in UserSpace |->
               IF a \in copying.va .. copying.va + copied - 1 THEN copying.src + (a - copying.va)
               ELSE IF a \in copying.va + copied .. copying.va + chunk - 1 THEN ZERO
               ELSE contents[a]]
      /\ copying' = [src |-> copying.src + copied, file |-> copying.file - copied,
                     va |-> copying.va + chunk, mem |-> copying.mem - chunk]
  BY DEF copy_page, rest_of_file
<1>3. /\ image \in Images /\ seg \in Nat \ {0} /\ seg <= Len(image.segments) /\ s.load
      /\ Prefix(seg, image, contents, access) /\ Mapped(access, s)
      /\ Halfway(contents, s, copying) /\ proc # "scheduled"
  BY <1>1 DEF ElfInv, ElfGood, ph
<1>4. seg \in 1 .. Len(image.segments)
  BY <1>3, ElfImagesAssumption
<1>5. s \in Segments /\ seg_end(s) <= USER_STACK_BASE
  BY <1>3, <1>4, SegOf DEF ph
<1>6. /\ seg_base(s) \in Nat /\ seg_end(s) \in Nat /\ s.vaddr \in Nat /\ s.memsz \in Nat
      /\ s.filesz \in Nat /\ s.offset \in Nat
      /\ seg_base(s) <= s.vaddr /\ s.vaddr + s.memsz <= seg_end(s) /\ seg_base(s) < seg_end(s)
  BY <1>3, <1>5, SegIs DEF Mapped
<1>7. \A k \in 0 .. s.memsz - 1 :
          s.vaddr + k \in UserSpace /\ s.vaddr + k \in seg_base(s) .. seg_end(s) - 1
  BY <1>5, <1>6, InPages
<1>8. /\ copying.src \in Nat /\ copying.file \in Nat /\ copying.va \in Nat /\ copying.mem \in Nat
      /\ copying.mem <= s.memsz /\ copying.va + copying.mem = s.vaddr + s.memsz
      /\ s.filesz <= s.memsz /\ copying.src + copying.file = s.offset + s.filesz
      /\ copying.file = IF s.memsz - copying.mem < s.filesz
                        THEN s.filesz - (s.memsz - copying.mem) ELSE 0
      /\ Right(contents, s, s.memsz - copying.mem)
  BY <1>3 DEF Halfway
<1>9. left \in Nat
  <2>1. ELF_PAGE \in Nat /\ copying.va % ELF_PAGE \in 0 .. ELF_PAGE - 1
    BY <1>8, PageOf, ElfAssumption
  <2> QED
    BY <2>1
<1> HIDE DEF left
<1>10. chunk \in Nat /\ chunk <= copying.mem
  BY <1>8, <1>9
<1> HIDE DEF chunk
<1>11. copied \in Nat
  BY <1>8, <1>10
<1>12. copied = IF chunk < copying.file THEN chunk ELSE copying.file
  OBVIOUS
<1> HIDE DEF copied
<1> DEFINE v == s.vaddr
           m == s.memsz
           fs == s.filesz
           o == s.offset
           src == copying.src
           file == copying.file
           va == copying.va
           mem == copying.mem
<1>13. /\ v \in Nat /\ m \in Nat /\ fs \in Nat /\ o \in Nat /\ src \in Nat /\ file \in Nat
       /\ va \in Nat /\ mem \in Nat
       /\ mem <= m /\ va + mem = v + m /\ fs <= m /\ src + file = o + fs
       /\ file = Leftover(m, mem, fs)
       /\ chunk <= mem /\ copied = Least(chunk, file)
  BY <1>6, <1>8, <1>10, <1>12 DEF Leftover, Least
<1>14. copying' = [src |-> src + copied, file |-> file - copied,
                   va |-> va + chunk, mem |-> mem - chunk]
  BY <1>2
<1>15. \A k \in 0 .. m - 1 : v + k \in UserSpace
  BY <1>7
<1>16. \A a \in UserSpace : contents'[a] =
               IF a \in va .. (va + copied) - 1 THEN src + (a - va)
               ELSE IF a \in va + copied .. (va + chunk) - 1 THEN ZERO
               ELSE contents[a]
  <2> HIDE DEF va, src
  <2>1. va + copied - 1 = (va + copied) - 1 /\ va + chunk - 1 = (va + chunk) - 1
    BY <1>10, <1>11, <1>13
  <2>2. contents' = [a \in UserSpace |->
               IF a \in va .. va + copied - 1 THEN src + (a - va)
               ELSE IF a \in va + copied .. va + chunk - 1 THEN ZERO
               ELSE contents[a]]
    BY <1>2 DEF va, src
  <2> QED
    BY <2>1, <2>2
<1>17. \A k \in 0 .. (m - mem) - 1 : contents[v + k] = IF k < fs THEN o + k ELSE ZERO
  BY <1>8 DEF Right
<1>18. Halfway(contents', s, copying') <=>
        /\ copying'.src \in Nat /\ copying'.file \in Nat /\ copying'.va \in Nat /\ copying'.mem \in Nat
        /\ copying'.mem <= m /\ copying'.va + copying'.mem = v + m
        /\ fs <= m
        /\ copying'.src + copying'.file = o + fs
        /\ copying'.file = Leftover(m, copying'.mem, fs)
        /\ \A k \in 0 .. (m - copying'.mem) - 1 : contents'[v + k] = IF k < fs THEN o + k ELSE ZERO
  BY DEF Halfway, Right, Leftover
<1>19. /\ \A a \in UserSpace : a \notin seg_base(s) .. seg_end(s) - 1 => contents'[a] = contents[a]
  <2>1. \A a \in UserSpace : a \in va .. (va + chunk) - 1 => a \in seg_base(s) .. seg_end(s) - 1
    <3> DEFINE B == seg_base(s)
               E == seg_end(s)
    <3>1. B \in Nat /\ E \in Nat /\ B <= v /\ v + m <= E
      BY <1>6
    <3> HIDE DEF v, m, fs, o, src, file, va, mem, B, E
    <3>2. v <= va /\ va + chunk <= v + m
      BY <1>10, <1>13
    <3>3. \A a \in va .. (va + chunk) - 1 : a \in B .. E - 1
      BY <3>1, <3>2, <1>10, <1>13
    <3> QED
      BY <3>3 DEF B, E
  <2>2. copied <= chunk
    <3> HIDE DEF v, m, fs, o, src, file, va, mem
    <3> QED
      BY <1>10, <1>11, <1>13 DEF Least
  <2>3. \A a : (a \in va .. (va + copied) - 1 \/ a \in va + copied .. (va + chunk) - 1)
               => a \in va .. (va + chunk) - 1
    <3> HIDE DEF v, m, fs, o, src, file, va, mem
    <3> QED
      BY <2>2, <1>10, <1>11, <1>13
  <2> HIDE DEF va, src
  <2> QED
    BY <2>1, <2>3, <1>16
<1>20. Prefix(seg, image, contents', access)
  <2> DEFINE B == seg_base(s)
             E == seg_end(s)
  <2>1. Elsewhere(contents, contents', access, access, B, E)
    BY <1>19 DEF Elsewhere
  <2>2. \A i \in 1 .. Len(image.segments) : i < seg /\ image.segments[i].load =>
               E <= seg_base(image.segments[i]) \/ seg_end(image.segments[i]) <= B
    BY <1>3, <1>4, ElfImagesAssumption DEF ph
  <2>3. B \in Nat /\ E \in Nat
    BY <1>6
  <2> HIDE DEF B, E
  <2> QED
    BY <2>1, <2>2, <2>3, <1>3, PrefixKept
<1>21. Halfway(contents', s, copying')
  <2> HIDE DEF s, v, m, fs, o, src, file, va, mem
  <2>1. /\ copied <= file /\ copied <= chunk
        /\ (src + copied) + (file - copied) = o + fs
        /\ (va + chunk) + (mem - chunk) = v + m
        /\ file - copied = Leftover(m, mem - chunk, fs)
        /\ Turned(v, m, fs, o, src, file, va, mem, chunk, copied)
    <3>1. Turning(v, m, fs, o, src, file, va, mem, chunk, copied)
      BY <1>10, <1>11, <1>13 DEF Turning
    <3> QED
      BY <3>1, CopyTurn
  <2>2. copying'.src = src + copied /\ copying'.file = file - copied
        /\ copying'.va = va + chunk /\ copying'.mem = mem - chunk
    BY <1>14
  <2>3. src + copied \in Nat /\ file - copied \in Nat /\ va + chunk \in Nat /\ mem - chunk \in Nat
        /\ mem - chunk <= m
    BY <2>1, <1>10, <1>11, <1>13
  <2>4. ASSUME NEW k \in 0 .. (m - (mem - chunk)) - 1
        PROVE  contents'[v + k] = IF k < fs THEN o + k ELSE ZERO
    <3> DEFINE a == v + k
    <3>0. k \in Nat /\ k \in 0 .. m - 1
      BY <2>3, <1>13
    <3>1. a \in UserSpace
      BY <3>0, <1>15
    <3>2. contents'[a] = IF a \in va .. (va + copied) - 1 THEN src + (a - va)
               ELSE IF a \in va + copied .. (va + chunk) - 1 THEN ZERO
               ELSE contents[a]
      BY <3>1, <1>16
    <3>3. \/ a \in va .. (va + copied) - 1 /\ k < fs /\ src + (a - va) = o + k
          \/ /\ a \notin va .. (va + copied) - 1
             /\ a \in va + copied .. (va + chunk) - 1 /\ ~(k < fs)
          \/ /\ a \notin va .. (va + copied) - 1
             /\ a \notin va + copied .. (va + chunk) - 1 /\ k < m - mem
      BY <2>1 DEF Turned
    <3>4. k < m - mem => contents[a] = IF k < fs THEN o + k ELSE ZERO
      <4> SUFFICES ASSUME k < m - mem PROVE contents[a] = IF k < fs THEN o + k ELSE ZERO
        OBVIOUS
      <4>1. k \in 0 .. (m - mem) - 1
        BY <3>0, <1>13
      <4> QED
        BY <4>1, <1>17
    <3> HIDE DEF a
    <3>5. contents'[a] = IF k < fs THEN o + k ELSE ZERO
      BY <3>2, <3>3, <3>4
    <3> QED
      BY <3>5 DEF a
  <2>5. \A k \in 0 .. (m - copying'.mem) - 1 : contents'[v + k] = IF k < fs THEN o + k ELSE ZERO
    BY <2>2, <2>4
  <2> QED
    BY <1>13, <1>18, <2>1, <2>2, <2>3, <2>5
<1> HIDE DEF v, m, fs, o, src, file, va, mem
<1> QED
  BY <1>1, <1>3, <1>20, <1>21 DEF ElfInv, ElfGood, ph

\* The segment is there: it joins the ones before it.
LEMMA ElfCopied ==
    ASSUME ElfInv, copied_segment
    PROVE  ElfInv'
<1>1. /\ step = "copy" /\ copying.mem = 0 /\ step' = "segment" /\ seg' = seg + 1
      /\ UNCHANGED <<image, copying, contents, access, proc>>
  BY DEF copied_segment
<1>2. /\ image \in Images /\ seg \in Nat \ {0} /\ seg <= Len(image.segments)
      /\ Prefix(seg, image, contents, access) /\ Mapped(access, image.segments[seg])
      /\ Halfway(contents, image.segments[seg], copying) /\ proc # "scheduled"
  BY <1>1 DEF ElfInv, ElfGood
<1>3. image.segments[seg].memsz \in Nat
  <2>1. seg \in 1 .. Len(image.segments)
    BY <1>2, ElfImagesAssumption
  <2> QED
    BY <2>1, <1>2, SegOf, SegIs
<1>4. image.segments[seg].memsz - 0 = image.segments[seg].memsz
  <2> DEFINE m == image.segments[seg].memsz
  <2>1. m \in Nat
    BY <1>3
  <2> HIDE DEF m
  <2>2. m - 0 = m
    BY <2>1
  <2> QED
    BY <2>2 DEF m
<1>5. Right(contents, image.segments[seg], image.segments[seg].memsz)
  BY <1>1, <1>2, <1>4 DEF Halfway
<1>6. Prefix(seg + 1, image, contents, access)
  <2> SUFFICES ASSUME NEW i \in 1 .. Len(image.segments), i < seg + 1, image.segments[i].load
               PROVE  Mapped(access, image.segments[i])
                      /\ Right(contents, image.segments[i], image.segments[i].memsz)
    BY DEF Prefix
  <2>1. i < seg \/ i = seg
    BY <1>2
  <2> QED
    BY <2>1, <1>2, <1>5 DEF Prefix
<1>7. seg + 1 \in Nat \ {0}
  BY <1>2
<1> QED
  BY <1>1, <1>2, <1>6, <1>7 DEF ElfInv, ElfGood

\* The stack lies above every segment.
LEMMA ElfStack ==
    ASSUME ElfInv, map_stack
    PROVE  ElfInv'
<1>1. CASE fails
  BY <1>1, ElfFails
<1>2. CASE /\ space_alloc(USER_STACK_BASE, USER_STACK_TOP, {"user", "read", "write"})
           /\ step' = "thread" /\ UNCHANGED <<image, seg, copying, proc>>
  <2>1. /\ image \in Images /\ seg \in Nat \ {0} /\ seg > Len(image.segments)
        /\ Prefix(seg, image, contents, access) /\ proc # "scheduled"
    BY DEF ElfInv, ElfGood, map_stack
  <2>2. USER_STACK_BASE \in Nat /\ USER_STACK_TOP \in Nat
    BY ElfAssumption
  <2>3. /\ Elsewhere(contents, contents', access, access', USER_STACK_BASE, USER_STACK_TOP)
        /\ \A p \in Pages : p * ELF_PAGE \in USER_STACK_BASE .. USER_STACK_TOP - 1
                            => access'[p] = {"user", "read", "write"}
    BY <1>2, <2>2, Allocates
  <2>4. \A i \in 1 .. Len(image.segments) : i < seg /\ image.segments[i].load =>
               USER_STACK_TOP <= seg_base(image.segments[i])
               \/ seg_end(image.segments[i]) <= USER_STACK_BASE
    BY <2>1, SegOf
  <2>5. Prefix(seg, image, contents', access')
    BY <2>1, <2>2, <2>3, <2>4, PrefixKept
  <2>6. StackIsThere(access')
    BY <2>3, StackPage DEF StackIsThere
  <2> QED
    BY <1>2, <2>1, <2>5, <2>6 DEF ElfInv, ElfGood
<1> QED
  BY <1>1, <1>2 DEF map_stack

\* Going on to the next segment keeps ElfInv.
LEMMA ElfSegment ==
    ASSUME ElfInv, next_segment
    PROVE  ElfInv'
<1>0. step = "segment" /\ seg <= Len(image.segments)
  BY DEF next_segment
<1>1. CASE ph.load /\ fails
  BY <1>1, ElfFails
<1>2. CASE ~ph.load /\ seg' = seg + 1 /\ UNCHANGED <<image, step, copying, contents, access, proc>>
  <2>1. /\ image \in Images /\ seg \in Nat \ {0}
        /\ Prefix(seg, image, contents, access) /\ proc # "scheduled"
    BY <1>0 DEF ElfInv, ElfGood
  <2>2. Prefix(seg + 1, image, contents, access)
    <3> SUFFICES ASSUME NEW i \in 1 .. Len(image.segments), i < seg + 1, image.segments[i].load
                 PROVE  Mapped(access, image.segments[i])
                        /\ Right(contents, image.segments[i], image.segments[i].memsz)
      BY DEF Prefix
    <3>1. i # seg
      BY <1>2 DEF ph
    <3>2. i < seg
      BY <3>1, <2>1
    <3> QED
      BY <3>2, <2>1 DEF Prefix
  <2>3. seg + 1 \in Nat \ {0}
    BY <2>1
  <2> QED
    BY <1>0, <1>2, <2>1, <2>2, <2>3 DEF ElfInv, ElfGood
<1>3. CASE /\ ph.load /\ ~refused
           /\ space_alloc(va_base, va_end, {"user", "read"} \cup ph.flags)
           /\ copying' = [src |-> ph.offset, file |-> ph.filesz, va |-> ph.vaddr, mem |-> ph.memsz]
           /\ step' = "copy"
           /\ UNCHANGED <<image, seg, proc>>
  BY <1>0, <1>3, ElfMaps
<1> QED
  BY <1>1, <1>2, <1>3 DEF next_segment

\* Every step of elf_load keeps ElfInv.
LEMMA ElfStep ==
    ASSUME ElfInv, [ElfNext]_elfvars
    PROVE  ElfInv'
<1>1. CASE UNCHANGED elfvars
  BY <1>1 DEF ElfInv, ElfGood, elfvars
<1>2. CASE process_create_user
  <2>1. CASE fails
    BY <2>1, ElfFails
  <2>2. CASE step' = "segment" /\ proc' = "created"
             /\ UNCHANGED <<image, seg, copying, contents, access>>
    <3>1. image \in Images /\ seg \in Nat \ {0}
      BY DEF ElfInv, ElfGood
    <3>2. seg = 1
      BY <1>2 DEF ElfInv, ElfGood, process_create_user
    <3>3. Prefix(seg, image, contents, access)
      BY <3>2 DEF Prefix
    <3> QED
      BY <2>2, <3>1, <3>3 DEF ElfInv, ElfGood
  <2> QED
    BY <1>2, <2>1, <2>2 DEF process_create_user
<1>3. CASE thread_create_user
  <2>1. CASE fails
    BY <2>1, ElfFails
  <2>2. CASE step' = "launched" /\ UNCHANGED <<image, seg, copying, contents, access>>
    BY <1>3, <2>2 DEF ElfInv, ElfGood, thread_create_user
  <2> QED
    BY <1>3, <2>1, <2>2 DEF thread_create_user
<1>4. CASE copied_segment
  BY <1>4, ElfCopied
<1>5. CASE copy_page
  BY <1>5, ElfCopies
<1>6. CASE next_segment
  BY <1>6, ElfSegment
<1>7. CASE map_stack
  BY <1>7, ElfStack
<1> QED
  BY <1>1, <1>2, <1>3, <1>4, <1>5, <1>6, <1>7 DEF ElfNext

\* ElfInv holds at first.
LEMMA ElfStart ==
    ASSUME ElfInit
    PROVE  ElfInv
BY DEF ElfInit, ElfInv, ElfGood

\* elf_load: a process that is scheduled has every byte of every segment of
\* its file in place, with zeroes behind them, under the segment's access
\* rights, and a stack it may write to, whatever the size of a page, wherever
\* segments start and end in their pages, and however often it fails before.
THEOREM ProgramsAreLoaded == ElfSpec => []LoadedIsImage
<1>1. ElfInit => ElfInv
  BY ElfStart
<1>2. ElfInv /\ [ElfNext]_elfvars => ElfInv'
  BY ElfStep
<1>3. ElfInv => LoadedIsImage
  <2> SUFFICES ASSUME ElfInv, proc = "scheduled"
               PROVE  LoadedIsImage
    BY DEF LoadedIsImage
  <2>1. image \in Images /\ seg \in Nat /\ step = "launched" /\ seg > Len(image.segments)
        /\ Prefix(seg, image, contents, access) /\ StackIsThere(access)
    BY DEF ElfInv, ElfGood
  <2>2. Len(image.segments) \in Nat /\ DOMAIN image.segments = 1 .. Len(image.segments)
    BY <2>1, ElfImagesAssumption
  <2>3. \A i \in 1 .. Len(image.segments) : i < seg
    BY <2>1, <2>2
  <2>4. ASSUME NEW i \in DOMAIN image.segments, image.segments[i].load
        PROVE  Mapped(access, image.segments[i])
               /\ Right(contents, image.segments[i], image.segments[i].memsz)
    BY <2>1, <2>2, <2>3, <2>4 DEF Prefix
  <2> QED
    BY <2>1, <2>4 DEF LoadedIsImage, Mapped, Right, StackIsThere
<1> QED
  BY <1>1, <1>2, <1>3, PTL DEF ElfSpec

\* A set of numbers that is not empty has a least one.
LEMMA LeastNumber ==
  ASSUME NEW S \in SUBSET Nat, S # {}
  PROVE  \E x \in S : \A y \in S : x <= y
<1> DEFINE R == OpToRel(<, Nat)
<1>1. IsWellFoundedOn(R, Nat) BY NatLessThanWellFounded
<1>2. R = {ss \in Nat \X Nat : ss[1] < ss[2]} BY DEF OpToRel
<1> HIDE DEF R
<1>3. PICK x \in S : \A y \in S : ~ (<<y, x>> \in R) BY <1>1, WFMin
<1>4. \A y \in S : ~ (y < x) BY <1>2, <1>3
<1> QED BY <1>4

-----------------------------------------------------------------------------
(* Physical frames.                                                        *)

\* A bounded set of numbers has a greatest one.
LEMMA GreatestIs ==
    ASSUME NEW S \in SUBSET Nat, S # {}, NEW u \in Nat, \A x \in S : x <= u
    PROVE  Greatest(S) \in Nat
<1> DEFINE B == {v \in Nat : \A x \in S : x <= v}
<1>1. B \in SUBSET Nat /\ B # {}
  OBVIOUS
<1>2. PICK v \in B : \A w \in B : v <= w
  BY <1>1, LeastNumber
<1>3. v \in S
  <2> SUFFICES ASSUME v \notin S PROVE FALSE
    OBVIOUS
  <2>1. v \in Nat /\ \A x \in S : x < v
    BY <1>2
  <2>2. v > 0
    <3>1. PICK x \in S : TRUE
      OBVIOUS
    <3>2. x \in Nat /\ x < v
      BY <2>1, <3>1
    <3> QED
      BY <2>1, <3>2
  <2>3. v - 1 \in Nat /\ \A x \in S : x <= v - 1
    BY <2>1, <2>2
  <2>4. v - 1 \in B
    BY <2>3
  <2> QED
    BY <1>2, <2>1, <2>4
<1>4. \E x \in S : \A y \in S : y <= x
  BY <1>3
<1> QED
  BY <1>4 DEF Greatest

\* The memory map of one boot.
LEMMA MapIs ==
    ASSUME NEW m \in MemoryMaps
    PROVE  /\ m \in Seq(MapEntries) /\ Len(m) \in Nat /\ DOMAIN m = 1 .. Len(m)
           /\ \A i \in 1 .. Len(m) :
                 /\ m[i] \in MapEntries /\ m[i].base \in Nat /\ m[i].length \in Nat
                 /\ m[i].type = "usable" => m[i].base % PAGE_SIZE = 0
<1>1. m \in Seq(MapEntries)
  BY PhysMemAssumption
<1>2. \A i \in 1 .. Len(m) : m[i] \in MapEntries
  BY <1>1
<1>3. \A e \in MapEntries : e.base \in Nat /\ e.length \in Nat
  BY DEF MapEntries
<1> QED
  BY <1>1, <1>2, <1>3, PhysMemAssumption

\* MapEntries end somewhere.
LEMMA EndsBounded ==
    ASSUME NEW m \in MemoryMaps
    PROVE  \E u \in Nat : \A i \in 1 .. Len(m) : m[i].base + m[i].length <= u
<1> DEFINE Upto(n, u) == \A i \in 1 .. n : m[i].base + m[i].length <= u
           B == {n \in 0 .. Len(m) : ~ \E u \in Nat : Upto(n, u)}
<1>0. Len(m) \in Nat
  BY MapIs
<1> SUFFICES ASSUME B # {} PROVE FALSE
  <2>1. Len(m) \in 0 .. Len(m)
    BY <1>0
  <2> SUFFICES \E u \in Nat : Upto(Len(m), u)
    OBVIOUS
  <2> HIDE DEF Upto
  <2> QED
    BY <2>1
<1>1. B \in SUBSET Nat
  OBVIOUS
<1>2. PICK n \in B : \A k \in B : n <= k
  BY <1>1, LeastNumber
<1>3. n # 0
  <2>1. Upto(0, 0)
    OBVIOUS
  <2> QED
    BY <1>2, <2>1
<1> DEFINE h == n - 1
<1>4. h \in 0 .. Len(m) /\ h + 1 = n /\ n \in 1 .. Len(m) /\ h \notin B
  <2>1. n \in 0 .. Len(m)
    OBVIOUS
  <2>2. h \in 0 .. Len(m) /\ h + 1 = n /\ n \in 1 .. Len(m) /\ ~ (n <= h)
    BY <1>0, <1>3, <2>1
  <2> HIDE DEF B, h
  <2> QED
    BY <1>2, <2>2
<1>5. PICK u \in Nat : Upto(h, u)
  BY <1>4
<1> DEFINE w == m[n].base + m[n].length
<1>6. w \in Nat
  <2> DEFINE x == m[n].base
             y == m[n].length
  <2>1. x \in Nat /\ y \in Nat
    BY <1>4, MapIs
  <2> HIDE DEF x, y
  <2>2. x + y \in Nat
    BY <2>1
  <2> QED
    BY <2>2 DEF x, y
<1> HIDE DEF h, B
<1>7. Upto(n, u + w)
  <2> SUFFICES ASSUME NEW i \in 1 .. n PROVE m[i].base + m[i].length <= u + w
    OBVIOUS
  <2>1. CASE i = n
    <3> HIDE DEF w
    <3>1. w <= u + w
      BY <1>5, <1>6
    <3> QED
      BY <2>1, <3>1 DEF w
  <2>2. CASE i # n
    <3>1. i \in 1 .. h /\ i \in 1 .. Len(m)
      BY <1>4, <2>2, <1>0
    <3> DEFINE x == m[i].base + m[i].length
    <3>2. x <= u
      BY <1>5, <3>1
    <3>3. x \in Nat
      BY <3>1, MapIs
    <3> HIDE DEF x, w
    <3>4. x <= u + w
      BY <3>2, <3>3, <1>5, <1>6
    <3> QED
      BY <3>4 DEF x
  <2> QED
    BY <2>1, <2>2
<1>8. u + w \in Nat
  BY <1>5, <1>6
<1> HIDE DEF w, Upto
<1> QED
  BY <1>2, <1>7, <1>8 DEF B

\* Dividing by the size of a page.
LEMMA FrameOf ==
    ASSUME NEW v \in Nat
    PROVE  /\ v \div PAGE_SIZE \in Nat /\ v % PAGE_SIZE \in 0 .. PAGE_SIZE - 1
           /\ v = PAGE_SIZE * (v \div PAGE_SIZE) + (v % PAGE_SIZE)
<1> DEFINE P == PAGE_SIZE
<1>1. P \in Nat \ {0}
  BY PhysMemAssumption
<1> HIDE DEF P
<1>2. /\ v \div P \in Nat /\ v % P \in 0 .. P - 1
      /\ v = P * (v \div P) + (v % P)
  BY <1>1
<1> QED
  BY <1>2 DEF P

\* The number of frames is a natural number.
LEMMA TotalNat ==
    ASSUME NEW m \in MemoryMaps
    PROVE  total(m) \in Nat
<1> DEFINE S == {e.base + e.length : e \in entries(m, {"usable", "reclaimable"})} \cup {0}
<1>1. PICK u \in Nat : \A i \in 1 .. Len(m) : m[i].base + m[i].length <= u
  BY EndsBounded
<1>2. \A e \in entries(m, {"usable", "reclaimable"}) : \E i \in 1 .. Len(m) : e = m[i]
  BY MapIs DEF entries
<1>3. \A x \in S : x \in Nat /\ x <= u
  <2> SUFFICES ASSUME NEW e \in entries(m, {"usable", "reclaimable"})
               PROVE  e.base + e.length \in Nat /\ e.base + e.length <= u
    OBVIOUS
  <2>1. PICK i \in 1 .. Len(m) : e = m[i]
    BY <1>2
  <2>2. m[i].base + m[i].length <= u
    BY <1>1
  <2>3. m[i].base \in Nat /\ m[i].length \in Nat
    BY MapIs
  <2> QED
    BY <2>1, <2>2, <2>3
<1>4. S \in SUBSET Nat /\ S # {}
  BY <1>3
<1>5. \A x \in S : x <= u
  BY <1>3
<1> HIDE DEF S
<1>6. Greatest(S) \in Nat
  BY <1>1, <1>4, <1>5, GreatestIs
<1>7. Greatest(S) \div PAGE_SIZE \in Nat
  BY <1>6, FrameOf
<1> QED
  BY <1>7 DEF total, S

\* Frames and addresses.
LEMMA WholeFrames ==
    ASSUME NEW f \in Nat, NEW a \in Nat
    PROVE  /\ f < a \div PAGE_SIZE => (f + 1) * PAGE_SIZE <= a
           /\ a % PAGE_SIZE = 0 /\ f >= a \div PAGE_SIZE => f * PAGE_SIZE >= a
           /\ (f * PAGE_SIZE) \div PAGE_SIZE = f
<1> DEFINE P == PAGE_SIZE
           q == a \div P
           r == a % P
<1>1. P \in Nat \ {0} /\ q \in Nat /\ r \in 0 .. P - 1 /\ a = P * q + r
  BY FrameOf, PhysMemAssumption
<1>2. (f * P) \div P = f
  <2> HIDE DEF P
  <2>1. f * P \in Nat
    BY <1>1
  <2> DEFINE x == f * P
             d == x \div P
             e == x % P
  <2>2. d \in Nat /\ e \in 0 .. P - 1 /\ x = P * d + e
    BY <1>1, <2>1
  <2>3. x = P * f
    BY <1>1
  <2> HIDE DEF x, d, e
  <2>4. d = f
    <3>1. ~ (d >= f + 1)
      <4> SUFFICES ASSUME d >= f + 1 PROVE FALSE
        OBVIOUS
      <4>1. P * d >= P * (f + 1) /\ P * (f + 1) = P * f + P
        BY <1>1, <2>2
      <4> DEFINE y == P * f
                 z == P * d
      <4>2. y \in Nat /\ z \in Nat /\ z >= y + P /\ y = z + e
        BY <4>1, <1>1, <2>2, <2>3
      <4> HIDE DEF y, z
      <4> QED
        BY <4>2, <1>1, <2>2
    <3>2. ~ (f >= d + 1)
      <4> SUFFICES ASSUME f >= d + 1 PROVE FALSE
        OBVIOUS
      <4>1. P * f >= P * (d + 1) /\ P * (d + 1) = P * d + P
        BY <1>1, <2>2
      <4> DEFINE y == P * f
                 z == P * d
      <4>2. y \in Nat /\ z \in Nat /\ y >= z + P /\ y = z + e
        BY <4>1, <1>1, <2>2, <2>3
      <4> HIDE DEF y, z
      <4> QED
        BY <4>2, <1>1, <2>2
    <3> QED
      BY <3>1, <3>2, <2>2
  <2> QED
    BY <2>4 DEF d, x
<1> HIDE DEF P, q, r
<1>3. ASSUME f < q PROVE (f + 1) * P <= a
  <2>1. f + 1 <= q
    BY <1>1, <1>3
  <2>2. (f + 1) * P <= q * P /\ q * P = P * q
    BY <2>1, <1>1
  <2> DEFINE x == (f + 1) * P
             y == P * q
  <2>3. x \in Nat /\ y \in Nat /\ x <= y /\ a = y + r
    BY <1>1, <2>2
  <2> HIDE DEF x, y
  <2>4. x <= a
    BY <2>3, <1>1
  <2> QED
    BY <2>4 DEF x
<1>4. ASSUME r = 0, f >= q PROVE f * P >= a
  <2>1. f * P >= q * P /\ q * P = P * q
    BY <1>1, <1>4
  <2> DEFINE x == f * P
             y == P * q
  <2>2. x \in Nat /\ y \in Nat /\ x >= y /\ a = y + r
    BY <1>1, <2>1
  <2> HIDE DEF x, y
  <2>3. x >= a
    BY <2>2, <1>1, <1>4
  <2> QED
    BY <2>3 DEF x
<1> QED
  BY <1>2, <1>3, <1>4 DEF P, q, r

\* used_bytes_to_frame_count rounds up.
LEMMA CountCovers ==
    ASSUME NEW s \in Nat
    PROVE  frame_count(s) \in Nat /\ PAGE_SIZE * frame_count(s) >= s
<1> DEFINE P == PAGE_SIZE
           x == s + P - 1
           q == x \div P
           r == x % P
<1>1. P \in Nat \ {0}
  BY PhysMemAssumption
<1>2. x \in Nat /\ x = (s + P) - 1
  BY <1>1
<1>3. q \in Nat /\ r \in 0 .. P - 1 /\ x = P * q + r
  <2> HIDE DEF x
  <2> QED
    BY <1>2, FrameOf
<1>4. frame_count(s) = q
  BY DEF frame_count
<1> HIDE DEF P, x, q, r
<1> DEFINE y == P * q
<1>5. y \in Nat
  BY <1>1, <1>3
<1>6. x = y + r
  BY <1>3
<1> HIDE DEF y
<1>7. y >= s
  BY <1>1, <1>2, <1>3, <1>5, <1>6
<1> QED
  BY <1>3, <1>4, <1>7 DEF y, P

-----------------------------------------------------------------------------
\* A frame that is not marked was cleared by a usable entry.
Clears(m, i, f) == m[i].type = "usable" /\ f \in frames_of(m, m[i])
Cleared(m, set, n) ==
    /\ set \subseteq 0 .. total(m) - 1
    /\ \A f \in 0 .. total(m) - 1 : f \notin set => \E i \in 1 .. n : Clears(m, i, f)

\* Marking one more entry of the memory map.
LEMMA MarkTurn ==
    ASSUME NEW m \in MemoryMaps, NEW set, NEW n \in Nat, Cleared(m, set, n)
    PROVE  Cleared(m, mark_entry(m, set, m[n + 1]), n + 1)
<1> DEFINE e == m[n + 1]
           w == mark_entry(m, set, e)
<1>1. frames_of(m, e) \subseteq 0 .. total(m) - 1
  BY DEF frames_of
<1>2. w \subseteq 0 .. total(m) - 1
  BY <1>1 DEF Cleared, mark_entry
<1>3. ASSUME NEW f \in 0 .. total(m) - 1, f \notin w
      PROVE  \E i \in 1 .. n + 1 : Clears(m, i, f)
  <2>1. CASE f \notin set
    <3>1. PICK i \in 1 .. n : Clears(m, i, f)
      BY <2>1 DEF Cleared
    <3>2. i \in 1 .. n + 1
      OBVIOUS
    <3> QED
      BY <3>1, <3>2
  <2>2. CASE f \in set
    <3>1. e.type = "usable" /\ f \in frames_of(m, e)
      BY <1>3, <2>2 DEF mark_entry
    <3>2. n + 1 \in 1 .. n + 1
      OBVIOUS
    <3> QED
      BY <3>1, <3>2 DEF Clears
  <2> QED
    BY <2>1, <2>2
<1> QED
  BY <1>2, <1>3 DEF Cleared

\* physmem_addr_mark, the whole loop.
LEMMA MarkedIs ==
    ASSUME NEW m \in MemoryMaps
    PROVE  Cleared(m, marked(m), Len(m))
<1> DEFINE n == Len(m)
           s0 == 0 .. total(m) - 1
           Trace(f, l) == /\ f[0] = s0
                          /\ \A k \in 1 .. l : f[k] = mark_entry(m, f[k - 1], m[k])
           Is(f) == f = [k \in 0 .. n |-> IF k = 0 THEN s0 ELSE mark_entry(m, f[k - 1], m[k])]
           g == CHOOSE f : Is(f)
<1>1. n \in Nat
  BY MapIs
<1>2. Cleared(m, s0, 0)
  BY DEF Cleared
<1>3. marked(m) = g[n]
  BY DEF marked
<1> HIDE DEF n, s0
<1>4. \A l \in 0 .. n : \E f : Trace(f, l)
  <2> DEFINE B == {l \in 0 .. n : ~ \E f : Trace(f, l)}
  <2> SUFFICES ASSUME B # {} PROVE FALSE
    OBVIOUS
  <2>1. B \in SUBSET Nat
    OBVIOUS
  <2>2. PICK l \in B : \A k \in B : l <= k
    BY <2>1, LeastNumber
  <2>3. l # 0
    <3> SUFFICES Trace([k \in 0 .. 0 |-> s0], 0)
      OBVIOUS
    <3> QED
      OBVIOUS
  <2> DEFINE h == l - 1
  <2>4. h \in 0 .. n /\ h \notin B /\ h + 1 = l /\ l \in 0 .. n
    <3>1. l \in 0 .. n
      OBVIOUS
    <3>2. h \in 0 .. n /\ h + 1 = l /\ ~ (l <= h)
      BY <1>1, <2>3, <3>1
    <3> HIDE DEF h, B
    <3> QED
      BY <2>2, <3>1, <3>2
  <2>5. PICK f : Trace(f, h)
    BY <2>4
  <2> DEFINE w == [k \in 0 .. l |-> IF k = l THEN mark_entry(m, f[h], m[l]) ELSE f[k]]
  <2> HIDE DEF h, B
  <2>6. \A k \in 0 .. h : w[k] = f[k]
    BY <2>4
  <2>7. w[l] = mark_entry(m, f[h], m[l])
    BY <2>4
  <2> HIDE DEF w
  <2>8. w[0] = s0
    BY <2>4, <2>5, <2>6
  <2>9. ASSUME NEW k \in 1 .. l PROVE w[k] = mark_entry(m, w[k - 1], m[k])
    <3>1. CASE k = l
      <4>1. k - 1 = h /\ h \in 0 .. h
        BY <2>4, <3>1
      <4> QED
        BY <2>6, <2>7, <3>1, <4>1
    <3>2. CASE k # l
      <4>1. k \in 1 .. h /\ k \in 0 .. h /\ k - 1 \in 0 .. h
        BY <2>4, <3>2
      <4> QED
        BY <2>5, <2>6, <4>1
    <3> QED
      BY <3>1, <3>2
  <2>10. Trace(w, l)
    BY <2>8, <2>9
  <2> QED
    BY <2>2, <2>10 DEF B
<1>5. \E f : Is(f)
  <2>1. PICK f : Trace(f, n)
    <3>1. n \in 0 .. n
      BY <1>1
    <3> HIDE DEF Trace
    <3> QED
      BY <1>4, <3>1
  <2> DEFINE e == [k \in 0 .. n |-> f[k]]
             d == [k \in 0 .. n |-> IF k = 0 THEN s0 ELSE mark_entry(m, e[k - 1], m[k])]
  <2>2. \A k \in 0 .. n : k = 0 \/ (k \in 1 .. n /\ k - 1 \in 0 .. n)
    BY <1>1
  <2>3. ASSUME NEW k \in 0 .. n PROVE e[k] = d[k]
    <3>1. CASE k = 0
      BY <2>1, <3>1
    <3>2. CASE k # 0
      <4>1. k \in 1 .. n /\ k - 1 \in 0 .. n
        BY <2>2, <3>2
      <4>2. e[k - 1] = f[k - 1] /\ e[k] = f[k]
        BY <4>1
      <4>3. d[k] = mark_entry(m, e[k - 1], m[k])
        BY <3>2
      <4> QED
        BY <2>1, <4>1, <4>2, <4>3
    <3> QED
      BY <3>1, <3>2
  <2>4. e = d
    BY <2>3
  <2>5. Is(e)
    BY <2>4
  <2> HIDE DEF Is
  <2> QED
    BY <2>5
<1>6. Is(g)
  <2> HIDE DEF Is
  <2> QED
    BY <1>5 DEF g
<1> HIDE DEF g
<1>7. \A k \in 0 .. n : Cleared(m, g[k], k)
  <2> DEFINE B == {k \in 0 .. n : ~ Cleared(m, g[k], k)}
  <2> SUFFICES ASSUME B # {} PROVE FALSE
    OBVIOUS
  <2>1. B \in SUBSET Nat
    OBVIOUS
  <2>2. PICK k \in B : \A l \in B : k <= l
    BY <2>1, LeastNumber
  <2>3. g[0] = s0
    BY <1>1, <1>6
  <2>4. k # 0
    BY <1>2, <2>3
  <2> DEFINE h == k - 1
  <2>5. h \in 0 .. n /\ h \notin B /\ h + 1 = k /\ k \in 0 .. n
    <3>1. k \in 0 .. n
      OBVIOUS
    <3>2. h \in 0 .. n /\ h + 1 = k /\ ~ (k <= h)
      BY <1>1, <2>4, <3>1
    <3> HIDE DEF h, B
    <3> QED
      BY <2>2, <3>1, <3>2
  <2>6. Cleared(m, g[h], h) /\ h \in Nat
    BY <2>5
  <2>7. g[k] = mark_entry(m, g[h], m[k])
    BY <1>6, <2>4, <2>5
  <2> HIDE DEF h
  <2>8. Cleared(m, mark_entry(m, g[h], m[h + 1]), h + 1)
    BY <2>6, MarkTurn
  <2> QED
    BY <2>2, <2>5, <2>7, <2>8
<1> QED
  BY <1>1, <1>3, <1>7 DEF n

-----------------------------------------------------------------------------
\* A run of clear bits, and what the scan knows after the first f bits.
Row(b, g, c) == \A x \in g .. (g + c) - 1 : x \notin b
Scans == [row : Nat, start : Nat, found : BOOLEAN]
Looking(s, b, c, f) ==
    /\ s.row <= f /\ s.row < c
    /\ Row(b, f - s.row, s.row)
    /\ s.row > 0 => s.start = f - s.row
    /\ s.row < f => (f - s.row) - 1 \in b
Scanned(s, b, c, f) ==
    /\ s \in Scans
    /\ ~s.found => Looking(s, b, c, f)
    /\ s.found => s.start + c <= f /\ Row(b, s.start, c)
    /\ \A g \in Nat : Row(b, g, c) => IF s.found THEN s.start <= g ELSE g + c > f

\* One bit more.
LEMMA ScanTurn ==
    ASSUME NEW s, NEW b, NEW c \in Nat \ {0}, NEW f \in Nat, Scanned(s, b, c, f)
    PROVE  Scanned(scan_bit(b, c, s, f), b, c, f + 1)
<1> DEFINE r == s.row
           st == s.start
           t == scan_bit(b, c, s, f)
<1>1. s \in Scans /\ r \in Nat /\ st \in Nat /\ s.found \in BOOLEAN
  BY DEF Scanned, Scans
<1>2. CASE s.found
  <2>1. t = s
    BY <1>2 DEF scan_bit
  <2>2. st + c <= f /\ Row(b, st, c) /\ \A g \in Nat : Row(b, g, c) => st <= g
    BY <1>2 DEF Scanned
  <2> HIDE DEF st
  <2>3. st + c <= f + 1
    BY <1>1, <2>2
  <2> QED
    BY <1>1, <1>2, <2>1, <2>2, <2>3 DEF Scanned, st
<1>3. CASE ~s.found
  <2>1. /\ r <= f /\ r < c /\ Row(b, f - r, r) /\ (r > 0 => st = f - r)
        /\ (r < f => (f - r) - 1 \in b)
        /\ \A g \in Nat : Row(b, g, c) => g + c > f
    BY <1>3 DEF Scanned, Looking
  <2>2. CASE f \in b
    <3>1. t = [row |-> 0, start |-> st, found |-> FALSE]
      BY <1>3, <2>2 DEF scan_bit
    <3> HIDE DEF t, r, st
    <3>2. t \in Scans /\ t.row = 0 /\ t.found = FALSE
      BY <1>1, <3>1 DEF Scans
    <3>3. Row(b, (f + 1) - 0, 0) /\ ((f + 1) - 0) - 1 = f /\ 0 <= f + 1 /\ 0 < c
      BY DEF Row
    <3>4. Looking(t, b, c, f + 1)
      BY <2>2, <3>2, <3>3 DEF Looking
    <3>5. ASSUME NEW g \in Nat, Row(b, g, c) PROVE g + c > f + 1
      <4>1. g + c > f
        BY <2>1, <3>5
      <4>2. f \notin g .. (g + c) - 1
        BY <2>2, <3>5 DEF Row
      <4> QED
        BY <4>1, <4>2
    <3> QED
      BY <3>2, <3>4, <3>5 DEF Scanned, t
  <2>3. CASE f \notin b
    <3> DEFINE n == IF r = 0 THEN f ELSE st
    <3>1. t = [row |-> r + 1, start |-> n, found |-> r + 1 >= c]
      BY <1>3, <2>3 DEF scan_bit
    <3> HIDE DEF t, r, st
    <3>2. n \in Nat /\ n = f - r /\ r + 1 \in Nat
      BY <1>1, <2>1
    <3> HIDE DEF n
    <3>3. t \in Scans /\ t.row = r + 1 /\ t.start = n /\ t.found = (r + 1 >= c)
      BY <3>1, <3>2 DEF Scans
    <3>4. Row(b, n, r + 1)
      <4> SUFFICES ASSUME NEW x \in n .. (n + (r + 1)) - 1 PROVE x \notin b
        BY DEF Row
      <4>1. x = f \/ x \in f - r .. ((f - r) + r) - 1
        BY <1>1, <2>1, <3>2
      <4> QED
        BY <4>1, <2>1, <2>3 DEF Row
    <3>5. CASE r + 1 >= c
      <4>1. r + 1 = c /\ n + c <= f + 1
        BY <1>1, <2>1, <3>2, <3>5
      <4>2. \A g \in Nat : Row(b, g, c) => n <= g
        <5> SUFFICES ASSUME NEW g \in Nat, Row(b, g, c) PROVE n <= g
          OBVIOUS
        <5>1. g + c > f
          BY <2>1
        <5> QED
          BY <5>1, <4>1, <3>2, <1>1, <2>1
      <4>3. t.found
        BY <3>3, <3>5
      <4> QED
        BY <3>3, <3>4, <4>1, <4>2, <4>3 DEF Scanned, t
    <3>6. CASE ~(r + 1 >= c)
      <4>1. ~t.found
        BY <3>3, <3>6
      <4>2. r + 1 <= f + 1 /\ r + 1 < c /\ (f + 1) - (r + 1) = n
        BY <1>1, <2>1, <3>2, <3>6
      <4>3. r + 1 < f + 1 => n - 1 \in b
        BY <1>1, <2>1, <3>2
      <4>4. Looking(t, b, c, f + 1)
        BY <3>3, <3>4, <4>2, <4>3 DEF Looking
      <4>5. ASSUME NEW g \in Nat, Row(b, g, c) PROVE g + c > f + 1
        <5>1. g + c > f
          BY <2>1, <4>5
        <5>2. CASE g + c = f + 1
          <6>1. r < f
            BY <5>2, <4>2, <1>1, <2>1
          <6>2. n - 1 \in b
            BY <6>1, <4>3, <1>1
          <6>3. n - 1 \in g .. (g + c) - 1
            BY <5>2, <6>1, <4>2, <3>2, <1>1
          <6> QED
            BY <6>2, <6>3, <4>5 DEF Row
        <5> QED
          BY <5>1, <5>2
      <4> QED
        BY <3>3, <4>1, <4>4, <4>5 DEF Scanned, t
    <3> QED
      BY <3>5, <3>6
  <2> QED
    BY <2>2, <2>3
<1> QED
  BY <1>2, <1>3

\* The whole scan.
LEMMA ScanIs ==
    ASSUME NEW T \in Nat, NEW b, NEW c \in Nat \ {0}
    PROVE  LET scan[f \in 0 .. T] ==
                   IF f = 0 THEN no_row ELSE scan_bit(b, c, scan[f - 1], f - 1)
           IN  Scanned(scan[T], b, c, T)
<1> DEFINE s0 == no_row
           Trace(f, l) == /\ f[0] = s0
                          /\ \A k \in 1 .. l : f[k] = scan_bit(b, c, f[k - 1], k - 1)
           Is(f) == f = [k \in 0 .. T |-> IF k = 0 THEN s0 ELSE scan_bit(b, c, f[k - 1], k - 1)]
           g == CHOOSE f : Is(f)
<1> SUFFICES Scanned(g[T], b, c, T)
  OBVIOUS
<1>2. Scanned(s0, b, c, 0)
  <2>1. s0 \in Scans /\ s0.row = 0 /\ s0.found = FALSE
    BY DEF no_row, Scans
  <2>2. Row(b, 0 - 0, 0)
    BY DEF Row
  <2> HIDE DEF s0
  <2>3. Looking(s0, b, c, 0)
    BY <2>1, <2>2 DEF Looking
  <2>4. \A x \in Nat : x + c > 0
    OBVIOUS
  <2> QED
    BY <2>1, <2>3, <2>4 DEF Scanned
<1> HIDE DEF s0
<1>4. \A l \in 0 .. T : \E f : Trace(f, l)
  <2> DEFINE B == {l \in 0 .. T : ~ \E f : Trace(f, l)}
  <2> SUFFICES ASSUME B # {} PROVE FALSE
    OBVIOUS
  <2>1. B \in SUBSET Nat
    OBVIOUS
  <2>2. PICK l \in B : \A k \in B : l <= k
    BY <2>1, LeastNumber
  <2>3. l # 0
    <3> SUFFICES Trace([k \in 0 .. 0 |-> s0], 0)
      OBVIOUS
    <3> QED
      OBVIOUS
  <2> DEFINE h == l - 1
  <2>4. h \in 0 .. T /\ h \notin B /\ h + 1 = l /\ l \in 0 .. T
    <3>1. l \in 0 .. T
      OBVIOUS
    <3>2. h \in 0 .. T /\ h + 1 = l /\ ~ (l <= h)
      BY <2>3, <3>1
    <3> HIDE DEF h, B
    <3> QED
      BY <2>2, <3>1, <3>2
  <2>5. PICK f : Trace(f, h)
    BY <2>4
  <2> DEFINE w == [k \in 0 .. l |-> IF k = l THEN scan_bit(b, c, f[h], h) ELSE f[k]]
  <2> HIDE DEF h, B
  <2>6. \A k \in 0 .. h : w[k] = f[k]
    BY <2>4
  <2>7. w[l] = scan_bit(b, c, f[h], h)
    BY <2>4
  <2> HIDE DEF w
  <2>8. w[0] = s0
    BY <2>4, <2>5, <2>6
  <2>9. ASSUME NEW k \in 1 .. l PROVE w[k] = scan_bit(b, c, w[k - 1], k - 1)
    <3>1. CASE k = l
      <4>1. k - 1 = h /\ h \in 0 .. h
        BY <2>4, <3>1
      <4> QED
        BY <2>6, <2>7, <3>1, <4>1
    <3>2. CASE k # l
      <4>1. k \in 1 .. h /\ k \in 0 .. h /\ k - 1 \in 0 .. h
        BY <2>4, <3>2
      <4> QED
        BY <2>5, <2>6, <4>1
    <3> QED
      BY <3>1, <3>2
  <2>10. Trace(w, l)
    BY <2>8, <2>9
  <2> QED
    BY <2>2, <2>10 DEF B
<1>5. \E f : Is(f)
  <2>1. PICK f : Trace(f, T)
    <3>1. T \in 0 .. T
      OBVIOUS
    <3> HIDE DEF Trace
    <3> QED
      BY <1>4, <3>1
  <2> DEFINE e == [k \in 0 .. T |-> f[k]]
             d == [k \in 0 .. T |-> IF k = 0 THEN s0 ELSE scan_bit(b, c, e[k - 1], k - 1)]
  <2>2. \A k \in 0 .. T : k = 0 \/ (k \in 1 .. T /\ k - 1 \in 0 .. T)
    OBVIOUS
  <2>3. ASSUME NEW k \in 0 .. T PROVE e[k] = d[k]
    <3>1. CASE k = 0
      BY <2>1, <3>1
    <3>2. CASE k # 0
      <4>1. k \in 1 .. T /\ k - 1 \in 0 .. T
        BY <2>2, <3>2
      <4>2. e[k - 1] = f[k - 1] /\ e[k] = f[k]
        BY <4>1
      <4>3. d[k] = scan_bit(b, c, e[k - 1], k - 1)
        BY <3>2
      <4> QED
        BY <2>1, <4>1, <4>2, <4>3
    <3> QED
      BY <3>1, <3>2
  <2>4. e = d
    BY <2>3
  <2>5. Is(e)
    BY <2>4
  <2> HIDE DEF Is
  <2> QED
    BY <2>5
<1>6. Is(g)
  <2> HIDE DEF Is
  <2> QED
    BY <1>5 DEF g
<1> HIDE DEF g
<1>7. \A k \in 0 .. T : Scanned(g[k], b, c, k)
  <2> DEFINE B == {k \in 0 .. T : ~ Scanned(g[k], b, c, k)}
  <2> SUFFICES ASSUME B # {} PROVE FALSE
    OBVIOUS
  <2>1. B \in SUBSET Nat
    OBVIOUS
  <2>2. PICK k \in B : \A l \in B : k <= l
    BY <2>1, LeastNumber
  <2>3. g[0] = s0
    BY <1>6
  <2>4. k # 0
    BY <1>2, <2>3
  <2> DEFINE h == k - 1
  <2>5. h \in 0 .. T /\ h \notin B /\ h + 1 = k /\ k \in 0 .. T
    <3>1. k \in 0 .. T
      OBVIOUS
    <3>2. h \in 0 .. T /\ h + 1 = k /\ ~ (k <= h)
      BY <2>4, <3>1
    <3> HIDE DEF h, B
    <3> QED
      BY <2>2, <3>1, <3>2
  <2>6. Scanned(g[h], b, c, h) /\ h \in Nat
    BY <2>5
  <2>7. g[k] = scan_bit(b, c, g[h], h)
    BY <1>6, <2>4, <2>5
  <2> HIDE DEF h
  <2>8. Scanned(scan_bit(b, c, g[h], h), b, c, h + 1)
    BY <2>6, ScanTurn
  <2> QED
    BY <2>2, <2>5, <2>7, <2>8
<1> QED
  BY <1>7

\* physmem_alloc_to finds the lowest run of clear bits, if bit 0 is set.
LEMMA SearchIs ==
    ASSUME NEW m, total(m) \in Nat, NEW b, NEW c \in Nat \ {0},
           total(m) > 0 => 0 \in b
    PROVE  /\ search(m, b, c) \in Nat
           /\ search(m, b, c) # 0 => search(m, b, c) + c <= total(m) /\ Row(b, search(m, b, c), c)
           /\ \A g \in Nat : Row(b, g, c) /\ g + c <= total(m)
                   => search(m, b, c) # 0 /\ search(m, b, c) <= g
<1> DEFINE T == total(m)
           scan[f \in 0 .. T] == IF f = 0 THEN no_row ELSE scan_bit(b, c, scan[f - 1], f - 1)
           s == scan[T]
           x == search(m, b, c)
<1>1. Scanned(s, b, c, T)
  BY ScanIs
<1>2. x = IF s.found THEN s.start ELSE 0
  BY DEF search
<1> HIDE DEF scan, x, s
<1>3. s.start \in Nat /\ s.found \in BOOLEAN
  BY <1>1 DEF Scanned, Scans
<1>4. x # 0 => x + c <= T /\ Row(b, x, c)
  BY <1>1, <1>2 DEF Scanned
<1>5. ASSUME NEW g \in Nat, Row(b, g, c), g + c <= T
      PROVE  x # 0 /\ x <= g
  <2>1. s.found
    <3> SUFFICES ASSUME ~s.found PROVE FALSE
      OBVIOUS
    <3>1. g + c > T
      BY <1>1, <1>5 DEF Scanned
    <3> QED
      BY <3>1, <1>5
  <2>2. x = s.start /\ s.start <= g /\ s.start + c <= T /\ Row(b, s.start, c)
    BY <2>1, <1>1, <1>2, <1>5 DEF Scanned
  <2>3. s.start # 0
    <3> SUFFICES ASSUME s.start = 0 PROVE FALSE
      OBVIOUS
    <3>1. Row(b, 0, c) /\ 0 \in 0 .. (0 + c) - 1 /\ T > 0
      BY <2>2
    <3> QED
      BY <3>1 DEF Row
  <2> QED
    BY <2>2, <2>3
<1> QED
  BY <1>2, <1>3, <1>4, <1>5 DEF x

-----------------------------------------------------------------------------
\* The records and the bitmap are put at the start of a usable entry.
LEMMA TrackingIs ==
    ASSUME NEW m \in MemoryMaps, tracking_at(m) >= 0
    PROVE  tracking_at(m) \in Nat /\ tracking_at(m) % PAGE_SIZE = 0
<1> DEFINE fits(i, least) == /\ m[i].type = "usable" /\ m[i].length >= tracking_size(m)
                             /\ m[i].base >= least
           first(least) == {i \in DOMAIN m : fits(i, least)
                               /\ \A j \in 1 .. i - 1 : ~fits(j, least)}
           pick == IF first(HIGH) # {} THEN first(HIGH)
                   ELSE IF first(MIDDLE) # {} THEN first(MIDDLE) ELSE first(0)
           k == CHOOSE i \in pick : TRUE
<1>1. tracking_at(m) = IF pick = {} THEN -1 ELSE m[k].base
  BY DEF tracking_at
<1>2. \A least : \A i \in first(least) : i \in DOMAIN m /\ m[i].type = "usable"
  OBVIOUS
<1> HIDE DEF first
<1>3. \A i \in pick : i \in DOMAIN m /\ m[i].type = "usable"
  BY <1>2
<1> HIDE DEF pick
<1>4. pick # {}
  BY <1>1
<1>5. k \in pick
  BY <1>4
<1>6. k \in 1 .. Len(m) /\ m[k].type = "usable"
  BY <1>3, <1>5, MapIs
<1> HIDE DEF k
<1>7. m[k].base \in Nat /\ m[k].base % PAGE_SIZE = 0
  BY <1>6, MapIs
<1> QED
  BY <1>1, <1>4, <1>7

\* The size of bitmap and counts is a natural number.
LEMMA TrackingSize ==
    ASSUME NEW m \in MemoryMaps
    PROVE  tracking_size(m) \in Nat
<1> DEFINE T == total(m)
           x == T * FRAME_RECORD
           y == (T + 7) \div 8
<1>1. T \in Nat /\ FRAME_RECORD \in Nat
  BY TotalNat, PhysMemAssumption
<1>2. x \in Nat /\ y \in Nat
  <2> HIDE DEF T
  <2> QED
    BY <1>1
<1>3. tracking_size(m) = x + y
  BY DEF tracking_size
<1> HIDE DEF x, y
<1> QED
  BY <1>2, <1>3

\* A frame that may be handed out.
Usable(m, f) ==
    /\ \E e \in entries(m, {"usable"}) :
         f * PAGE_SIZE >= e.base /\ (f + 1) * PAGE_SIZE <= e.base + e.length
    /\ f >= LOW_FRAMES
    /\ \/ (f + 1) * PAGE_SIZE <= tracking_at(m)
       \/ f * PAGE_SIZE >= tracking_at(m) + tracking_size(m)

\* Clear bits are frames that may be handed out, and bit 0 is set.
LEMMA ClearIsUsable ==
    ASSUME NEW m \in MemoryMaps, tracking_at(m) >= 0
    PROVE  /\ physmem_init(m) \subseteq 0 .. total(m) - 1
           /\ total(m) > 0 => 0 \in physmem_init(m)
           /\ \A f \in 0 .. total(m) - 1 : f \notin physmem_init(m) => Usable(m, f)
<1> DEFINE T == total(m)
           at == tracking_at(m)
           n == frame_count(tracking_size(m))
           one == mark_used(m, marked(m), at, n)
<1>1. T \in Nat /\ at \in Nat /\ at % PAGE_SIZE = 0 /\ tracking_size(m) \in Nat
  BY TotalNat, TrackingIs, TrackingSize
<1>2. physmem_init(m) = mark_used(m, one, 0, LOW_FRAMES)
  BY DEF physmem_init
<1>3. Cleared(m, marked(m), Len(m))
  BY MarkedIs
<1>4. n \in Nat /\ PAGE_SIZE * n >= tracking_size(m)
  BY <1>1, CountCovers
<1>5. \A f \in 0 .. T - 1 : f \in one <=> f \in marked(m) \/
             (f >= at \div PAGE_SIZE /\ f < at \div PAGE_SIZE + n)
  BY DEF mark_used
<1>6. one \subseteq 0 .. T - 1
  BY <1>3 DEF mark_used, Cleared
<1>7. 0 \div PAGE_SIZE = 0
  <2> DEFINE P == PAGE_SIZE
  <2>1. P \in Nat \ {0}
    BY PhysMemAssumption
  <2> HIDE DEF P
  <2>2. 0 \div P = 0
    BY <2>1
  <2> QED
    BY <2>2 DEF P
<1>8. LOW_FRAMES \in Nat \ {0}
  BY PhysMemAssumption
<1> HIDE DEF T, one, n, at
<1>9. \A f \in 0 .. T - 1 : f \in physmem_init(m) <=> f \in one \/ (f >= 0 /\ f < 0 + LOW_FRAMES)
  BY <1>2, <1>7 DEF mark_used, T
<1>10. physmem_init(m) \subseteq 0 .. T - 1
  BY <1>2, <1>6 DEF mark_used, T
<1>11. T > 0 => 0 \in physmem_init(m)
  BY <1>1, <1>8, <1>9
<1>12. ASSUME NEW f \in 0 .. T - 1, f \notin physmem_init(m)
       PROVE  Usable(m, f)
  <2>0. f \in Nat
    BY <1>1
  <2>1. f \notin one /\ ~(f < LOW_FRAMES)
    BY <1>8, <1>9, <1>12, <2>0
  <2>2. f \notin marked(m) /\ ~(f >= at \div PAGE_SIZE /\ f < at \div PAGE_SIZE + n)
    BY <1>5, <2>1
  <2>3. PICK i \in 1 .. Len(m) : Clears(m, i, f)
    BY <1>3, <2>2 DEF Cleared, T
  <2>4. m[i] \in entries(m, {"usable"})
    BY <2>3, MapIs DEF entries, Clears
  <2> DEFINE x == m[i].base
             l == m[i].length
  <2>5. x \in Nat /\ l \in Nat /\ x % PAGE_SIZE = 0
    BY <2>3, MapIs DEF Clears
  <2>6. f >= x \div PAGE_SIZE /\ f < (x + l) \div PAGE_SIZE
    BY <2>3 DEF Clears, frames_of
  <2> HIDE DEF x, l
  <2>7. x + l \in Nat
    BY <2>5
  <2>8. f * PAGE_SIZE >= x
    BY <2>0, <2>5, <2>6, WholeFrames
  <2>9. (f + 1) * PAGE_SIZE <= x + l
    BY <2>0, <2>6, <2>7, WholeFrames
  <2>10. f >= LOW_FRAMES
    BY <2>0, <2>1, <1>8
  <2>11. (f + 1) * PAGE_SIZE <= at \/ f * PAGE_SIZE >= at + tracking_size(m)
    <3> DEFINE q == at \div PAGE_SIZE
    <3>1. q \in Nat /\ at = PAGE_SIZE * q + (at % PAGE_SIZE)
      BY <1>1, FrameOf
    <3>2. CASE f < q
      BY <3>2, <2>0, <1>1, WholeFrames
    <3>3. CASE ~(f < q)
      <4> DEFINE P == PAGE_SIZE
                 s == tracking_size(m)
      <4>1. P \in Nat \ {0} /\ s \in Nat /\ P * n >= s
        BY <1>1, <1>4, PhysMemAssumption
      <4>2. q \in Nat /\ n \in Nat /\ f \in Nat /\ at \in Nat
        BY <3>1, <1>1, <1>4, <2>0
      <4>3. f >= q + n
        <5>1. ~(f >= q /\ f < q + n)
          BY <2>2
        <5> HIDE DEF q
        <5> QED
          BY <5>1, <3>3, <4>2
      <4>4. at = P * q + 0
        BY <3>1, <1>1
      <4> HIDE DEF P, s, q
      <4>5. f * P >= (q + n) * P
        BY <4>1, <4>2, <4>3
      <4>6. (q + n) * P = P * q + P * n
        BY <4>1, <4>2
      <4> DEFINE u == P * q
                 w == P * n
                 z == f * P
      <4>7. u \in Nat /\ w \in Nat /\ z \in Nat /\ z >= u + w /\ at = u + 0 /\ w >= s
        BY <4>1, <4>2, <4>4, <4>5, <4>6
      <4> HIDE DEF u, w, z
      <4>8. z >= at + s
        BY <4>1, <4>2, <4>7
      <4> QED
        BY <4>8 DEF z, P, s
    <3> QED
      BY <3>2, <3>3
  <2> QED
    BY <2>4, <2>8, <2>9, <2>10, <2>11 DEF Usable, x, l, at
<1> QED
  BY <1>10, <1>11, <1>12 DEF T

\* The frames of a run.
Span(r) == r.at .. (r.at + r.len) - 1
PhysGood(m, b, rs) ==
    /\ m \in MemoryMaps /\ tracking_at(m) >= 0
    /\ rs \subseteq [at : Nat, len : Nat \ {0}]
    /\ \A r \in rs : r.at + r.len <= total(m) /\ Span(r) \cap physmem_init(m) = {}
    /\ b = physmem_init(m) \cup UNION {Span(r) : r \in rs}
    /\ \A r, q \in rs : r # q => Span(r) \cap Span(q) = {}
PhysInv == PhysGood(mpr, bitmap, runs)

\* The frames of a run, by number.
LEMMA SpanIs ==
    ASSUME NEW r \in [at : Nat, len : Nat \ {0}]
    PROVE  /\ r.at \in Nat /\ r.len \in Nat \ {0} /\ Span(r) = r.at .. r.at + r.len - 1
           /\ \A f : f \in Span(r) <=> f \in Nat /\ r.at <= f /\ f < r.at + r.len
<1> DEFINE x == r.at
           y == r.len
<1>1. x \in Nat /\ y \in Nat \ {0}
  OBVIOUS
<1>2. Span(r) = x .. (x + y) - 1
  BY DEF Span
<1> HIDE DEF x, y
<1>3. (x + y) - 1 = x + y - 1 /\ \A f : f \in x .. (x + y) - 1 <=> f \in Nat /\ x <= f /\ f < x + y
  BY <1>1
<1> QED
  BY <1>1, <1>2, <1>3 DEF x, y

\* Two runs that share no frame lie one behind the other.
LEMMA SpansApart ==
    ASSUME NEW r \in [at : Nat, len : Nat \ {0}], NEW q \in [at : Nat, len : Nat \ {0}],
           Span(r) \cap Span(q) = {}
    PROVE  r.at + r.len <= q.at \/ q.at + q.len <= r.at
<1> DEFINE a == r.at
           l == r.len
           b == q.at
           k == q.len
<1>1. a \in Nat /\ l \in Nat \ {0} /\ b \in Nat /\ k \in Nat \ {0}
  OBVIOUS
<1>2. \A f \in Nat : ~ (a <= f /\ f < a + l /\ b <= f /\ f < b + k)
  BY SpanIs
<1> HIDE DEF a, l, b, k
<1>3. ~ (a <= a /\ a < a + l /\ b <= a /\ a < b + k) /\ ~ (a <= b /\ b < a + l /\ b <= b /\ b < b + k)
  BY <1>1, <1>2
<1>4. a + l <= b \/ b + k <= a
  BY <1>1, <1>3
<1> QED
  BY <1>4 DEF a, l, b, k

\* PhysInv holds at first.
LEMMA PhysStart ==
    ASSUME PhysMemInit
    PROVE  PhysInv
BY DEF PhysMemInit, PhysInv, PhysGood

\* Frame 0 is never given out.
LEMMA PhysBitZero ==
    ASSUME PhysInv
    PROVE  total(mpr) \in Nat /\ (total(mpr) > 0 => 0 \in bitmap)
<1>1. mpr \in MemoryMaps /\ tracking_at(mpr) >= 0 /\ physmem_init(mpr) \subseteq bitmap
  BY DEF PhysInv, PhysGood
<1> QED
  BY <1>1, TotalNat, ClearIsUsable

\* physmem_alloc_to keeps PhysInv.
LEMMA PhysAlloc ==
    ASSUME PhysInv, NEW n \in RunLengths, physmem_alloc_to(n)
    PROVE  PhysInv'
<1> DEFINE f == search(mpr, bitmap, n)
           T == total(mpr)
           r == [at |-> f, len |-> n]
<1>1. f # 0 /\ bitmap' = mark_used(mpr, bitmap, f * PAGE_SIZE, n) /\ runs' = runs \cup {r}
      /\ mpr' = mpr
  BY DEF physmem_alloc_to
<1>2. n \in Nat \ {0}
  <2>1. n \in Nat
    BY PhysMemAssumption
  <2>2. n # 0
    BY <1>1 DEF search
  <2> QED
    BY <2>1, <2>2
<1>3. T \in Nat /\ (T > 0 => 0 \in bitmap)
  BY PhysBitZero
<1>4. f \in Nat /\ f + n <= T /\ Row(bitmap, f, n)
  BY <1>1, <1>2, <1>3, SearchIs
<1>5. r \in [at : Nat, len : Nat \ {0}] /\ r.at = f /\ r.len = n
  BY <1>2, <1>4
<1>6. (f * PAGE_SIZE) \div PAGE_SIZE = f
  BY <1>4, WholeFrames
<1> HIDE DEF f, r
<1>7. Span(r) = f .. (f + n) - 1
  BY <1>5 DEF Span
<1>8. \A x \in Span(r) : x \in 0 .. T - 1 /\ x \notin bitmap
  <2>1. \A x \in f .. (f + n) - 1 : x \in 0 .. T - 1
    BY <1>2, <1>3, <1>4
  <2> QED
    BY <1>4, <1>7, <2>1 DEF Row
<1>9. bitmap' = bitmap \cup Span(r)
  <2>1. \A x : x \in {g \in 0 .. T - 1 : g >= f /\ g < f + n} <=> x \in f .. (f + n) - 1
    BY <1>2, <1>3, <1>4
  <2>2. {g \in 0 .. T - 1 : g >= f /\ g < f + n} = Span(r)
    BY <2>1, <1>7
  <2> QED
    BY <1>1, <1>6, <2>2 DEF mark_used
<1>10. /\ mpr \in MemoryMaps /\ tracking_at(mpr) >= 0
       /\ runs \subseteq [at : Nat, len : Nat \ {0}]
       /\ \A q \in runs : q.at + q.len <= T /\ Span(q) \cap physmem_init(mpr) = {}
       /\ bitmap = physmem_init(mpr) \cup UNION {Span(q) : q \in runs}
       /\ \A p, q \in runs : p # q => Span(p) \cap Span(q) = {}
  BY DEF PhysInv, PhysGood
<1>11. Span(r) \cap physmem_init(mpr) = {} /\ \A q \in runs : Span(r) \cap Span(q) = {}
  BY <1>8, <1>10
<1>12. bitmap' = physmem_init(mpr) \cup UNION {Span(q) : q \in runs'}
  BY <1>1, <1>9, <1>10
<1>13. \A p, q \in runs' : p # q => Span(p) \cap Span(q) = {}
  BY <1>1, <1>10, <1>11
<1>14. \A q \in runs' : q.at + q.len <= T /\ Span(q) \cap physmem_init(mpr) = {}
  BY <1>1, <1>4, <1>5, <1>10, <1>11
<1> QED
  BY <1>1, <1>5, <1>10, <1>12, <1>13, <1>14 DEF PhysInv, PhysGood

\* physmem_free_to keeps PhysInv.
LEMMA PhysFree ==
    ASSUME PhysInv, NEW r \in runs, physmem_free_to(r)
    PROVE  PhysInv'
<1>1. /\ mpr \in MemoryMaps /\ tracking_at(mpr) >= 0
      /\ runs \subseteq [at : Nat, len : Nat \ {0}]
      /\ \A q \in runs : q.at + q.len <= total(mpr) /\ Span(q) \cap physmem_init(mpr) = {}
      /\ bitmap = physmem_init(mpr) \cup UNION {Span(q) : q \in runs}
      /\ \A p, q \in runs : p # q => Span(p) \cap Span(q) = {}
  BY DEF PhysInv, PhysGood
<1>2. bitmap' = bitmap \ Span(r) /\ runs' = runs \ {r} /\ mpr' = mpr
  BY <1>1, SpanIs DEF physmem_free_to
<1>3. \A x : x \in bitmap' <=> x \in physmem_init(mpr) \cup UNION {Span(q) : q \in runs'}
  BY <1>1, <1>2
<1> QED
  BY <1>1, <1>2, <1>3 DEF PhysInv, PhysGood

\* Every step of physical memory keeps PhysInv.
LEMMA PhysStep ==
    ASSUME PhysInv, [PhysMemNext]_pvars
    PROVE  PhysInv'
<1>1. CASE UNCHANGED pvars
  BY <1>1 DEF PhysInv, PhysGood, pvars
<1> QED
  BY <1>1, PhysAlloc, PhysFree DEF PhysMemNext

\* PhysInv gives what the callers of physical memory rely on.
LEMMA PhysSound ==
    ASSUME PhysInv
    PROVE  FramesSound
<1> DEFINE T == total(mpr)
<1>1. /\ mpr \in MemoryMaps /\ tracking_at(mpr) >= 0
      /\ runs \subseteq [at : Nat, len : Nat \ {0}]
      /\ \A q \in runs : q.at + q.len <= T /\ Span(q) \cap physmem_init(mpr) = {}
      /\ bitmap = physmem_init(mpr) \cup UNION {Span(q) : q \in runs}
      /\ \A p, q \in runs : p # q => Span(p) \cap Span(q) = {}
  BY DEF PhysInv, PhysGood
<1>2. T \in Nat /\ (T > 0 => 0 \in bitmap)
  BY PhysBitZero
<1>3. FramesAreUsable
  <2> SUFFICES ASSUME NEW r \in runs, NEW f \in r.at .. r.at + r.len - 1
               PROVE  Usable(mpr, f)
    BY DEF FramesAreUsable, Usable
  <2>1. f \in Span(r) /\ r.at + r.len <= T /\ r.at \in Nat /\ r.len \in Nat
    BY <1>1, SpanIs
  <2>2. f \in Nat /\ f < r.at + r.len
    BY <2>1, <1>1, SpanIs
  <2> DEFINE a == r.at
             l == r.len
  <2>3. f \in 0 .. T - 1
    <3>1. a \in Nat /\ l \in Nat /\ a + l <= T /\ f < a + l
      BY <2>1, <2>2
    <3> HIDE DEF a, l, T
    <3> QED
      BY <3>1, <2>2, <1>2
  <2>4. f \notin physmem_init(mpr)
    BY <1>1, <2>1
  <2> QED
    BY <1>1, <2>3, <2>4, ClearIsUsable
<1>4. FirstRun
  <2> SUFFICES ASSUME NEW n \in RunLengths \ {0}
               PROVE  LET free(f) == f + n <= T /\ \A g \in f .. f + n - 1 : g \notin bitmap
                          f == search(mpr, bitmap, n)
                      IN  /\ f # 0 => free(f)
                          /\ \A g \in 0 .. T : free(g) => f # 0 /\ f <= g
    BY DEF FirstRun
  <2> DEFINE f == search(mpr, bitmap, n)
  <2>1. n \in Nat \ {0}
    BY PhysMemAssumption
  <2>2. /\ f \in Nat
        /\ f # 0 => f + n <= T /\ Row(bitmap, f, n)
        /\ \A g \in Nat : Row(bitmap, g, n) /\ g + n <= T => f # 0 /\ f <= g
    BY <1>2, <2>1, SearchIs
  <2> HIDE DEF f
  <2>3. ASSUME NEW g \in Nat PROVE (g + n) - 1 = g + n - 1
    BY <2>1
  <2>4. \A g \in Nat : Row(bitmap, g, n) <=> \A x \in g .. g + n - 1 : x \notin bitmap
    BY <2>3 DEF Row
  <2>5. \A g \in 0 .. T : g \in Nat
    BY <1>2
  <2>6. f # 0 => f + n <= T /\ \A g \in f .. f + n - 1 : g \notin bitmap
    BY <2>2, <2>4
  <2>7. \A g \in 0 .. T : (g + n <= T /\ \A x \in g .. g + n - 1 : x \notin bitmap)
                          => f # 0 /\ f <= g
    BY <2>2, <2>4, <2>5
  <2> QED
    BY <2>6, <2>7 DEF f
<1>5. FramesAccounted
  <2>1. \A r \in runs : Span(r) = r.at .. r.at + r.len - 1
    BY <1>1, SpanIs
  <2>2. bitmap = physmem_init(mpr) \cup UNION {r.at .. r.at + r.len - 1 : r \in runs}
    BY <1>1, <2>1
  <2>3. \A r, q \in runs : r # q => r.at + r.len <= q.at \/ q.at + q.len <= r.at
    BY <1>1, SpansApart
  <2> QED
    BY <2>2, <2>3 DEF FramesAccounted
<1> QED
  BY <1>3, <1>4, <1>5 DEF FramesSound

\* physmem_init, physmem_alloc_to, physmem_free_to: whatever memory map the
\* boot loader hands over, frames that are handed out are usable memory above
\* 1 MB and clear of the kernel's own records, a request gets the lowest run
\* that fits and is refused only if there is none, and every set bit belongs
\* to the reserved frames or to exactly one caller.
THEOREM FramesAreSound == PhysMemSpec => []FramesSound
<1>1. PhysMemInit => PhysInv
  BY PhysStart
<1>2. PhysInv /\ [PhysMemNext]_pvars => PhysInv'
  BY PhysStep
<1>3. PhysInv => FramesSound
  BY PhysSound
<1> QED
  BY <1>1, <1>2, <1>3, PTL DEF PhysMemSpec

-----------------------------------------------------------------------------
(* The ready queue.                                                        *)

\* What the array may hold.
Entries == Threads \cup {NULL}

\* The entries of the ring, oldest first: fifo of ReadyFifo.
waiting == [i \in 1 .. cnt |-> queue[slot(i - 1)]]

\* The invariant: RingSound, and what the array holds.
RingInv == RingSound /\ queue \in [Slots -> Entries]

-----------------------------------------------------------------------------
(* Positions in the ring.                                                  *)

\* An index below twice the size wraps around once.
LEMMA Wraps ==
  ASSUME NEW N \in Nat \ {0}, NEW a \in Nat, a < N + N
  PROVE  a % N = IF a < N THEN a ELSE a - N
OBVIOUS

\* Where the entry i places behind the oldest lies.
LEMMA SlotIs ==
  ASSUME RingSound, NEW i \in 0 .. SCHED_MAX_THREADS
  PROVE  /\ slot(i) = IF head + i < SCHED_MAX_THREADS THEN head + i
                      ELSE head + i - SCHED_MAX_THREADS
         /\ slot(i) \in Slots
<1>1. SCHED_MAX_THREADS \in Nat \ {0} BY RingAssumption
<1>2. head \in 0 .. SCHED_MAX_THREADS - 1 BY DEF RingSound, Slots
<1>3. head + i \in Nat /\ head + i < SCHED_MAX_THREADS + SCHED_MAX_THREADS BY <1>1, <1>2
<1>4. slot(i) = IF head + i < SCHED_MAX_THREADS THEN head + i
                ELSE head + i - SCHED_MAX_THREADS
  BY <1>1, <1>2, <1>3 DEF slot
<1> QED BY <1>1, <1>2, <1>4 DEF Slots

\* The slot behind a slot.
LEMMA NextSlot ==
  ASSUME RingSound, NEW i \in 0 .. SCHED_MAX_THREADS - 1
  PROVE  slot(i + 1) = (slot(i) + 1) % SCHED_MAX_THREADS
<1>1. SCHED_MAX_THREADS \in Nat \ {0} BY RingAssumption
<1>2. head \in 0 .. SCHED_MAX_THREADS - 1 BY DEF RingSound, Slots
<1>3. slot(i) \in 0 .. SCHED_MAX_THREADS - 1 BY <1>1, SlotIs DEF Slots
<1>4. (slot(i) + 1) % SCHED_MAX_THREADS =
         IF slot(i) + 1 < SCHED_MAX_THREADS THEN slot(i) + 1
         ELSE slot(i) + 1 - SCHED_MAX_THREADS
  BY <1>1, <1>3, Wraps
<1> QED BY <1>1, <1>2, <1>4, SlotIs

\* Different places lie in different slots.
LEMMA SlotsDiffer ==
  ASSUME RingSound, NEW i \in 0 .. SCHED_MAX_THREADS - 1,
         NEW j \in 0 .. SCHED_MAX_THREADS - 1, slot(i) = slot(j)
  PROVE  i = j
<1>1. SCHED_MAX_THREADS \in Nat \ {0} BY RingAssumption
<1>2. head \in 0 .. SCHED_MAX_THREADS - 1 BY DEF RingSound, Slots
<1> QED BY <1>1, <1>2, SlotIs

\* The slot before tail.
LEMMA TailBack ==
  ASSUME RingSound, cnt > 0
  PROVE  (tail - 1 + SCHED_MAX_THREADS) % SCHED_MAX_THREADS = slot(cnt - 1)
<1>1. SCHED_MAX_THREADS \in Nat \ {0} BY RingAssumption
<1>2. head \in 0 .. SCHED_MAX_THREADS - 1 /\ cnt \in 1 .. SCHED_MAX_THREADS
      /\ tail = slot(cnt) /\ tail \in 0 .. SCHED_MAX_THREADS - 1
  BY <1>1 DEF RingSound, Slots
<1>3. (tail - 1 + SCHED_MAX_THREADS) % SCHED_MAX_THREADS =
         IF tail - 1 + SCHED_MAX_THREADS < SCHED_MAX_THREADS
         THEN tail - 1 + SCHED_MAX_THREADS ELSE tail - 1
  BY <1>1, <1>2, Wraps
<1> QED BY <1>1, <1>2, <1>3, SlotIs

-----------------------------------------------------------------------------
(* Sequences.                                                              *)

\* Where a sequence with one more element at the end comes from.
LEMMA IsAppend ==
  ASSUME NEW S, NEW q \in Seq(S), NEW x \in S, NEW r \in Seq(S), Len(r) = Len(q) + 1,
         \A i \in 1 .. Len(q) : r[i] = q[i], r[Len(q) + 1] = x
  PROVE  r = Append(q, x)
OBVIOUS

\* Where a sequence without its first element comes from.
LEMMA IsTail ==
  ASSUME NEW S, NEW q \in Seq(S), q # << >>, NEW r \in Seq(S), Len(r) = Len(q) - 1,
         \A i \in 1 .. Len(r) : r[i] = q[i + 1]
  PROVE  r = Tail(q) /\ q[1] = Head(q)
OBVIOUS

\* What a concatenation holds where.
LEMMA Joins ==
  ASSUME NEW S, NEW a \in Seq(S), NEW c \in Seq(S)
  PROVE  /\ a \o c \in Seq(S) /\ Len(a \o c) = Len(a) + Len(c)
         /\ \A k \in 1 .. Len(a) : (a \o c)[k] = a[k]
         /\ \A k \in 1 .. Len(c) : (a \o c)[Len(a) + k] = c[k]
OBVIOUS

\* Sequences of the same length and elements are equal.
LEMMA SameSeq ==
  ASSUME NEW S, NEW r \in Seq(S), NEW q \in Seq(S), Len(r) = Len(q),
         \A k \in 1 .. Len(r) : r[k] = q[k]
  PROVE  r = q
OBVIOUS

\* Where a sequence without its i-th element comes from.
LEMMA IsRemoved ==
  ASSUME NEW S, NEW q \in Seq(S), NEW i \in 1 .. Len(q), NEW r \in Seq(S),
         Len(r) = Len(q) - 1,
         \A j \in 1 .. i - 1 : r[j] = q[j],
         \A j \in i .. Len(r) : r[j] = q[j + 1]
  PROVE  r = SubSeq(q, 1, i - 1) \o SubSeq(q, i + 1, Len(q))
<1> DEFINE a == SubSeq(q, 1, i - 1)
           c == SubSeq(q, i + 1, Len(q))
<1>1. a \in Seq(S) /\ Len(a) = i - 1 /\ \A k \in 1 .. i - 1 : a[k] = q[k] OBVIOUS
<1>2. c \in Seq(S) /\ Len(c) = Len(q) - i /\ \A k \in 1 .. Len(c) : c[k] = q[i + k] OBVIOUS
<1> HIDE DEF a, c
<1>3. /\ a \o c \in Seq(S) /\ Len(a \o c) = Len(a) + Len(c)
      /\ \A k \in 1 .. Len(a) : (a \o c)[k] = a[k]
      /\ \A k \in 1 .. Len(c) : (a \o c)[Len(a) + k] = c[k]
  <2>1. a \in Seq(S) /\ c \in Seq(S) BY <1>1, <1>2
  <2> QED BY <2>1, Joins
<1>4. ASSUME NEW k \in 1 .. Len(r) PROVE r[k] = (a \o c)[k]
  <2>1. CASE k < i BY <1>1, <1>3, <2>1
  <2>2. CASE ~ (k < i)
    <3>1. k - (i - 1) \in 1 .. Len(c) /\ Len(a) + (k - (i - 1)) = k BY <1>1, <1>2, <2>2
    <3>2. (a \o c)[k] = c[k - (i - 1)] BY <1>3, <3>1
    <3>3. c[k - (i - 1)] = q[i + (k - (i - 1))] /\ i + (k - (i - 1)) = k + 1 BY <1>2, <3>1
    <3> QED BY <2>2, <3>2, <3>3
  <2> QED BY <2>1, <2>2
<1>5. Len(r) = Len(a \o c) BY <1>1, <1>2, <1>3
<1>6. r = a \o c BY <1>3, <1>4, <1>5, SameSeq
<1> QED BY <1>6 DEF a, c

\* A function on 1 .. n is a sequence of length n.
LEMMA IsSeq ==
  ASSUME NEW S, NEW n \in Nat, NEW q \in [1 .. n -> S]
  PROVE  q \in Seq(S) /\ Len(q) = n
OBVIOUS

\* What waits in the ring is a sequence of cnt entries.
LEMMA WaitingType ==
  ASSUME RingInv
  PROVE  /\ waiting \in Seq(Entries) /\ Len(waiting) = cnt
         /\ \A i \in 1 .. cnt : waiting[i] = queue[slot(i - 1)]
<1>1. SCHED_MAX_THREADS \in Nat \ {0} BY RingAssumption
<1>2. cnt \in Nat /\ cnt <= SCHED_MAX_THREADS BY <1>1 DEF RingInv, RingSound
<1>3. \A i \in 1 .. cnt : queue[slot(i - 1)] \in Entries
  BY <1>1, <1>2, SlotIs DEF RingInv
<1>4. waiting \in [1 .. cnt -> Entries] BY <1>3 DEF waiting
<1> QED BY <1>2, <1>4, IsSeq DEF waiting

-----------------------------------------------------------------------------
(* Steps.                                                                  *)

\* The ring at boot is an empty queue.
LEMMA RingInitInv == RingInit => RingInv /\ Fifo!Init
<1> SUFFICES ASSUME RingInit PROVE RingInv /\ Fifo!Init OBVIOUS
<1>1. SCHED_MAX_THREADS \in Nat \ {0} BY RingAssumption
<1>2. head = 0 /\ tail = 0 /\ cnt = 0 /\ popped = NULL BY DEF RingInit
<1>3. slot(0) = 0 BY <1>1, <1>2 DEF slot
<1>4. RingInv BY <1>1, <1>2, <1>3 DEF RingInit, RingInv, RingSound, Slots, Entries
<1>5. waiting = << >>
  <2>1. Len(waiting) = 0 /\ waiting \in Seq(Entries) BY <1>2, <1>4, WaitingType
  <2> QED BY <2>1
<1> QED BY <1>2, <1>4, <1>5 DEF Fifo!Init, waiting

\* WaitingType after a step.
LEMMA WaitingNext ==
  ASSUME RingInv'
  PROVE  /\ waiting' \in Seq(Entries) /\ Len(waiting') = cnt'
         /\ \A i \in 1 .. cnt' : waiting'[i] = queue'[(head' + (i - 1)) % SCHED_MAX_THREADS]
<1>1. SCHED_MAX_THREADS \in Nat \ {0} BY RingAssumption
<1>2. cnt' \in Nat /\ cnt' <= SCHED_MAX_THREADS BY <1>1 DEF RingInv, RingSound
<1>3. waiting' = [i \in 1 .. cnt' |-> queue'[(head' + (i - 1)) % SCHED_MAX_THREADS]]
  BY DEF waiting, slot
<1>4. \A i \in 1 .. cnt' : queue'[(head' + (i - 1)) % SCHED_MAX_THREADS] \in Entries
  <2> TAKE i \in 1 .. cnt'
  <2>1. head' \in 0 .. SCHED_MAX_THREADS - 1 BY DEF RingInv, RingSound, Slots
  <2>2. (head' + (i - 1)) % SCHED_MAX_THREADS \in Slots
    <3>1. \A h \in 0 .. SCHED_MAX_THREADS - 1 : h + (i - 1) \in Nat BY <1>1, <1>2
    <3>2. \A a \in Nat : a % SCHED_MAX_THREADS \in Slots BY <1>1 DEF Slots
    <3> QED BY <2>1, <3>1, <3>2, Zenon
  <2>3. queue' \in [Slots -> Entries] BY DEF RingInv
  <2> QED BY <2>2, <2>3
<1>5. waiting' \in [1 .. cnt' -> Entries] BY <1>3, <1>4
<1> QED BY <1>2, <1>3, <1>5, IsSeq

\* q_push appends, or drops the thread when the ring is full.
LEMMA PushStep ==
  ASSUME RingInv, NEW t \in Threads, q_push(t)
  PROVE  RingInv' /\ Fifo!Push(t)
<1>1. SCHED_MAX_THREADS \in Nat \ {0} BY RingAssumption
<1>2. head \in Slots /\ tail \in Slots /\ cnt \in 0 .. SCHED_MAX_THREADS /\ tail = slot(cnt)
      /\ queue \in [Slots -> Entries] /\ head' = head /\ popped' = popped
  BY DEF RingInv, RingSound, q_push
<1>3. \A i : slot(i)' = slot(i) BY <1>2 DEF slot
<1>4. CASE full(cnt)
  <2>1. queue' = queue /\ tail' = tail /\ cnt' = cnt BY <1>4 DEF q_push
  <2>2. RingInv' BY <1>2, <2>1 DEF RingInv, RingSound, slot
  <2>3. waiting' = waiting BY <1>2, <2>1 DEF waiting, slot
  <2>4. ~ (Len(waiting) < SCHED_MAX_THREADS) BY <1>1, <1>2, <1>4, WaitingType DEF full
  <2> QED BY <1>2, <2>2, <2>3, <2>4 DEF Fifo!Push, waiting
<1>5. CASE ~ full(cnt)
  <2>1. /\ queue' = [queue EXCEPT ![tail] = t]
        /\ tail' = (tail + 1) % SCHED_MAX_THREADS /\ cnt' = cnt + 1
    BY <1>5 DEF q_push
  <2>2. cnt \in 0 .. SCHED_MAX_THREADS - 1 BY <1>1, <1>2, <1>5 DEF full
  <2>3. tail' = slot(cnt + 1) /\ slot(cnt + 1) \in Slots
    BY <1>1, <1>2, <2>1, <2>2, NextSlot, SlotIs DEF RingInv
  <2>4. RingSound' BY <1>1, <1>2, <2>1, <2>2, <2>3 DEF RingSound, slot
  <2>5. RingInv' BY <1>2, <2>1, <2>4 DEF RingInv, Entries
  <2>6. \A i \in 1 .. cnt : waiting'[i] = waiting[i]
    <3> TAKE i \in 1 .. cnt
    <3>1. slot(i - 1) # tail BY <1>1, <1>2, <2>2, SlotsDiffer DEF RingInv
    <3>2. slot(i - 1) \in Slots BY <1>1, <1>2, SlotIs DEF RingInv
    <3>3. waiting'[i] = queue'[slot(i - 1)] BY <1>2, <2>1, <2>2, <2>5, WaitingNext DEF slot
    <3> QED BY <1>2, <2>1, <3>1, <3>2, <3>3, WaitingType
  <2>7. waiting'[cnt + 1] = t
    <3>1. waiting'[cnt + 1] = queue'[slot(cnt)] BY <1>2, <2>1, <2>2, <2>5, WaitingNext DEF slot
    <3> QED BY <1>2, <2>1, <3>1
  <2>8. Len(waiting') = Len(waiting) + 1 /\ Len(waiting) = cnt
        /\ waiting \in Seq(Entries) /\ waiting' \in Seq(Entries) /\ t \in Entries
    BY <2>1, <2>5, WaitingType, WaitingNext DEF Entries
  <2>9. waiting' = Append(waiting, t) BY <2>6, <2>7, <2>8, IsAppend
  <2>10. Len(waiting) < SCHED_MAX_THREADS BY <1>1, <2>2, <2>8
  <2> QED BY <1>2, <2>5, <2>9, <2>10 DEF Fifo!Push, waiting
<1> QED BY <1>4, <1>5

\* q_pop takes the oldest entry.
LEMMA PopStep ==
  ASSUME RingInv, q_pop
  PROVE  RingInv' /\ Fifo!Pop
<1>1. SCHED_MAX_THREADS \in Nat \ {0} BY RingAssumption
<1>2. head \in Slots /\ tail \in Slots /\ cnt \in 1 .. SCHED_MAX_THREADS /\ tail = slot(cnt)
      /\ queue \in [Slots -> Entries]
  BY <1>1 DEF RingInv, RingSound, q_pop
<1>3. popped' = queue[head] /\ head' = (head + 1) % SCHED_MAX_THREADS /\ cnt' = cnt - 1
      /\ queue' = queue /\ tail' = tail
  BY DEF q_pop
<1>4. slot(0) = head BY <1>1, <1>2, SlotIs DEF RingInv, Slots
<1>5. head' = slot(1) /\ head' \in Slots BY <1>1, <1>2, <1>3, SlotIs DEF RingInv, slot
<1>6. ASSUME NEW i \in 0 .. SCHED_MAX_THREADS - 1
      PROVE  (head' + i) % SCHED_MAX_THREADS = slot(i + 1)
  <2>1. head \in 0 .. SCHED_MAX_THREADS - 1 BY <1>2 DEF Slots
  <2>2. head' = IF head + 1 < SCHED_MAX_THREADS THEN head + 1 ELSE 0 BY <1>1, <1>3, <2>1
  <2>3. (head + (i + 1)) % SCHED_MAX_THREADS =
           IF head + (i + 1) < SCHED_MAX_THREADS THEN head + (i + 1)
           ELSE head + (i + 1) - SCHED_MAX_THREADS
    BY <1>1, <2>1
  <2>4. CASE head + 1 < SCHED_MAX_THREADS
    <3>1. head' + i = head + (i + 1) BY <2>1, <2>2, <2>4
    <3> QED BY <3>1 DEF slot
  <2>5. CASE ~ (head + 1 < SCHED_MAX_THREADS)
    <3>1. head' = 0 /\ head + (i + 1) - SCHED_MAX_THREADS = i BY <1>1, <2>1, <2>2, <2>5
    <3>2. i % SCHED_MAX_THREADS = i BY <1>1
    <3>3. (head + (i + 1)) % SCHED_MAX_THREADS = i BY <1>1, <2>1, <2>3, <3>1
    <3> QED BY <3>1, <3>2, <3>3 DEF slot
  <2> QED BY <2>4, <2>5
<1>7. RingInv'
  <2>1. tail' = (head' + cnt') % SCHED_MAX_THREADS BY <1>1, <1>2, <1>3, <1>6
  <2> QED BY <1>1, <1>2, <1>3, <1>5, <2>1 DEF RingInv, RingSound, slot
<1>8. Len(waiting') = Len(waiting) - 1 /\ Len(waiting) = cnt /\ waiting # << >>
      /\ waiting \in Seq(Entries) /\ waiting' \in Seq(Entries)
  <2>1. Len(waiting) = cnt /\ waiting \in Seq(Entries) BY WaitingType
  <2>2. Len(waiting') = cnt' /\ waiting' \in Seq(Entries) BY <1>7, WaitingNext
  <2> QED BY <1>2, <1>3, <2>1, <2>2
<1>9. ASSUME NEW i \in 1 .. Len(waiting') PROVE waiting'[i] = waiting[i + 1]
  <2>1. i \in 1 .. cnt' /\ i + 1 \in 1 .. cnt /\ i - 1 \in 0 .. SCHED_MAX_THREADS - 1
        /\ (i - 1) + 1 = i /\ (i + 1) - 1 = i
    BY <1>1, <1>2, <1>3, <1>8
  <2>2. waiting'[i] = queue'[(head' + (i - 1)) % SCHED_MAX_THREADS] BY <1>7, <2>1, WaitingNext
  <2>3. waiting[i + 1] = queue[slot(i)]
    <3>1. waiting[i + 1] = queue[slot((i + 1) - 1)] BY <2>1, WaitingType
    <3> QED BY <2>1, <3>1
  <2>4. (head' + (i - 1)) % SCHED_MAX_THREADS = slot(i)
    <3>1. (head' + (i - 1)) % SCHED_MAX_THREADS = slot((i - 1) + 1) BY <1>6, <2>1
    <3> QED BY <2>1, <3>1
  <2> QED BY <1>3, <2>2, <2>3, <2>4
<1>10. waiting' = Tail(waiting) /\ waiting[1] = Head(waiting) BY <1>8, <1>9, IsTail
<1>11. waiting[1] = queue[head]
  <2>1. waiting[1] = queue[slot(1 - 1)] BY <1>2, WaitingType
  <2> QED BY <1>4, <2>1
<1> QED BY <1>3, <1>7, <1>8, <1>10, <1>11 DEF Fifo!Pop, waiting

\* sched_remove takes out one entry and closes the gap.
LEMMA RemoveStep ==
  ASSUME RingInv, NEW t \in Threads, sched_remove(t)
  PROVE  RingInv' /\ Fifo!Remove(t)
<1>1. SCHED_MAX_THREADS \in Nat \ {0} BY RingAssumption
<1>2. head \in Slots /\ tail \in Slots /\ cnt \in 0 .. SCHED_MAX_THREADS /\ tail = slot(cnt)
      /\ queue \in [Slots -> Entries] /\ RingSound
  BY DEF RingInv, RingSound
<1>3. head' = head /\ popped' = popped /\ cnt' = cnt - 1
      /\ tail' = (tail - 1 + SCHED_MAX_THREADS) % SCHED_MAX_THREADS
  BY DEF sched_remove
<1>4. PICK i \in 0 .. cnt - 1 : /\ queue' = moved_up(i)
                               /\ queue[slot(i)] = t
                               /\ \A j \in 0 .. i - 1 : queue[slot(j)] # t
  BY DEF sched_remove
<1>5. cnt \in 1 .. SCHED_MAX_THREADS /\ cnt' \in 0 .. SCHED_MAX_THREADS - 1 /\ cnt' \in Nat
  BY <1>1, <1>2, <1>3, <1>4
<1> DEFINE Up(k) == \E j \in i .. cnt - 2 : k = slot(j)
<1>6. queue' = [k \in Slots |-> IF Up(k) THEN queue[(k + 1) % SCHED_MAX_THREADS] ELSE queue[k]]
  <2>1. queue' = moved_up(i) BY <1>4, Zenon
  <2> QED BY <2>1 DEF moved_up
<1> HIDE DEF Up
<1>7. ASSUME NEW j \in i .. cnt - 2 PROVE queue'[slot(j)] = queue[slot(j + 1)]
  <2>1. j \in 0 .. SCHED_MAX_THREADS - 1 BY <1>1, <1>5
  <2>2. slot(j) \in Slots /\ slot(j + 1) = (slot(j) + 1) % SCHED_MAX_THREADS
    BY <1>1, <1>2, <2>1, NextSlot, SlotIs
  <2>3. Up(slot(j)) BY DEF Up
  <2> QED BY <1>6, <2>2, <2>3
<1>8. ASSUME NEW j \in 0 .. i - 1 PROVE queue'[slot(j)] = queue[slot(j)]
  <2>1. j \in 0 .. SCHED_MAX_THREADS - 1 BY <1>1, <1>5
  <2>2. slot(j) \in Slots BY <1>1, <1>2, <2>1, SlotIs
  <2>3. ASSUME NEW m \in i .. cnt - 2 PROVE slot(j) # slot(m)
    <3>1. m \in 0 .. SCHED_MAX_THREADS - 1 /\ m # j BY <1>1, <1>5
    <3> QED BY <1>2, <2>1, <3>1, SlotsDiffer
  <2>4. ~ Up(slot(j)) BY <2>3 DEF Up
  <2> QED BY <1>6, <2>2, <2>4
<1>9. tail' = slot(cnt - 1) /\ tail' \in Slots
  BY <1>1, <1>2, <1>3, <1>5, TailBack, SlotIs
<1>10. queue' \in [Slots -> Entries]
  <2>1. \A k \in Slots : (k + 1) % SCHED_MAX_THREADS \in Slots BY <1>1 DEF Slots
  <2> QED BY <1>2, <1>6, <2>1
<1>11. RingInv' BY <1>1, <1>2, <1>3, <1>5, <1>9, <1>10 DEF RingInv, RingSound, slot
<1>12. waiting \in Seq(Entries) /\ Len(waiting) = cnt /\ \A k \in 1 .. cnt : waiting[k] = queue[slot(k - 1)]
  BY WaitingType
<1>13. waiting' \in Seq(Entries) /\ Len(waiting') = cnt - 1
       /\ \A k \in 1 .. cnt - 1 : waiting'[k] = queue'[slot(k - 1)]
  <2>1. /\ waiting' \in Seq(Entries) /\ Len(waiting') = cnt'
        /\ \A k \in 1 .. cnt' : waiting'[k] = queue'[(head' + (k - 1)) % SCHED_MAX_THREADS]
    BY <1>11, WaitingNext
  <2> QED BY <1>3, <2>1 DEF slot
<1>14. ASSUME NEW k \in 1 .. (i + 1) - 1 PROVE waiting'[k] = waiting[k]
  <2>1. k - 1 \in 0 .. i - 1 /\ k \in 1 .. cnt - 1 /\ k \in 1 .. cnt BY <1>4, <1>5
  <2> QED BY <1>8, <1>12, <1>13, <2>1
<1>15. ASSUME NEW k \in i + 1 .. Len(waiting') PROVE waiting'[k] = waiting[k + 1]
  <2>1. k - 1 \in i .. cnt - 2 /\ k \in 1 .. cnt - 1 /\ k + 1 \in 1 .. cnt
        /\ (k - 1) + 1 = k /\ (k + 1) - 1 = k
    BY <1>4, <1>5, <1>13
  <2>2. queue'[slot(k - 1)] = queue[slot((k - 1) + 1)] BY <1>7, <2>1
  <2>3. waiting[k + 1] = queue[slot((k + 1) - 1)] BY <1>12, <2>1
  <2> QED BY <1>13, <2>1, <2>2, <2>3
<1>16. i + 1 \in 1 .. Len(waiting) /\ Len(waiting') = Len(waiting) - 1 BY <1>4, <1>5, <1>12, <1>13
<1>17. waiting' = SubSeq(waiting, 1, (i + 1) - 1) \o SubSeq(waiting, (i + 1) + 1, Len(waiting))
  BY <1>12, <1>13, <1>14, <1>15, <1>16, IsRemoved
<1>18. waiting[i + 1] = t
  <2>1. i + 1 \in 1 .. cnt /\ (i + 1) - 1 = i BY <1>4, <1>5
  <2>2. waiting[i + 1] = queue[slot((i + 1) - 1)] BY <1>12, <2>1
  <2> QED BY <1>4, <2>1, <2>2
<1>19. ASSUME NEW k \in 1 .. (i + 1) - 1 PROVE waiting[k] # t
  <2>1. k - 1 \in 0 .. i - 1 /\ k \in 1 .. cnt BY <1>4, <1>5
  <2> QED BY <1>4, <1>12, <2>1
<1>20. \E m \in 1 .. Len(waiting) :
          /\ waiting[m] = t /\ \A k \in 1 .. m - 1 : waiting[k] # t
          /\ waiting' = SubSeq(waiting, 1, m - 1) \o SubSeq(waiting, m + 1, Len(waiting))
  BY <1>16, <1>17, <1>18, <1>19
<1> QED BY <1>3, <1>11, <1>20 DEF Fifo!Remove, waiting

\* For every size of the ring: head, tail and count never contradict each other,
\* and q_push, q_pop and sched_remove are those of a bounded first-in-first-out
\* queue, wherever the entries lie (ImplementsFifo).
THEOREM RingIsFifo == RingSpec => ImplementsFifo
<1>1. RingInv /\ [RingNext]_ringvars => RingInv' /\ [Fifo!Next]_<<waiting, popped>>
  <2> SUFFICES ASSUME RingInv, [RingNext]_ringvars
               PROVE  RingInv' /\ [Fifo!Next]_<<waiting, popped>>
    OBVIOUS
  <2>1. CASE q_pop BY <2>1, PopStep DEF Fifo!Next
  <2>2. CASE \E t \in Threads : q_push(t) BY <2>2, PushStep DEF Fifo!Next
  <2>3. CASE \E t \in Threads : sched_remove(t) BY <2>3, RemoveStep DEF Fifo!Next
  <2>4. CASE UNCHANGED ringvars
    BY <2>4 DEF ringvars, RingInv, RingSound, slot, waiting
  <2> QED BY <2>1, <2>2, <2>3, <2>4 DEF RingNext
<1>2. RingInv => RingSound BY DEF RingInv
<1> QED BY <1>1, <1>2, RingInitInv, PTL DEF RingSpec, ImplementsFifo, Fifo!Spec, waiting

-----------------------------------------------------------------------------
(* The memory calls.                                                       *)

-----------------------------------------------------------------------------
(* The memory system calls.                                                *)

\* What the constants are.
LEMMA UmIs ==
    /\ UM_PAGE \in Nat \ {0} /\ UM_FRAMES \in Nat \ {0} /\ WORD \in Nat /\ LOW \in Nat
    /\ BRK_START \in Nat /\ MMAP_START \in Nat /\ TOP \in Nat /\ TOP < WORD
    /\ UM_FRAMES * UM_PAGE \in Nat /\ TOP + 2 * (UM_FRAMES * UM_PAGE) < WORD
    /\ UM_PAGE <= UM_FRAMES * UM_PAGE
<1> DEFINE P == UM_PAGE  F == UM_FRAMES
<1>1. P \in Nat \ {0} /\ F \in Nat \ {0}
  BY UserMemAssumption
<1> HIDE DEF P, F
<1>2. F * P \in Nat /\ P <= F * P
  <2>1. F - 1 \in Nat /\ (F - 1) * P \in Nat
    BY <1>1
  <2>2. F * P = (F - 1) * P + P
    BY <1>1
  <2> QED
    BY <1>1, <2>1, <2>2
<1>3. TOP \in Nat /\ WORD \in Nat /\ TOP + 2 * (F * P) < WORD
  BY UserMemAssumption DEF F, P
<1> DEFINE z == F * P
<1> HIDE DEF z
<1>4. z \in Nat /\ TOP + 2 * z < WORD
  BY <1>2, <1>3 DEF z
<1>5. TOP < WORD
  BY <1>3, <1>4
<1> QED
  BY <1>1, <1>2, <1>3, <1>5, UserMemAssumption DEF F, P

\* A multiple of the page size, and what follows from it.
LEMMA Multiple ==
    ASSUME NEW k \in Nat
    PROVE  k * UM_PAGE \in Nat /\ (k * UM_PAGE) % UM_PAGE = 0 /\ (k * UM_PAGE) \div UM_PAGE = k
<1> DEFINE P == UM_PAGE
<1>1. P \in Nat \ {0}
  BY UmIs
<1> HIDE DEF P
<1> DEFINE x == k * P
<1>2. x \in Nat
  BY <1>1
<1>3. x \div P \in Nat /\ x % P \in 0 .. P - 1 /\ x = P * (x \div P) + (x % P)
  <2> HIDE DEF x
  <2> QED
    BY <1>1, <1>2
<1> DEFINE q == x \div P  r == x % P
<1>4. q \in Nat /\ r \in 0 .. P - 1 /\ k * P = P * q + r
  BY <1>3
<1> HIDE DEF q, r
<1>5. q = k
  <2>1. CASE q < k
    <3>1. PICK z \in Nat : k = q + 1 + z
      <4>1. k - q - 1 \in Nat /\ k = q + 1 + (k - q - 1)
        BY <1>4, <2>1
      <4> QED
        BY <4>1
    <3>2. k * P = P * q + P + z * P /\ z * P \in Nat /\ P * q \in Nat
      BY <1>1, <1>4, <3>1
    <3> QED
      BY <1>1, <1>4, <3>2
  <2>2. CASE k < q
    <3>1. PICK z \in Nat : q = k + 1 + z
      <4>1. q - k - 1 \in Nat /\ q = k + 1 + (q - k - 1)
        BY <1>4, <2>2
      <4> QED
        BY <4>1
    <3>2. P * q = k * P + P + z * P /\ z * P \in Nat /\ k * P \in Nat
      BY <1>1, <1>4, <3>1
    <3> QED
      BY <1>1, <1>4, <3>2
  <2> QED
    BY <1>4, <2>1, <2>2
<1>6. r = 0
  <2>1. P * q = k * P /\ k * P \in Nat
    BY <1>1, <1>5
  <2> QED
    BY <1>4, <2>1
<1> QED
  BY <1>2, <1>5, <1>6 DEF P, q, r

\* Every number without a remainder is one.
LEMMA IsMultiple ==
    ASSUME NEW x \in Nat, x % UM_PAGE = 0
    PROVE  \E k \in Nat : x = k * UM_PAGE
<1> DEFINE P == UM_PAGE
<1>1. P \in Nat \ {0} /\ x % P = 0
  BY UmIs
<1> HIDE DEF P
<1>2. x \div P \in Nat /\ x = P * (x \div P) + (x % P)
  BY <1>1
<1> DEFINE q == x \div P
<1>3. q \in Nat /\ x = P * q
  BY <1>1, <1>2
<1> HIDE DEF q
<1>4. x = q * P
  BY <1>1, <1>3
<1> QED
  BY <1>3, <1>4 DEF P

\* Starts of pages: k pages further is one again, and whole pages lie
\* between two of them.
LEMMA PagesOn ==
    ASSUME NEW b \in Nat, b % UM_PAGE = 0, NEW k \in Nat
    PROVE  b + k * UM_PAGE \in Nat /\ (b + k * UM_PAGE) % UM_PAGE = 0
<1> DEFINE P == UM_PAGE
<1>1. P \in Nat \ {0}
  BY UmIs
<1>2. PICK j \in Nat : b = j * P
  BY IsMultiple
<1> HIDE DEF P
<1>3. b + k * P = (j + k) * P /\ j + k \in Nat
  BY <1>1, <1>2
<1>4. (j + k) * P \in Nat /\ ((j + k) * P) % P = 0
  <2> DEFINE l == j + k
  <2>1. l \in Nat
    BY <1>3
  <2> HIDE DEF l
  <2>2. l * P \in Nat /\ (l * P) % P = 0
    BY <2>1, Multiple DEF P
  <2> QED
    BY <2>2 DEF l
<1> QED
  BY <1>3, <1>4 DEF P

\* The other way round.
LEMMA PagesBetween ==
    ASSUME NEW b \in Nat, b % UM_PAGE = 0, NEW a \in Nat, a % UM_PAGE = 0, b <= a
    PROVE  \E k \in Nat : a = b + k * UM_PAGE
<1> DEFINE P == UM_PAGE
<1>1. P \in Nat \ {0}
  BY UmIs
<1>2. PICK i \in Nat : b = i * P
  BY IsMultiple
<1>3. PICK j \in Nat : a = j * P
  BY IsMultiple
<1> HIDE DEF P
<1>4. i <= j
  <2> SUFFICES ASSUME j < i PROVE FALSE
    BY <1>2, <1>3
  <2>1. PICK z \in Nat : i = j + 1 + z
    <3>1. i - j - 1 \in Nat /\ i = j + 1 + (i - j - 1)
      OBVIOUS
    <3> QED
      BY <3>1
  <2>2. i * P = j * P + P + z * P /\ z * P \in Nat /\ j * P \in Nat
    BY <1>1, <2>1
  <2> QED
    BY <1>1, <1>2, <1>3, <2>2
<1>5. j - i \in Nat /\ j = i + (j - i)
  BY <1>4
<1> DEFINE k == j - i
<1> HIDE DEF k
<1>6. k \in Nat /\ j = i + k
  BY <1>5 DEF k
<1>7. a = b + k * P
  BY <1>1, <1>2, <1>3, <1>6
<1> QED
  BY <1>6, <1>7 DEF P

\* k pages are less than n of them exactly when k is less than n.
LEMMA FewerPages ==
    ASSUME NEW k \in Nat, NEW n \in Nat
    PROVE  /\ k * UM_PAGE \in Nat /\ n * UM_PAGE \in Nat
           /\ k < n <=> k * UM_PAGE < n * UM_PAGE
           /\ k < n => k * UM_PAGE + UM_PAGE <= n * UM_PAGE
           /\ k <= n <=> k * UM_PAGE <= n * UM_PAGE
<1> DEFINE P == UM_PAGE
<1>1. P \in Nat \ {0}
  BY UmIs
<1> HIDE DEF P
<1>2. ASSUME NEW x \in Nat, NEW y \in Nat, x < y PROVE x * P + P <= y * P
  <2>1. PICK z \in Nat : y = x + 1 + z
    <3>1. y - x - 1 \in Nat /\ y = x + 1 + (y - x - 1)
      BY <1>2
    <3> QED
      BY <3>1
  <2>2. y * P = x * P + P + z * P /\ z * P \in Nat /\ x * P \in Nat
    BY <1>1, <2>1
  <2> QED
    BY <1>1, <2>2
<1>3. k * P \in Nat /\ n * P \in Nat
  BY <1>1
<1> DEFINE u == k * P  v == n * P
<1>4. (k < n => u + P <= v) /\ (n < k => v + P <= u) /\ (k = n => u = v)
  BY <1>2
<1>5. u \in Nat /\ v \in Nat
  BY <1>3
<1> HIDE DEF u, v
<1>6. (k < n <=> u < v) /\ (k <= n <=> u <= v)
  BY <1>1, <1>4, <1>5
<1> QED
  BY <1>4, <1>5, <1>6 DEF P, u, v

\* align_down: the start of the page.
LEMMA UmDown ==
    ASSUME NEW v \in Nat
    PROVE  /\ align_down(v) \in Nat /\ align_down(v) <= v /\ v < align_down(v) + UM_PAGE
           /\ align_down(v) % UM_PAGE = 0
           /\ v % UM_PAGE = 0 => align_down(v) = v
<1> DEFINE P == UM_PAGE
<1>1. P \in Nat \ {0}
  BY UmIs
<1> HIDE DEF P
<1>2. v \div P \in Nat /\ v % P \in 0 .. P - 1 /\ v = P * (v \div P) + (v % P)
  BY <1>1
<1> DEFINE q == v \div P  r == v % P
<1>3. q \in Nat /\ r \in 0 .. P - 1 /\ v = P * q + r /\ align_down(v) = v - r
  BY <1>2 DEF align_down, P
<1> HIDE DEF q, r
<1>4. P * q = q * P /\ q * P \in Nat
  BY <1>1, <1>3
<1> DEFINE u == q * P
<1>5. u \in Nat /\ u % P = 0
  BY <1>3, Multiple DEF P
<1>6. v = u + r
  BY <1>3, <1>4
<1> HIDE DEF u
<1>7. align_down(v) = u /\ u <= v /\ v < u + P
  BY <1>1, <1>3, <1>5, <1>6
<1>8. r = 0 => u = v
  BY <1>3, <1>5, <1>6
<1> QED
  BY <1>5, <1>7, <1>8 DEF P, r

\* Addresses do not wrap below WORD.
LEMMA NoWordWrap ==
    ASSUME NEW x \in Nat, x < WORD
    PROVE  x % WORD = x
<1> DEFINE W == WORD
<1>1. W \in Nat \ {0} /\ x < W
  BY UmIs
<1> HIDE DEF W
<1>2. x \div W \in Nat /\ x % W \in 0 .. W - 1 /\ x = W * (x \div W) + (x % W)
  BY <1>1
<1> DEFINE q == x \div W  r == x % W
<1>3. q \in Nat /\ r \in 0 .. W - 1 /\ x = W * q + r
  BY <1>2
<1> HIDE DEF q, r
<1>4. q = 0
  <2> SUFFICES ASSUME q # 0 PROVE FALSE
    OBVIOUS
  <2>1. q - 1 \in Nat /\ W * q = W + W * (q - 1) /\ W * (q - 1) \in Nat
    BY <1>1, <1>3
  <2> QED
    BY <1>1, <1>3, <2>1
<1>5. x = r
  BY <1>1, <1>3, <1>4
<1> QED
  BY <1>5 DEF W, r

\* Which page of a range an address is.
Nth(base, a) == ((a - base) % WORD) \div UM_PAGE

\* The i-th page of a range that does not wrap.
LEMMA NthIs ==
    ASSUME NEW base \in Nat, base % UM_PAGE = 0, NEW n \in Nat, base + n * UM_PAGE < WORD,
           NEW i \in 0 .. n - 1
    PROVE  LET a == base + i * UM_PAGE IN
           /\ a \in PageBases /\ base <= a /\ a < base + n * UM_PAGE /\ a % WORD = a /\ Nth(base, a) = i
<1> DEFINE P == UM_PAGE  a == base + i * P
<1>1. P \in Nat \ {0} /\ WORD \in Nat /\ i \in Nat /\ i < n
  BY UmIs
<1>2. i * P \in Nat /\ n * P \in Nat /\ i * P < n * P /\ (i * P) \div P = i
  BY <1>1, FewerPages, Multiple
<1>3. a \in Nat /\ a % P = 0
  BY <1>1, PagesOn
<1> DEFINE u == i * P  v == n * P
<1>4. u \in Nat /\ v \in Nat /\ u < v /\ u \div P = i /\ a = base + u /\ base + v < WORD
  BY <1>2
<1> HIDE DEF u, v, P
<1>5. base <= a /\ a < base + v /\ a < WORD /\ u < WORD /\ a - base = u
  BY <1>1, <1>4
<1> HIDE DEF a
<1>6. a % WORD = a /\ (a - base) % WORD = u
  BY <1>3, <1>4, <1>5, NoWordWrap
<1>7. a \in PageBases
  BY <1>1, <1>3, <1>5 DEF PageBases, P
<1> QED
  BY <1>4, <1>5, <1>6, <1>7 DEF Nth, a, u, v, P

\* The pages of such a range.
LEMMA PagesAtIs ==
    ASSUME NEW base \in Nat, base % UM_PAGE = 0, NEW n \in Nat, base + n * UM_PAGE < WORD
    PROVE  /\ \A a : a \in pages_at(base, n) <=> a \in PageBases /\ base <= a /\ a < base + n * UM_PAGE
           /\ \A a \in pages_at(base, n) : Nth(base, a) \in 0 .. n - 1 /\ a = base + Nth(base, a) * UM_PAGE
           /\ \A i \in 0 .. n - 1 : base + i * UM_PAGE \in pages_at(base, n) /\ Nth(base, base + i * UM_PAGE) = i
<1> DEFINE P == UM_PAGE
<1>1. P \in Nat \ {0} /\ n * P \in Nat /\ WORD \in Nat
  BY UmIs, FewerPages
<1>2. \A i \in 0 .. n - 1 : LET a == base + i * P IN
        /\ a \in PageBases /\ base <= a /\ a < base + n * P /\ a % WORD = a /\ Nth(base, a) = i
  BY NthIs
<1>3. \A a : a \in pages_at(base, n) <=> \E i \in 0 .. n - 1 : a = base + i * P
  BY <1>2 DEF pages_at
<1>4. ASSUME NEW a \in PageBases, base <= a, a < base + n * P
      PROVE  \E i \in 0 .. n - 1 : a = base + i * P
  <2>1. a \in Nat /\ a % P = 0
    BY <1>1 DEF PageBases
  <2>2. PICK k \in Nat : a = base + k * P
    BY <1>4, <2>1, PagesBetween
  <2>3. k * P \in Nat /\ (k < n <=> k * P < n * P)
    BY FewerPages
  <2> DEFINE u == k * P  v == n * P
  <2>4. u \in Nat /\ v \in Nat /\ a = base + u /\ a < base + v /\ (k < n <=> u < v)
    BY <1>1, <1>4, <2>2, <2>3
  <2> HIDE DEF u, v, P
  <2>5. k < n
    BY <2>4
  <2> QED
    BY <2>2, <2>5
<1>5. \A a : a \in pages_at(base, n) <=> a \in PageBases /\ base <= a /\ a < base + n * P
  BY <1>2, <1>3, <1>4
<1>6. \A a \in pages_at(base, n) : Nth(base, a) \in 0 .. n - 1 /\ a = base + Nth(base, a) * P
  BY <1>2, <1>3
<1>7. \A i \in 0 .. n - 1 : base + i * P \in pages_at(base, n) /\ Nth(base, base + i * P) = i
  BY <1>2, <1>3
<1> QED
  BY <1>5, <1>6, <1>7

\* Below how many of a set a number lies.
Rank(S, f) == Cardinality({g \in S : g < f})

\* As k runs below the size of a set of numbers, some member has k below it.
LEMMA Ranked ==
    ASSUME NEW N \in Nat, NEW S \in SUBSET (1 .. N), NEW k \in 0 .. Cardinality(S) - 1
    PROVE  \E f \in S : Rank(S, f) = k
<1>1. IsFiniteSet(S) /\ Cardinality(S) \in Nat /\ S \subseteq Nat
  <2>1. 1 \in Int /\ N \in Int /\ 1 .. N \subseteq Nat
    OBVIOUS
  <2>2. IsFiniteSet(1 .. N)
    BY <2>1, FS_Interval
  <2>3. IsFiniteSet(S)
    BY <2>2, FS_Subset
  <2> QED
    BY <2>1, <2>3, FS_CardinalityType
<1> DEFINE c == Cardinality(S)
           B == {j \in 0 .. c - 1 : ~ \E f \in S : Rank(S, f) = j}
           Low(f) == {g \in S : g < f}
<1>2. \A f : IsFiniteSet(Low(f)) /\ Cardinality(Low(f)) \in Nat /\ Rank(S, f) = Cardinality(Low(f))
  BY <1>1, FS_Subset, FS_CardinalityType DEF Rank
<1> SUFFICES ASSUME B # {} PROVE FALSE
  OBVIOUS
<1>3. B \in SUBSET Nat
  BY <1>1
<1>4. PICK j \in B : \A i \in B : j <= i
  BY <1>3, LeastNumber
<1>5. j \in 0 .. c - 1 /\ ~ \E f \in S : Rank(S, f) = j
  OBVIOUS
<1>6. CASE j = 0
  <2>1. S # {}
    BY <1>1, <1>5, <1>6, FS_EmptySet
  <2>2. PICK f \in S : \A g \in S : f <= g
    BY <1>1, <2>1, LeastNumber
  <2>3. Low(f) = {}
    <3>1. \A g \in S : ~(g < f)
      <4>1. \A g \in S : g \in Nat
        BY <1>1
      <4> QED
        BY <2>2, <4>1
    <3> QED
      BY <3>1
  <2>4. Rank(S, f) = 0
    BY <1>2, <2>3, FS_EmptySet
  <2> QED
    BY <1>5, <1>6, <2>4
<1>7. CASE j # 0
  <2>1. j - 1 \in 0 .. c - 1 /\ ~(j <= j - 1)
    BY <1>1, <1>5, <1>7
  <2>2. j - 1 \notin B
    <3> HIDE DEF B
    <3> QED
      BY <1>4, <2>1
  <2>3. PICK f \in S : Rank(S, f) = j - 1
    BY <2>1, <2>2
  <2> DEFINE T == Low(f) \cup {f}
             U == {g \in S : f < g}
  <2>4. IsFiniteSet(T) /\ Cardinality(T) = j
    <3>1. f \notin Low(f)
      BY <1>1
    <3>2. IsFiniteSet(T) /\ Cardinality(T) = Cardinality(Low(f)) + 1
      <4> HIDE DEF Low
      <4> QED
        BY <1>2, <3>1, FS_AddElement
    <3> QED
      BY <1>2, <1>5, <2>3, <3>2
  <2>5. U # {}
    <3> SUFFICES ASSUME U = {} PROVE FALSE
      OBVIOUS
    <3>1. S = T
      <4>1. \A g \in S : g \in Nat
        BY <1>1
      <4>2. \A g \in S : g < f \/ g = f
        BY <4>1
      <4> QED
        BY <4>2
    <3> QED
      BY <1>1, <1>5, <2>4, <3>1
  <2>6. PICK h \in U : \A g \in U : h <= g
    BY <1>1, <2>5, LeastNumber
  <2>7. Low(h) = T
    <3>1. h \in S /\ f < h /\ \A g \in S : g \in Nat
      BY <1>1, <2>6
    <3>2. \A g \in S : f < g => h <= g
      BY <2>6
    <3>3. \A g \in S : g < h <=> g < f \/ g = f
      BY <3>1, <3>2
    <3> QED
      BY <3>3
  <2>8. Rank(S, h) = j
    <3> HIDE DEF T, Low
    <3> QED
      BY <1>2, <2>4, <2>7
  <2> QED
    BY <1>5, <2>6, <2>8
<1> QED
  BY <1>6, <1>7

\* The frames handed out one after the other are free and differ.
LEMMA NthFree ==
    ASSUME NEW m, NEW k \in 0 .. Cardinality(free_frames(m)) - 1
    PROVE  nth_free(m, k) \in free_frames(m) /\ Rank(free_frames(m), nth_free(m, k)) = k
<1> DEFINE S == free_frames(m)
<1>1. S \in SUBSET (1 .. UM_FRAMES) /\ UM_FRAMES \in Nat
  BY UmIs DEF free_frames
<1>2. nth_free(m, k) = CHOOSE f \in S : Rank(S, f) = k
  BY DEF nth_free, Rank
<1> HIDE DEF S
<1>3. \E f \in S : Rank(S, f) = k
  BY <1>1, Ranked DEF S
<1> QED
  BY <1>2, <1>3 DEF S

\* Regions as the calls make them: whole pages, from the user half on, no
\* larger than memory.
UmRegion == [base : {b \in PageBases : b <= TOP}, size : {k * UM_PAGE : k \in 1 .. UM_FRAMES}]
Inside(a, r) == r.base <= a /\ a < r.base + r.size
UmSorted(rs) == \A i, j \in 1 .. Len(rs) : i < j => rs[i].base + rs[i].size <= rs[j].base
UmListed(rs) == {rs[i] : i \in 1 .. Len(rs)}

\* The numbers of a region.
LEMMA UmRegionIs ==
    ASSUME NEW r \in UmRegion
    PROVE  /\ r.base \in Nat /\ r.base \in PageBases /\ r.base % UM_PAGE = 0 /\ r.base <= TOP
           /\ r.size \in Nat \ {0} /\ r.size <= UM_FRAMES * UM_PAGE
           /\ r.size \div UM_PAGE \in 1 .. UM_FRAMES /\ r.size = (r.size \div UM_PAGE) * UM_PAGE
           /\ region_end(r) = r.base + r.size /\ r.base + r.size < WORD
           /\ (r.base + r.size) % UM_PAGE = 0
<1>1. r.base \in Nat /\ r.base \in PageBases /\ r.base % UM_PAGE = 0 /\ r.base <= TOP
  BY UmIs DEF UmRegion, PageBases
<1>2. PICK k \in 1 .. UM_FRAMES : r.size = k * UM_PAGE
  BY DEF UmRegion
<1>3. k \in Nat /\ k <= UM_FRAMES /\ 0 < k /\ UM_FRAMES \in Nat /\ UM_PAGE \in Nat \ {0}
  BY UmIs
<1>4. r.size \in Nat /\ r.size \div UM_PAGE = k
  BY <1>2, <1>3, Multiple
<1>5. r.size <= UM_FRAMES * UM_PAGE
  BY <1>2, <1>3, FewerPages
<1>6. r.size # 0
  <2>1. 0 * UM_PAGE = 0 /\ 0 * UM_PAGE < k * UM_PAGE
    <3>1. 0 * UM_PAGE < k * UM_PAGE
      BY <1>3, FewerPages
    <3>2. 0 * UM_PAGE = 0
      BY UmIs
    <3> QED
      BY <3>1, <3>2
  <2> QED
    BY <1>2, <1>4, <2>1
<1> DEFINE z == UM_FRAMES * UM_PAGE
<1>7. z \in Nat /\ TOP \in Nat /\ WORD \in Nat /\ TOP + 2 * z < WORD /\ r.size <= z
  BY <1>5, UmIs
<1> HIDE DEF z
<1>8. r.base + r.size \in Nat /\ r.base + r.size < WORD
  BY <1>1, <1>4, <1>7
<1>9. region_end(r) = r.base + r.size
  BY <1>8, NoWordWrap DEF region_end
<1>10. (r.base + r.size) % UM_PAGE = 0
  BY <1>1, <1>2, <1>3, PagesOn
<1> QED
  BY <1>1, <1>2, <1>4, <1>5, <1>6, <1>8, <1>9, <1>10

\* The same for every region of a list.
LEMMA UmRegionsAre ==
    ASSUME NEW rs \in Seq(UmRegion)
    PROVE  /\ Len(rs) \in Nat
           /\ \A i \in 1 .. Len(rs) : rs[i] \in UmRegion /\ rs[i].base \in Nat /\ rs[i].size \in Nat \ {0}
<1>1. Len(rs) \in Nat /\ \A i \in 1 .. Len(rs) : rs[i] \in UmRegion
  OBVIOUS
<1> QED
  BY <1>1, UmRegionIs

\* The pages of a region.
LEMMA InsideIs ==
    ASSUME NEW r \in UmRegion
    PROVE  \A a : a \in pages_at(r.base, r.size \div UM_PAGE) <=> a \in PageBases /\ Inside(a, r)
<1> DEFINE n == r.size \div UM_PAGE
<1>1. /\ r.base \in Nat /\ r.base % UM_PAGE = 0 /\ n \in Nat /\ r.base + n * UM_PAGE < WORD
      /\ r.size = n * UM_PAGE
  <2>1. n \in 1 .. UM_FRAMES => n \in Nat
    BY UmIs
  <2> QED
    BY <2>1, UmRegionIs
<1> HIDE DEF n
<1>2. \A a : a \in pages_at(r.base, n) <=> a \in PageBases /\ r.base <= a /\ a < r.base + n * UM_PAGE
  BY <1>1, PagesAtIs
<1> QED
  BY <1>1, <1>2 DEF Inside, n

\* The first n numbers are n.
LEMMA FirstN ==
    ASSUME NEW n \in Nat
    PROVE  IsFiniteSet(1 .. n) /\ Cardinality(1 .. n) = n
<1>1. 1 \in Int /\ n \in Int /\ (IF 1 > n THEN 0 ELSE n - 1 + 1) = n
  OBVIOUS
<1> QED
  BY <1>1, FS_Interval

\* The regions that start below b come first.
UmBelow(rs, b) == {i \in 1 .. Len(rs) : rs[i].base < b}

\* They are as many as the place where insert puts a region at b.
LEMMA UmBelowIs ==
    ASSUME NEW rs \in Seq(UmRegion), UmSorted(rs), NEW b \in Nat
    PROVE  /\ Cardinality(UmBelow(rs, b)) \in 0 .. Len(rs)
           /\ \A i \in 1 .. Len(rs) : rs[i].base < b <=> i <= Cardinality(UmBelow(rs, b))
<1> DEFINE B == UmBelow(rs, b)  n == Cardinality(B)
<1>0. Len(rs) \in Nat /\ \A i \in 1 .. Len(rs) : rs[i].base \in Nat /\ rs[i].size \in Nat
  BY UmRegionsAre
<1>1. IsFiniteSet(B) /\ n \in 0 .. Len(rs)
  <2>1. IsFiniteSet(1 .. Len(rs)) /\ Cardinality(1 .. Len(rs)) = Len(rs)
    BY <1>0, FirstN
  <2> QED
    BY <1>0, <2>1, FS_Subset, FS_CardinalityType DEF UmBelow
<1>3. ASSUME NEW i \in B PROVE i <= n
  <2>1. i \in 1 .. Len(rs) /\ rs[i].base < b
    BY DEF UmBelow
  <2>2. 1 .. i \subseteq B
    <3> SUFFICES ASSUME NEW j \in 1 .. i PROVE j \in 1 .. Len(rs) /\ rs[j].base < b
      BY DEF UmBelow
    <3>1. j \in 1 .. Len(rs) /\ (j < i \/ j = i)
      BY <1>0, <2>1
    <3>2. j < i => rs[j].base + rs[j].size <= rs[i].base
      BY <2>1, <3>1 DEF UmSorted
    <3> QED
      BY <1>0, <2>1, <3>1, <3>2
  <2>3. Cardinality(1 .. i) = i
    BY <1>0, <2>1, FirstN
  <2> QED
    BY <1>1, <2>2, <2>3, FS_Subset
<1>4. B \subseteq 1 .. n
  BY <1>0, <1>1, <1>3 DEF UmBelow
<1>5. IsFiniteSet(1 .. n) /\ Cardinality(1 .. n) = n
  BY <1>0, <1>1, FirstN
<1>6. B = 1 .. n
  BY <1>1, <1>4, <1>5, FS_Subset
<1>7. \A i \in 1 .. Len(rs) : rs[i].base < b <=> i \in B
  BY DEF UmBelow
<1> HIDE DEF B, n
<1>8. \A i \in 1 .. Len(rs) : rs[i].base < b <=> i <= n
  BY <1>0, <1>1, <1>6, <1>7
<1> QED
  BY <1>1, <1>8 DEF B, n

\* What a list becomes when an entry is put in or taken out.
IsPut(p, S, rs, n, r) ==
    /\ p \in Seq(S) /\ Len(p) = Len(rs) + 1
    /\ \A i \in 1 .. n : p[i] = rs[i]
    /\ p[n + 1] = r
    /\ \A i \in n + 2 .. Len(rs) + 1 : p[i] = rs[i - 1]

\* InsertAt does that.
LEMMA PutIn ==
    ASSUME NEW S, NEW rs \in Seq(S), NEW r \in S, NEW n \in 0 .. Len(rs)
    PROVE  IsPut(InsertAt(rs, n + 1, r), S, rs, n, r)
<1> DEFINE L == Len(rs)  a == SubSeq(rs, 1, n)  c == SubSeq(rs, n + 1, L)  b == a \o <<r>>  q == b \o c
<1>0. L \in Nat /\ n \in Nat /\ n <= L
  OBVIOUS
<1>1. InsertAt(rs, n + 1, r) = q
  <2>1. (n + 1) - 1 = n
    BY <1>0
  <2> QED
    BY <2>1 DEF InsertAt
<1>2. a \in Seq(S) /\ Len(a) = n /\ \A i \in 1 .. n : a[i] = rs[i]
  BY <1>0
<1>3. c \in Seq(S) /\ Len(c) = L - n /\ \A i \in 1 .. L - n : c[i] = rs[n + i]
  BY <1>0
<1> HIDE DEF a, c, L
<1>4. /\ b \in Seq(S) /\ Len(b) = n + 1 /\ b[n + 1] = r
      /\ \A i \in 1 .. n : b[i] = a[i]
  BY <1>0, <1>2
<1> HIDE DEF b
<1>5. /\ q \in Seq(S) /\ Len(q) = L + 1
      /\ \A i \in 1 .. n + 1 : q[i] = b[i]
      /\ \A i \in 1 .. L - n : q[n + 1 + i] = c[i]
  <2>1. /\ q \in Seq(S) /\ Len(q) = Len(b) + Len(c)
        /\ \A i \in 1 .. Len(b) : q[i] = b[i]
        /\ \A i \in 1 .. Len(c) : q[Len(b) + i] = c[i]
    <3>1. b \in Seq(S) /\ c \in Seq(S)
      BY <1>3, <1>4
    <3> QED
      BY ONLY <3>1, Joins
  <2> HIDE DEF q
  <2>2. (n + 1) + (L - n) = L + 1
    BY <1>0
  <2> QED
    BY <1>3, <1>4, <2>1, <2>2
<1> HIDE DEF q
<1>6. \A i \in n + 2 .. L + 1 : q[i] = rs[i - 1]
  <2> SUFFICES ASSUME NEW i \in n + 2 .. L + 1 PROVE q[i] = rs[i - 1]
    OBVIOUS
  <2>1. i - n - 1 \in 1 .. L - n /\ n + 1 + (i - n - 1) = i /\ n + (i - n - 1) = i - 1
    BY <1>0
  <2>2. q[n + 1 + (i - n - 1)] = c[i - n - 1] /\ c[i - n - 1] = rs[n + (i - n - 1)]
    BY <1>3, <1>5, <2>1
  <2> QED
    BY <2>1, <2>2
<1>7. \A i \in 1 .. n : q[i] = rs[i]
  BY <1>0, <1>2, <1>4, <1>5
<1>8. q[n + 1] = r
  BY <1>0, <1>4, <1>5
<1> QED
  BY <1>1, <1>5, <1>6, <1>7, <1>8 DEF L, IsPut

\* The other way.
LEMMA TakenOut ==
    ASSUME NEW S, NEW rs \in Seq(S), NEW k \in 1 .. Len(rs)
    PROVE  LET q == RemoveAt(rs, k) IN
           /\ q \in Seq(S) /\ Len(q) = Len(rs) - 1
           /\ \A i \in 1 .. k - 1 : q[i] = rs[i]
           /\ \A i \in k .. Len(rs) - 1 : q[i] = rs[i + 1]
<1> DEFINE L == Len(rs)  a == SubSeq(rs, 1, k - 1)  c == SubSeq(rs, k + 1, L)  q == a \o c
<1>0. L \in Nat /\ k \in Nat /\ k <= L /\ 1 <= k
  OBVIOUS
<1>1. RemoveAt(rs, k) = q
  BY DEF RemoveAt
<1>2. a \in Seq(S) /\ Len(a) = k - 1 /\ \A i \in 1 .. k - 1 : a[i] = rs[i]
  BY <1>0
<1>3. c \in Seq(S) /\ Len(c) = L - k /\ \A i \in 1 .. L - k : c[i] = rs[k + i]
  BY <1>0
<1> HIDE DEF a, c, L
<1>5. /\ q \in Seq(S) /\ Len(q) = L - 1
      /\ \A i \in 1 .. k - 1 : q[i] = a[i]
      /\ \A i \in 1 .. L - k : q[(k - 1) + i] = c[i]
  <2>1. /\ q \in Seq(S) /\ Len(q) = Len(a) + Len(c)
        /\ \A i \in 1 .. Len(a) : q[i] = a[i]
        /\ \A i \in 1 .. Len(c) : q[Len(a) + i] = c[i]
    <3>1. a \in Seq(S) /\ c \in Seq(S)
      BY <1>2, <1>3
    <3> QED
      BY ONLY <3>1, Joins
  <2> HIDE DEF q
  <2>2. (k - 1) + (L - k) = L - 1
    BY <1>0
  <2> QED
    BY <1>2, <1>3, <2>1, <2>2
<1> HIDE DEF q
<1>6. \A i \in k .. L - 1 : q[i] = rs[i + 1]
  <2> SUFFICES ASSUME NEW i \in k .. L - 1 PROVE q[i] = rs[i + 1]
    OBVIOUS
  <2>1. i - k + 1 \in 1 .. L - k /\ (k - 1) + (i - k + 1) = i /\ k + (i - k + 1) = i + 1
    BY <1>0
  <2>2. q[(k - 1) + (i - k + 1)] = c[i - k + 1] /\ c[i - k + 1] = rs[k + (i - k + 1)]
    BY <1>3, <1>5, <2>1
  <2> QED
    BY <2>1, <2>2
<1> QED
  BY <1>1, <1>2, <1>5, <1>6 DEF L

\* insert keeps a list sorted, if the new region overlaps none of it.
LEMMA UmInserts ==
    ASSUME NEW rs \in Seq(UmRegion), UmSorted(rs), NEW r \in UmRegion,
           \A i \in 1 .. Len(rs) : IF rs[i].base < r.base THEN rs[i].base + rs[i].size <= r.base
                                   ELSE r.base + r.size <= rs[i].base
    PROVE  /\ insert(rs, r) \in Seq(UmRegion) /\ UmSorted(insert(rs, r))
           /\ UmListed(insert(rs, r)) = UmListed(rs) \cup {r}
<1> DEFINE q == insert(rs, r)  L == Len(rs)
<1>0. L \in Nat /\ r.base \in Nat /\ r.size \in Nat /\ \A i \in 1 .. L : rs[i].base \in Nat /\ rs[i].size \in Nat
  BY UmRegionsAre, UmRegionIs
<1>1. PICK n \in 0 .. L : /\ n = Cardinality(UmBelow(rs, r.base))
                          /\ \A i \in 1 .. L : rs[i].base < r.base <=> i <= n
  BY <1>0, UmBelowIs
<1>2. q = InsertAt(rs, n + 1, r)
  BY <1>1 DEF insert, UmBelow
<1> HIDE DEF q
<1>3. /\ q \in Seq(UmRegion) /\ Len(q) = L + 1
      /\ \A i \in 1 .. n : q[i] = rs[i]
      /\ q[n + 1] = r
      /\ \A i \in n + 2 .. L + 1 : q[i] = rs[i - 1]
  <2>1. rs \in Seq(UmRegion) /\ r \in UmRegion /\ n \in 0 .. Len(rs)
    BY <1>1
  <2>2. IsPut(q, UmRegion, rs, n, r)
    BY ONLY <1>2, <2>1, PutIn
  <2> QED
    BY <2>2 DEF IsPut
<1>4. \A i \in 1 .. L : IF i <= n THEN rs[i].base + rs[i].size <= r.base ELSE r.base + r.size <= rs[i].base
  BY <1>1
<1>5. UmSorted(q)
  <2> SUFFICES ASSUME NEW i \in 1 .. L + 1, NEW j \in 1 .. L + 1, i < j
               PROVE  q[i].base + q[i].size <= q[j].base
    BY <1>3 DEF UmSorted
  <2>1. CASE i <= n /\ j <= n
    <3>1. q[i] = rs[i] /\ q[j] = rs[j] /\ i \in 1 .. L /\ j \in 1 .. L
      BY <1>0, <1>1, <1>3, <2>1
    <3> QED
      BY <3>1 DEF UmSorted
  <2>2. CASE i <= n /\ j = n + 1
    <3>1. q[i] = rs[i] /\ i \in 1 .. L
      BY <1>0, <1>1, <1>3, <2>2
    <3> QED
      BY <1>3, <1>4, <2>2, <3>1
  <2>3. CASE i <= n /\ j > n + 1
    <3>1. q[i] = rs[i] /\ q[j] = rs[j - 1] /\ i \in 1 .. L /\ j - 1 \in 1 .. L /\ i < j - 1
      BY <1>0, <1>1, <1>3, <2>3
    <3> QED
      BY <3>1 DEF UmSorted
  <2>4. CASE i = n + 1
    <3>1. q[j] = rs[j - 1] /\ j - 1 \in 1 .. L /\ ~(j - 1 <= n)
      BY <1>0, <1>1, <1>3, <2>4
    <3> QED
      BY <1>3, <1>4, <2>4, <3>1
  <2>5. CASE i > n + 1
    <3>1. /\ i \in n + 2 .. L + 1 /\ j \in n + 2 .. L + 1
          /\ j - 1 \in 1 .. L /\ i - 1 \in 1 .. L /\ i - 1 < j - 1
      BY <1>0, <2>5
    <3>2. q[i] = rs[i - 1] /\ q[j] = rs[j - 1]
      BY <1>3, <3>1
    <3> QED
      BY <3>1, <3>2 DEF UmSorted
  <2> QED
    BY <1>0, <1>1, <2>1, <2>2, <2>3, <2>4, <2>5
<1>6. UmListed(q) = UmListed(rs) \cup {r}
  <2>1. ASSUME NEW i \in 1 .. L + 1 PROVE q[i] = r \/ \E j \in 1 .. L : q[i] = rs[j]
    <3>1. CASE i <= n
      <4>1. q[i] = rs[i] /\ i \in 1 .. L
        BY <1>0, <1>1, <1>3, <3>1
      <4> QED
        BY <4>1
    <3>2. CASE i = n + 1
      BY <1>3, <3>2
    <3>3. CASE i > n + 1
      <4>1. q[i] = rs[i - 1] /\ i - 1 \in 1 .. L
        BY <1>0, <1>1, <1>3, <3>3
      <4> QED
        BY <4>1
    <3> QED
      BY <1>0, <1>1, <3>1, <3>2, <3>3
  <2>2. ASSUME NEW j \in 1 .. L PROVE \E i \in 1 .. L + 1 : q[i] = rs[j]
    <3>1. CASE j <= n
      <4>1. j \in 1 .. L + 1 /\ q[j] = rs[j]
        BY <1>0, <1>1, <1>3, <3>1
      <4> QED
        BY <4>1
    <3>2. CASE ~(j <= n)
      <4>1. j + 1 \in n + 2 .. L + 1 /\ (j + 1) - 1 = j /\ j + 1 \in 1 .. L + 1
        BY <1>0, <1>1, <3>2
      <4>2. q[j + 1] = rs[j]
        BY <1>3, <4>1
      <4> QED
        BY <4>1, <4>2
    <3> QED
      BY <3>1, <3>2
  <2>3. n + 1 \in 1 .. L + 1
    BY <1>0, <1>1
  <2>4. UmListed(q) = {q[i] : i \in 1 .. L + 1} /\ UmListed(rs) = {rs[j] : j \in 1 .. L}
    BY <1>3 DEF UmListed
  <2>5. ASSUME NEW y \in UmListed(q) PROVE y \in UmListed(rs) \cup {r}
    <3>1. PICK i \in 1 .. L + 1 : y = q[i]
      BY <2>4
    <3> QED
      BY <2>1, <2>4, <3>1
  <2>6. ASSUME NEW y \in UmListed(rs) PROVE y \in UmListed(q)
    <3>1. PICK j \in 1 .. L : y = rs[j]
      BY <2>4
    <3>2. PICK i \in 1 .. L + 1 : q[i] = rs[j]
      BY <2>2
    <3> QED
      BY <2>4, <3>1, <3>2
  <2>7. r \in UmListed(q)
    BY <1>3, <2>3, <2>4
  <2> QED
    BY <2>5, <2>6, <2>7
<1> QED
  BY <1>3, <1>5, <1>6 DEF q

\* Taking a region out keeps a list sorted.
LEMMA UmRemoves ==
    ASSUME NEW rs \in Seq(UmRegion), UmSorted(rs), NEW k \in 1 .. Len(rs)
    PROVE  /\ RemoveAt(rs, k) \in Seq(UmRegion) /\ UmSorted(RemoveAt(rs, k))
           /\ UmListed(RemoveAt(rs, k)) = UmListed(rs) \ {rs[k]}
<1> DEFINE q == RemoveAt(rs, k)  L == Len(rs)
<1>0. L \in Nat /\ k \in 1 .. L /\ \A i \in 1 .. L : rs[i].base \in Nat /\ rs[i].size \in Nat \ {0}
  BY UmRegionsAre
<1>1. /\ q \in Seq(UmRegion) /\ Len(q) = L - 1
      /\ \A i \in 1 .. k - 1 : q[i] = rs[i]
      /\ \A i \in k .. L - 1 : q[i] = rs[i + 1]
  BY TakenOut
<1> HIDE DEF q
<1>2. \A i \in 1 .. L - 1 : \E j \in 1 .. L : q[i] = rs[j] /\ j = (IF i < k THEN i ELSE i + 1)
  <2> SUFFICES ASSUME NEW i \in 1 .. L - 1
               PROVE  \E j \in 1 .. L : q[i] = rs[j] /\ j = (IF i < k THEN i ELSE i + 1)
    OBVIOUS
  <2>1. CASE i < k
    <3>1. i \in 1 .. k - 1 /\ i \in 1 .. L
      BY <1>0, <2>1
    <3> QED
      BY <1>1, <2>1, <3>1
  <2>2. CASE ~(i < k)
    <3>1. i \in k .. L - 1 /\ i + 1 \in 1 .. L
      BY <1>0, <2>2
    <3> QED
      BY <1>1, <2>2, <3>1
  <2> QED
    BY <2>1, <2>2
<1>3. UmSorted(q)
  <2> SUFFICES ASSUME NEW i \in 1 .. L - 1, NEW j \in 1 .. L - 1, i < j
               PROVE  q[i].base + q[i].size <= q[j].base
    BY <1>1 DEF UmSorted
  <2>1. PICK x \in 1 .. L : q[i] = rs[x] /\ x = (IF i < k THEN i ELSE i + 1)
    BY <1>2
  <2>2. PICK y \in 1 .. L : q[j] = rs[y] /\ y = (IF j < k THEN j ELSE j + 1)
    BY <1>2
  <2>3. x < y
    BY <1>0, <2>1, <2>2
  <2> QED
    BY <2>1, <2>2, <2>3 DEF UmSorted
<1>4. \A i, j \in 1 .. L : rs[i] = rs[j] => i = j
  <2> SUFFICES ASSUME NEW i \in 1 .. L, NEW j \in 1 .. L, i < j PROVE rs[i] # rs[j]
    BY <1>0
  <2>1. rs[i].base + rs[i].size <= rs[j].base
    BY DEF UmSorted
  <2>2. rs[i].base # rs[j].base
    BY <1>0, <2>1
  <2> QED
    BY <2>2
<1>5. ASSUME NEW i \in 1 .. L - 1 PROVE q[i] \in UmListed(rs) \ {rs[k]}
  <2>1. PICK x \in 1 .. L : q[i] = rs[x] /\ x = (IF i < k THEN i ELSE i + 1)
    BY <1>2
  <2>2. x # k
    BY <1>0, <2>1
  <2> QED
    BY <1>0, <1>4, <2>1, <2>2 DEF UmListed
<1>6. ASSUME NEW x \in 1 .. L, rs[x] # rs[k] PROVE \E i \in 1 .. L - 1 : q[i] = rs[x]
  <2>1. CASE x < k
    <3>1. x \in 1 .. k - 1 /\ x \in 1 .. L - 1
      BY <1>0, <2>1
    <3> QED
      BY <1>1, <3>1
  <2>2. CASE k < x
    <3>1. x - 1 \in k .. L - 1 /\ x - 1 \in 1 .. L - 1 /\ (x - 1) + 1 = x
      BY <1>0, <2>2
    <3>2. q[x - 1] = rs[x]
      BY <1>1, <3>1
    <3> QED
      BY <3>1, <3>2
  <2>3. x # k
    BY <1>6
  <2> QED
    BY <1>0, <2>1, <2>2, <2>3
<1>7. UmListed(q) = UmListed(rs) \ {rs[k]}
  <2>1. UmListed(q) = {q[i] : i \in 1 .. L - 1}
    BY <1>1 DEF UmListed
  <2>2. ASSUME NEW y \in UmListed(q) PROVE y \in UmListed(rs) \ {rs[k]}
    <3>1. PICK i \in 1 .. L - 1 : y = q[i]
      BY <2>1
    <3> QED
      BY <1>5, <3>1
  <2>3. ASSUME NEW y \in UmListed(rs) \ {rs[k]} PROVE y \in UmListed(q)
    <3>1. PICK x \in 1 .. L : y = rs[x] /\ rs[x] # rs[k]
      BY DEF UmListed
    <3>2. \E i \in 1 .. L - 1 : q[i] = rs[x]
      BY <1>6, <3>1
    <3> QED
      BY <2>1, <3>1, <3>2
  <2> QED
    BY <2>2, <2>3
<1> QED
  BY <1>1, <1>3, <1>7 DEF q

\* A space as the calls leave it: its regions are sorted and apart, its pages
\* are those of the regions, each with a frame of its own, and these are the
\* frames taken.
SpaceOK(m) ==
    /\ m.regions \in Seq(UmRegion) /\ UmSorted(m.regions)
    /\ m.frame \in [PageBases -> 0 .. UM_FRAMES]
    /\ m.used \subseteq 1 .. UM_FRAMES
    /\ \A a \in PageBases : m.frame[a] # 0 <=> \E r \in UmListed(m.regions) : Inside(a, r)
    /\ m.used = {m.frame[a] : a \in mapped(m)}
    /\ \A a, b \in mapped(m) : m.frame[a] = m.frame[b] => a = b

\* The frames left are those not taken.
LEMMA FreeCount ==
    ASSUME NEW m, m.used \subseteq 1 .. UM_FRAMES
    PROVE  Cardinality(free_frames(m)) = UM_FRAMES - Cardinality(m.used) /\ Cardinality(free_frames(m)) \in 0 .. UM_FRAMES
<1> DEFINE A == 1 .. UM_FRAMES  u == m.used
<1>1. UM_FRAMES \in Nat /\ IsFiniteSet(A) /\ Cardinality(A) = UM_FRAMES
  BY UmIs, FirstN
<1>2. A \cap u = u
  OBVIOUS
<1>3. Cardinality(u) \in Nat
  BY <1>1, FS_Subset, FS_CardinalityType
<1>4. IsFiniteSet(A \ u) /\ Cardinality(A \ u) = Cardinality(A) - Cardinality(A \cap u)
  BY <1>1, FS_Difference
<1>5. Cardinality(A \ u) \in Nat
  BY <1>4, FS_CardinalityType
<1>6. free_frames(m) = A \ u
  BY DEF free_frames
<1> HIDE DEF A, u
<1>7. Cardinality(A \ u) = UM_FRAMES - Cardinality(u)
  BY <1>1, <1>2, <1>4
<1> QED
  BY <1>1, <1>3, <1>5, <1>6, <1>7 DEF u

\* Regions with no page in common do not overlap.
LEMMA UmApart ==
    ASSUME NEW p \in UmRegion, NEW r \in UmRegion,
           \A a \in PageBases : ~(Inside(a, p) /\ Inside(a, r))
    PROVE  IF p.base < r.base THEN p.base + p.size <= r.base ELSE r.base + r.size <= p.base
<1>1. /\ p.base \in Nat /\ p.size \in Nat \ {0} /\ r.base \in Nat /\ r.size \in Nat \ {0}
      /\ p.base \in PageBases /\ r.base \in PageBases
  BY UmRegionIs
<1>2. ~(Inside(p.base, p) /\ Inside(p.base, r)) /\ ~(Inside(r.base, p) /\ Inside(r.base, r))
  BY <1>1
<1> QED
  BY <1>1, <1>2 DEF Inside

\* vmm_space_alloc, as long as there are frames and the pages are free.
LEMMA AllocOK ==
    ASSUME NEW m, SpaceOK(m), NEW v \in Nat, v <= TOP, NEW n \in Nat,
           n <= Cardinality(free_frames(m)), ~overlaps(m, v, n)
    PROVE  LET q == vmm_space_alloc(m, v, n).space IN
           /\ SpaceOK(q)
           /\ \A a \in mapped(m) : q.frame[a] = m.frame[a]
           /\ mapped(q) = mapped(m) \cup pages_at(align_down(v), n)
<1> DEFINE base == align_down(v)
           q == vmm_space_alloc(m, v, n).space
           P == pages_at(base, n)
<1>1. CASE n = 0
  <2>1. q = m
    BY <1>1 DEF vmm_space_alloc
  <2>2. P = {}
    <3>1. 0 .. 0 - 1 = {}
      OBVIOUS
    <3> QED
      BY <1>1, <3>1 DEF pages_at
  <2> QED
    BY <2>1, <2>2
<1>2. CASE n # 0
  <2> DEFINE r == [base |-> base, size |-> n * UM_PAGE]
             rs == m.regions
             fr(a) == nth_free(m, Nth(base, a))
  <2>1. /\ base \in Nat /\ base % UM_PAGE = 0 /\ base <= TOP /\ n \in 1 .. UM_FRAMES
        /\ UM_FRAMES \in Nat /\ UM_PAGE \in Nat /\ TOP \in Nat /\ WORD \in Nat
    <3>1. base \in Nat /\ base <= v /\ base % UM_PAGE = 0
      BY UmDown
    <3>2. Cardinality(free_frames(m)) \in 0 .. UM_FRAMES /\ UM_FRAMES \in Nat
      BY FreeCount, UmIs DEF SpaceOK
    <3> QED
      BY <1>2, <3>1, <3>2, UmIs
  <2>2. n * UM_PAGE \in Nat /\ n * UM_PAGE <= UM_FRAMES * UM_PAGE /\ base + n * UM_PAGE < WORD
    <3>1. n * UM_PAGE \in Nat /\ n * UM_PAGE <= UM_FRAMES * UM_PAGE
      BY <2>1, FewerPages
    <3> DEFINE x == n * UM_PAGE  y == UM_FRAMES * UM_PAGE
    <3>2. x \in Nat /\ y \in Nat /\ x <= y /\ TOP + 2 * y < WORD
      BY <3>1, UmIs
    <3> HIDE DEF x, y
    <3>3. base + x < WORD
      BY <2>1, <3>2
    <3> QED
      BY <3>1, <3>3 DEF x
  <2>3. r \in UmRegion
    <3>1. base \in PageBases
      BY <2>1, UmIs DEF PageBases
    <3> QED
      BY <2>1, <3>1 DEF UmRegion
  <2>4. \A a : a \in P <=> a \in PageBases /\ Inside(a, r)
    <3>1. \A a : a \in P <=> a \in PageBases /\ base <= a /\ a < base + n * UM_PAGE
      BY <2>1, <2>2, PagesAtIs
    <3> QED
      BY <3>1 DEF Inside
  <2>5. q = [regions |-> insert(rs, r),
             frame |-> [a \in PageBases |-> IF a \notin P THEN m.frame[a] ELSE fr(a)],
             used |-> m.used \cup {nth_free(m, k) : k \in 0 .. n - 1}]
    BY <1>2 DEF vmm_space_alloc, Nth
  <2>6. P \cap mapped(m) = {}
    BY DEF overlaps
  <2> HIDE DEF P, base
  <2>7. rs \in Seq(UmRegion) /\ UmSorted(rs)
    BY DEF SpaceOK
  <2>8. \A i \in 1 .. Len(rs) : IF rs[i].base < r.base THEN rs[i].base + rs[i].size <= r.base
                                ELSE r.base + r.size <= rs[i].base
    <3> SUFFICES ASSUME NEW i \in 1 .. Len(rs)
                 PROVE  IF rs[i].base < r.base THEN rs[i].base + rs[i].size <= r.base
                        ELSE r.base + r.size <= rs[i].base
      OBVIOUS
    <3>1. rs[i] \in UmRegion /\ rs[i] \in UmListed(rs)
      BY <2>7 DEF UmListed
    <3>2. \A a \in PageBases : ~(Inside(a, rs[i]) /\ Inside(a, r))
      BY <2>4, <2>6, <3>1 DEF SpaceOK, mapped
    <3> HIDE DEF r, rs
    <3> QED
      BY <2>3, <3>1, <3>2, UmApart
  <2>9. /\ insert(rs, r) \in Seq(UmRegion) /\ UmSorted(insert(rs, r))
        /\ UmListed(insert(rs, r)) = UmListed(rs) \cup {r}
    <3> HIDE DEF r, rs
    <3> QED
      BY <2>3, <2>7, <2>8, UmInserts
  <2>10. \A a \in P : Nth(base, a) \in 0 .. n - 1 /\ a = base + Nth(base, a) * UM_PAGE
    BY <2>1, <2>2, PagesAtIs DEF P
  <2>11. \A i \in 0 .. n - 1 : base + i * UM_PAGE \in P /\ Nth(base, base + i * UM_PAGE) = i
    BY <2>1, <2>2, PagesAtIs DEF P
  <2>12. \A k \in 0 .. n - 1 : nth_free(m, k) \in free_frames(m) /\ Rank(free_frames(m), nth_free(m, k)) = k
    <3> SUFFICES ASSUME NEW k \in 0 .. n - 1
                 PROVE  nth_free(m, k) \in free_frames(m) /\ Rank(free_frames(m), nth_free(m, k)) = k
      OBVIOUS
    <3>1. Cardinality(free_frames(m)) \in Nat
      BY FreeCount, UmIs DEF SpaceOK
    <3>2. k \in 0 .. Cardinality(free_frames(m)) - 1
      BY <3>1
    <3> QED
      BY <3>2, NthFree
  <2>13. \A k \in 0 .. n - 1 : nth_free(m, k) \in 1 .. UM_FRAMES /\ nth_free(m, k) \notin m.used
    BY <2>12 DEF free_frames
  <2>14. \A a \in P : fr(a) \in 1 .. UM_FRAMES /\ fr(a) \notin m.used /\ fr(a) # 0
    BY <2>10, <2>13
  <2>15. \A a, b \in P : fr(a) = fr(b) => a = b
    <3> SUFFICES ASSUME NEW a \in P, NEW b \in P, fr(a) = fr(b) PROVE a = b
      OBVIOUS
    <3>1. Nth(base, a) = Nth(base, b)
      BY <2>10, <2>12
    <3> QED
      BY <2>10, <3>1
  <2>16. {nth_free(m, k) : k \in 0 .. n - 1} = {fr(a) : a \in P}
    <3>1. ASSUME NEW k \in 0 .. n - 1 PROVE nth_free(m, k) \in {fr(a) : a \in P}
      BY <2>11
    <3> QED
      BY <2>10, <3>1
  <2> HIDE DEF fr, rs, r
  <2>17. /\ q.regions = insert(rs, r)
         /\ q.frame = [a \in PageBases |-> IF a \notin P THEN m.frame[a] ELSE fr(a)]
         /\ q.used = m.used \cup {fr(a) : a \in P}
    <3> DEFINE k == {nth_free(m, i) : i \in 0 .. n - 1}
    <3>1. q = [regions |-> insert(rs, r),
               frame |-> [a \in PageBases |-> IF a \notin P THEN m.frame[a] ELSE fr(a)],
               used |-> m.used \cup k]
      BY <2>5
    <3>2. k = {fr(a) : a \in P}
      BY <2>16
    <3> HIDE DEF k, q
    <3>3. /\ q.regions = insert(rs, r)
          /\ q.frame = [a \in PageBases |-> IF a \notin P THEN m.frame[a] ELSE fr(a)]
          /\ q.used = m.used \cup k
      BY ONLY <3>1
    <3> QED
      BY <3>2, <3>3
  <2> HIDE DEF q
  <2>18. P \subseteq PageBases
    BY <2>4
  <2>19. /\ \A a \in P : q.frame[a] = fr(a)
         /\ \A a \in PageBases \ P : q.frame[a] = m.frame[a]
    BY <2>17, <2>18
  <2>20. mapped(q) = mapped(m) \cup P
    BY <2>14, <2>18, <2>19 DEF mapped
  <2>21. \A a \in mapped(m) : q.frame[a] = m.frame[a]
    BY <2>6, <2>19 DEF mapped
  <2>22. q.frame \in [PageBases -> 0 .. UM_FRAMES]
    <3>1. m.frame \in [PageBases -> 0 .. UM_FRAMES]
      BY DEF SpaceOK
    <3>2. \A a \in PageBases : m.frame[a] \in 0 .. UM_FRAMES
      BY <3>1
    <3>3. \A a \in P : fr(a) \in 0 .. UM_FRAMES
      BY <2>1, <2>14
    <3> QED
      BY <2>17, <3>2, <3>3
  <2>23. q.used \subseteq 1 .. UM_FRAMES
    BY <2>14, <2>17 DEF SpaceOK
  <2>24. \A a \in PageBases : q.frame[a] # 0 <=> \E s \in UmListed(q.regions) : Inside(a, s)
    <3> SUFFICES ASSUME NEW a \in PageBases
                 PROVE  q.frame[a] # 0 <=> \E s \in UmListed(q.regions) : Inside(a, s)
      OBVIOUS
    <3>1. UmListed(q.regions) = UmListed(rs) \cup {r}
      BY <2>9, <2>17
    <3>2. m.frame[a] # 0 <=> \E s \in UmListed(rs) : Inside(a, s)
      BY DEF SpaceOK, rs
    <3>3. a \in P <=> Inside(a, r)
      BY <2>4
    <3> QED
      BY <2>14, <2>19, <3>1, <3>2, <3>3
  <2>25. q.used = {q.frame[a] : a \in mapped(q)}
    <3>1. {q.frame[a] : a \in mapped(q)} = {q.frame[a] : a \in mapped(m)} \cup {q.frame[a] : a \in P}
      BY <2>20
    <3>2. {q.frame[a] : a \in mapped(m)} = m.used
      <4>1. m.used = {m.frame[a] : a \in mapped(m)}
        BY DEF SpaceOK
      <4> QED
        BY <2>21, <4>1
    <3>3. {q.frame[a] : a \in P} = {fr(a) : a \in P}
      BY <2>19
    <3> QED
      BY <2>17, <3>1, <3>2, <3>3
  <2>26. \A a, b \in mapped(q) : q.frame[a] = q.frame[b] => a = b
    <3> SUFFICES ASSUME NEW a \in mapped(q), NEW b \in mapped(q), q.frame[a] = q.frame[b] PROVE a = b
      OBVIOUS
    <3>1. CASE a \in P /\ b \in P
      BY <2>15, <2>19, <3>1
    <3>2. CASE a \in mapped(m) /\ b \in mapped(m)
      BY <2>21, <3>2 DEF SpaceOK
    <3>3. \A x \in mapped(m), y \in P : q.frame[x] # q.frame[y]
      <4> SUFFICES ASSUME NEW x \in mapped(m), NEW y \in P PROVE q.frame[x] # q.frame[y]
        OBVIOUS
      <4>1. q.frame[x] \in m.used
        BY <2>21 DEF SpaceOK
      <4> QED
        BY <2>14, <2>19, <4>1
    <3> QED
      BY <2>20, <3>1, <3>2, <3>3
  <2>27. SpaceOK(q)
    BY <2>9, <2>17, <2>22, <2>23, <2>24, <2>25, <2>26 DEF SpaceOK
  <2> QED
    BY <2>20, <2>21, <2>27 DEF q, P, base
<1> QED
  BY <1>1, <1>2

\* The first region that begins at v, 0 if none does.
LEMMA StartIs ==
    ASSUME NEW rs, Len(rs) \in Nat, NEW v
    PROVE  LET i == SelectInSeq(rs, LAMBDA r : r.base = v) IN
           i = 0 \/ (i \in 1 .. Len(rs) /\ rs[i].base = v)
<1> DEFINE I == {i \in 1 .. Len(rs) : rs[i].base = v}
<1>1. SelectInSeq(rs, LAMBDA r : r.base = v) = IF I # {} THEN Min(I) ELSE 0
  BY DEF SelectInSeq
<1>2. I \in SUBSET Nat
  OBVIOUS
<1>3. I # {} => \E x \in I : \A y \in I : x <= y
  <2> HIDE DEF I
  <2> QED
    BY <1>2, LeastNumber
<1>4. I # {} => Min(I) \in I
  <2> HIDE DEF I
  <2> QED
    BY <1>3 DEF Min
<1> QED
  BY <1>1, <1>4

\* vmm_space_free.
LEMMA FreeOK ==
    ASSUME NEW m, SpaceOK(m), NEW v
    PROVE  SpaceOK(vmm_space_free(m, v))
<1> DEFINE i == SelectInSeq(m.regions, LAMBDA r : r.base = v)
           rs == m.regions
           r == rs[i]
           P == pages_at(v, r.size \div UM_PAGE)
           q == vmm_space_free(m, v)
<1>1. CASE v = 0 \/ i = 0
  <2>1. q = m
    BY <1>1 DEF vmm_space_free
  <2> QED
    BY <2>1
<1>2. CASE ~(v = 0 \/ i = 0)
  <2>1. q = [regions |-> RemoveAt(rs, i),
             used    |-> m.used \ {m.frame[a] : a \in P},
             frame   |-> [a \in PageBases |-> IF a \in P THEN 0 ELSE m.frame[a]]]
    BY <1>2 DEF vmm_space_free
  <2>2. rs \in Seq(UmRegion) /\ UmSorted(rs) /\ Len(rs) \in Nat
    BY DEF SpaceOK
  <2>3. i \in 1 .. Len(rs) /\ rs[i].base = v
    BY <1>2, <2>2, StartIs
  <2> HIDE DEF i
  <2>4. r \in UmRegion /\ r.base = v /\ r \in UmListed(rs)
    BY <2>2, <2>3 DEF UmListed
  <2>5. \A a : a \in P <=> a \in PageBases /\ Inside(a, r)
    <3> HIDE DEF r
    <3> QED
      BY <2>4, InsideIs
  <2>6. /\ RemoveAt(rs, i) \in Seq(UmRegion) /\ UmSorted(RemoveAt(rs, i))
        /\ UmListed(RemoveAt(rs, i)) = UmListed(rs) \ {r}
    <3> HIDE DEF rs
    <3> QED
      BY <2>2, <2>3, UmRemoves
  <2>7. \A s \in UmListed(rs) \ {r} : \A a \in PageBases : ~(Inside(a, s) /\ Inside(a, r))
    <3> SUFFICES ASSUME NEW s \in UmListed(rs) \ {r}, NEW a \in PageBases, Inside(a, s), Inside(a, r) PROVE FALSE
      OBVIOUS
    <3>1. PICK j \in 1 .. Len(rs) : s = rs[j] /\ j # i
      BY DEF UmListed
    <3>2. /\ s.base \in Nat /\ s.size \in Nat /\ r.base \in Nat /\ r.size \in Nat /\ a \in Nat
      <4>1. s \in UmRegion
        BY <2>2, <3>1
      <4>2. a \in Nat
        BY UmIs DEF PageBases
      <4> HIDE DEF r
      <4> QED
        BY <2>4, <4>1, <4>2, UmRegionIs
    <3>3. (j < i => s.base + s.size <= r.base) /\ (i < j => r.base + r.size <= s.base)
      BY <2>2, <2>3, <3>1 DEF UmSorted
    <3>4. j < i \/ i < j
      BY <2>2, <2>3, <3>1
    <3> QED
      BY <3>2, <3>3, <3>4 DEF Inside
  <2> HIDE DEF P, r, rs
  <2>8. /\ q.regions = RemoveAt(rs, i) /\ q.used = m.used \ {m.frame[a] : a \in P}
        /\ q.frame = [a \in PageBases |-> IF a \in P THEN 0 ELSE m.frame[a]]
    BY <2>1
  <2> HIDE DEF q
  <2>9. P \subseteq PageBases /\ P \subseteq mapped(m)
    <3>1. \A a \in PageBases : m.frame[a] # 0 <=> \E s \in UmListed(rs) : Inside(a, s)
      BY DEF SpaceOK, rs
    <3> QED
      BY <2>4, <2>5, <3>1 DEF mapped
  <2>10. \A a \in PageBases : q.frame[a] = IF a \in P THEN 0 ELSE m.frame[a]
    BY <2>8
  <2>11. mapped(q) = mapped(m) \ P
    BY <2>10 DEF mapped
  <2>12. q.frame \in [PageBases -> 0 .. UM_FRAMES]
    <3>1. m.frame \in [PageBases -> 0 .. UM_FRAMES] /\ UM_FRAMES \in Nat
      BY UmIs DEF SpaceOK
    <3>2. \A a \in PageBases : m.frame[a] \in 0 .. UM_FRAMES /\ 0 \in 0 .. UM_FRAMES
      BY <3>1
    <3> QED
      BY <2>8, <3>2
  <2>13. q.used \subseteq 1 .. UM_FRAMES
    BY <2>8 DEF SpaceOK
  <2>14. \A a \in PageBases : q.frame[a] # 0 <=> \E s \in UmListed(q.regions) : Inside(a, s)
    <3> SUFFICES ASSUME NEW a \in PageBases
                 PROVE  q.frame[a] # 0 <=> \E s \in UmListed(q.regions) : Inside(a, s)
      OBVIOUS
    <3>1. UmListed(q.regions) = UmListed(rs) \ {r}
      BY <2>6, <2>8
    <3>2. m.frame[a] # 0 <=> \E s \in UmListed(rs) : Inside(a, s)
      BY DEF SpaceOK, rs
    <3>3. CASE a \in P
      BY <2>5, <2>7, <2>10, <3>1, <3>3
    <3>4. CASE a \notin P
      BY <2>5, <2>10, <3>1, <3>2, <3>4
    <3> QED
      BY <3>3, <3>4
  <2>15. q.used = {q.frame[a] : a \in mapped(q)}
    <3>1. \A a \in mapped(q) : q.frame[a] = m.frame[a]
      BY <2>10, <2>11 DEF mapped
    <3>2. m.used = {m.frame[a] : a \in mapped(m)}
      BY DEF SpaceOK
    <3>3. ASSUME NEW a \in mapped(q) PROVE q.frame[a] \in q.used
      <4>1. m.frame[a] \in m.used /\ a \notin P /\ a \in mapped(m)
        BY <2>11, <3>2
      <4>2. \A b \in P : m.frame[b] # m.frame[a]
        BY <2>9, <4>1 DEF SpaceOK
      <4> QED
        BY <2>8, <3>1, <4>1, <4>2
    <3>4. ASSUME NEW f \in q.used PROVE f \in {q.frame[a] : a \in mapped(q)}
      <4>1. PICK a \in mapped(m) : f = m.frame[a]
        BY <2>8, <3>2
      <4>2. a \notin P
        BY <2>8, <4>1
      <4> QED
        BY <2>11, <3>1, <4>1, <4>2
    <3> QED
      BY <3>3, <3>4
  <2>16. \A a, b \in mapped(q) : q.frame[a] = q.frame[b] => a = b
    BY <2>10, <2>11 DEF SpaceOK, mapped
  <2>17. SpaceOK(q)
    BY <2>6, <2>8, <2>12, <2>13, <2>14, <2>15, <2>16 DEF SpaceOK
  <2> QED
    BY <2>17 DEF q
<1> QED
  BY <1>1, <1>2

-----------------------------------------------------------------------------
\* What the search for a gap knows after i regions: where it stands, and that
\* the regions looked at end below, or one lies above the gap it found.
Gaps == [at : {a \in Nat : a % UM_PAGE = 0 /\ MMAP_START <= a /\ a <= TOP + UM_FRAMES * UM_PAGE}, found : BOOLEAN]
Searched(rs, size, g, i) ==
    /\ g \in Gaps
    /\ ~g.found => \A j \in 1 .. i : rs[j].base + rs[j].size <= g.at
    /\ g.found => \E k \in 1 .. i : /\ rs[k].base >= g.at + size
                                    /\ \A j \in 1 .. k - 1 : rs[j].base + rs[j].size <= g.at

\* One region further.
LEMMA GapTurn ==
    ASSUME NEW rs \in Seq(UmRegion), UmSorted(rs), NEW n \in 0 .. UM_FRAMES, NEW i \in 0 .. Len(rs) - 1,
           NEW g, Searched(rs, n * UM_PAGE, g, i)
    PROVE  Searched(rs, n * UM_PAGE, gap_step(g, rs[i + 1], n * UM_PAGE), i + 1)
<1> DEFINE size == n * UM_PAGE
           r == rs[i + 1]
           e == r.base + r.size
           z == UM_FRAMES * UM_PAGE
           h == gap_step(g, r, size)
<1>1. /\ z \in Nat /\ TOP \in Nat /\ WORD \in Nat /\ TOP + 2 * z < WORD /\ size \in Nat /\ size <= z
      /\ MMAP_START \in Nat
  <2>1. UM_FRAMES \in Nat /\ n \in Nat /\ n <= UM_FRAMES
    BY UmIs
  <2> QED
    BY <2>1, UmIs, FewerPages
<1>2. Len(rs) \in Nat /\ i \in Nat /\ i + 1 \in 1 .. Len(rs) /\ r \in UmRegion
  BY UmRegionsAre
<1>3. r.base \in Nat /\ r.size \in Nat /\ region_end(r) = e /\ e \in Nat /\ e % UM_PAGE = 0 /\ e <= TOP + z
  <2>1. /\ r.base \in Nat /\ r.base <= TOP /\ r.size \in Nat /\ r.size <= z
        /\ region_end(r) = e /\ e % UM_PAGE = 0
    <3> HIDE DEF r
    <3> QED
      BY <1>2, UmRegionIs
  <2> HIDE DEF r, z
  <2> QED
    BY <1>1, <2>1
<1>4. g.at \in Nat /\ g.at % UM_PAGE = 0 /\ MMAP_START <= g.at /\ g.at <= TOP + z /\ g.found \in BOOLEAN
  BY DEF Searched, Gaps
<1>5. g = [at |-> g.at, found |-> g.found]
  BY DEF Searched, Gaps
<1>6. (g.at + size) % WORD = g.at + size
  <2>1. g.at + size \in Nat /\ g.at + size < WORD
    <3> HIDE DEF z, size
    <3> QED
      BY <1>1, <1>4
  <2> HIDE DEF size
  <2> QED
    BY <2>1, NoWordWrap
<1> HIDE DEF z, size, r, e
<1>7. CASE g.found
  <2>1. h = g
    BY <1>7 DEF gap_step
  <2>2. PICK k \in 1 .. i : rs[k].base >= g.at + size /\ \A j \in 1 .. k - 1 : rs[j].base + rs[j].size <= g.at
    BY <1>7 DEF Searched, size
  <2>3. k \in 1 .. i + 1
    BY <1>2
  <2> QED
    BY <1>7, <2>1, <2>2, <2>3 DEF Searched, size, r
<1>8. CASE ~g.found /\ e <= g.at
  <2>1. h = g
    BY <1>3, <1>8 DEF gap_step
  <2>2. \A j \in 1 .. i : rs[j].base + rs[j].size <= g.at
    BY <1>8 DEF Searched
  <2>3. \A j \in 1 .. i + 1 : j \in 1 .. i \/ j = i + 1
    BY <1>2
  <2>4. \A j \in 1 .. i + 1 : rs[j].base + rs[j].size <= g.at
    BY <1>8, <2>2, <2>3 DEF e, r
  <2> QED
    BY <1>8, <2>1, <2>4 DEF Searched, size, r
<1>9. CASE ~g.found /\ ~(e <= g.at) /\ r.base >= g.at + size
  <2>1. h = [at |-> g.at, found |-> TRUE]
    BY <1>3, <1>6, <1>9 DEF gap_step
  <2>2. h.at = g.at /\ h.found /\ h \in Gaps
    BY <1>4, <2>1 DEF Gaps, z
  <2>3. \A j \in 1 .. (i + 1) - 1 : rs[j].base + rs[j].size <= g.at
    <3>1. (i + 1) - 1 = i
      BY <1>2
    <3> QED
      BY <1>9, <3>1 DEF Searched
  <2>4. i + 1 \in 1 .. i + 1
    BY <1>2
  <2>5. rs[i + 1].base >= h.at + size /\ \A j \in 1 .. (i + 1) - 1 : rs[j].base + rs[j].size <= h.at
    BY <1>9, <2>2, <2>3 DEF r
  <2> HIDE DEF h
  <2>6. \E k \in 1 .. i + 1 : rs[k].base >= h.at + size /\ \A j \in 1 .. k - 1 : rs[j].base + rs[j].size <= h.at
    BY <2>4, <2>5
  <2>7. Searched(rs, size, h, i + 1)
    BY <2>2, <2>6 DEF Searched
  <2> QED
    BY <2>7 DEF h, size, r
<1>10. CASE ~g.found /\ ~(e <= g.at) /\ ~(r.base >= g.at + size)
  <2>1. h = [at |-> e, found |-> FALSE]
    BY <1>3, <1>6, <1>10 DEF gap_step
  <2>2. h.at = e /\ ~h.found /\ h \in Gaps
    <3>1. MMAP_START <= e
      BY <1>1, <1>3, <1>4, <1>10
    <3> QED
      BY <1>3, <2>1, <3>1 DEF Gaps, z
  <2>3. ASSUME NEW j \in 1 .. i + 1 PROVE rs[j].base + rs[j].size <= e
    <3>1. CASE j = i + 1
      BY <1>3, <3>1 DEF e, r
    <3>2. CASE j # i + 1
      <4>1. j \in 1 .. i /\ j \in 1 .. Len(rs)
        BY <1>2, <3>2
      <4>2. rs[j].base + rs[j].size <= g.at /\ rs[j].base \in Nat /\ rs[j].size \in Nat
        BY <1>10, <4>1, UmRegionsAre DEF Searched
      <4> QED
        BY <1>3, <1>4, <1>10, <4>2
    <3> QED
      BY <3>1, <3>2
  <2> HIDE DEF h
  <2>4. Searched(rs, size, h, i + 1)
    BY <2>2, <2>3 DEF Searched
  <2> QED
    BY <2>4 DEF h, size, r
<1> QED
  BY <1>7, <1>8, <1>9, <1>10

\* The search over all regions.
LEMMA GapSearched ==
    ASSUME NEW m, m.regions \in Seq(UmRegion), UmSorted(m.regions), NEW c \in 0 .. UM_FRAMES
    PROVE  \E g : /\ Searched(m.regions, c * UM_PAGE, g, Len(m.regions))
                  /\ find_free_vaddr(m, c * UM_PAGE) = IF (g.at + c * UM_PAGE) % WORD > TOP THEN 0 ELSE g.at
<1> DEFINE rs == m.regions
           n == Len(rs)
           size == c * UM_PAGE
           s0 == [at |-> MMAP_START, found |-> FALSE]
           Trace(f, l) == /\ f[0] = s0
                          /\ \A k \in 1 .. l : f[k] = gap_step(f[k - 1], rs[k], size)
           Is(f) == f = [k \in 0 .. n |-> IF k = 0 THEN s0 ELSE gap_step(f[k - 1], rs[k], size)]
           g == CHOOSE f : Is(f)
<1>1. n \in Nat
  OBVIOUS
<1>2. Searched(rs, size, s0, 0)
  <2>1. MMAP_START \in Nat /\ MMAP_START % UM_PAGE = 0 /\ MMAP_START <= TOP + UM_FRAMES * UM_PAGE
    <3>1. MMAP_START \in Nat /\ MMAP_START % UM_PAGE = 0 /\ MMAP_START < TOP
      BY UserMemAssumption
    <3> DEFINE z == UM_FRAMES * UM_PAGE
    <3>2. z \in Nat /\ TOP \in Nat
      BY UmIs
    <3> HIDE DEF z
    <3>3. MMAP_START <= TOP + z
      BY <3>1, <3>2
    <3> QED
      BY <3>1, <3>3 DEF z
  <2>2. s0 \in Gaps /\ ~s0.found
    BY <2>1 DEF Gaps
  <2>3. 1 .. 0 = {}
    OBVIOUS
  <2> QED
    BY <2>2, <2>3 DEF Searched
<1>3. find_free_vaddr(m, size) = IF (g[n].at + size) % WORD > TOP THEN 0 ELSE g[n].at
  BY DEF find_free_vaddr
<1> HIDE DEF n, s0, rs, size
<1>4. \A l \in 0 .. n : \E f : Trace(f, l)
  <2> DEFINE B == {l \in 0 .. n : ~ \E f : Trace(f, l)}
  <2> SUFFICES ASSUME B # {} PROVE FALSE
    OBVIOUS
  <2>1. B \in SUBSET Nat
    OBVIOUS
  <2>2. PICK l \in B : \A k \in B : l <= k
    BY <2>1, LeastNumber
  <2>3. l # 0
    <3> SUFFICES Trace([k \in 0 .. 0 |-> s0], 0)
      OBVIOUS
    <3> QED
      OBVIOUS
  <2> DEFINE h == l - 1
  <2>4. h \in 0 .. n /\ h \notin B /\ h + 1 = l /\ l \in 0 .. n
    <3>1. l \in 0 .. n
      OBVIOUS
    <3>2. h \in 0 .. n /\ h + 1 = l /\ ~ (l <= h)
      BY <1>1, <2>3, <3>1
    <3> HIDE DEF h, B
    <3> QED
      BY <2>2, <3>1, <3>2
  <2>5. PICK f : Trace(f, h)
    BY <2>4
  <2> DEFINE w == [k \in 0 .. l |-> IF k = l THEN gap_step(f[h], rs[l], size) ELSE f[k]]
  <2> HIDE DEF h, B
  <2>6. \A k \in 0 .. h : w[k] = f[k]
    BY <2>4
  <2>7. w[l] = gap_step(f[h], rs[l], size)
    BY <2>4
  <2> HIDE DEF w
  <2>8. w[0] = s0
    BY <2>4, <2>5, <2>6
  <2>9. ASSUME NEW k \in 1 .. l PROVE w[k] = gap_step(w[k - 1], rs[k], size)
    <3>1. CASE k = l
      <4>1. k - 1 = h /\ h \in 0 .. h
        BY <2>4, <3>1
      <4> QED
        BY <2>6, <2>7, <3>1, <4>1
    <3>2. CASE k # l
      <4>1. k \in 1 .. h /\ k \in 0 .. h /\ k - 1 \in 0 .. h
        BY <2>4, <3>2
      <4> QED
        BY <2>5, <2>6, <4>1
    <3> QED
      BY <3>1, <3>2
  <2>10. Trace(w, l)
    BY <2>8, <2>9
  <2> QED
    BY <2>2, <2>10 DEF B
<1>5. \E f : Is(f)
  <2>1. PICK f : Trace(f, n)
    <3>1. n \in 0 .. n
      BY <1>1
    <3> HIDE DEF Trace
    <3> QED
      BY <1>4, <3>1
  <2> DEFINE e == [k \in 0 .. n |-> f[k]]
             d == [k \in 0 .. n |-> IF k = 0 THEN s0 ELSE gap_step(e[k - 1], rs[k], size)]
  <2>2. \A k \in 0 .. n : k = 0 \/ (k \in 1 .. n /\ k - 1 \in 0 .. n)
    BY <1>1
  <2>3. ASSUME NEW k \in 0 .. n PROVE e[k] = d[k]
    <3>1. CASE k = 0
      BY <2>1, <3>1
    <3>2. CASE k # 0
      <4>1. k \in 1 .. n /\ k - 1 \in 0 .. n
        BY <2>2, <3>2
      <4>2. e[k - 1] = f[k - 1] /\ e[k] = f[k]
        BY <4>1
      <4>3. d[k] = gap_step(e[k - 1], rs[k], size)
        BY <3>2
      <4> QED
        BY <2>1, <4>1, <4>2, <4>3
    <3> QED
      BY <3>1, <3>2
  <2>4. e = d
    BY <2>3
  <2>5. Is(e)
    BY <2>4
  <2> HIDE DEF Is
  <2> QED
    BY <2>5
<1>6. Is(g)
  <2> HIDE DEF Is
  <2> QED
    BY <1>5 DEF g
<1> HIDE DEF g
<1>7. \A k \in 0 .. n : Searched(rs, size, g[k], k)
  <2> DEFINE B == {k \in 0 .. n : ~ Searched(rs, size, g[k], k)}
  <2> SUFFICES ASSUME B # {} PROVE FALSE
    OBVIOUS
  <2>1. B \in SUBSET Nat
    OBVIOUS
  <2>2. PICK k \in B : \A l \in B : k <= l
    BY <2>1, LeastNumber
  <2>3. g[0] = s0
    BY <1>1, <1>6
  <2>4. k # 0
    BY <1>2, <2>3
  <2> DEFINE h == k - 1
  <2>5. h \in 0 .. n /\ h \in 0 .. n - 1 /\ h \notin B /\ h + 1 = k /\ k \in 0 .. n
    <3>1. k \in 0 .. n
      OBVIOUS
    <3>2. h \in 0 .. n /\ h \in 0 .. n - 1 /\ h + 1 = k /\ ~ (k <= h)
      BY <1>1, <2>4, <3>1
    <3> HIDE DEF h, B
    <3> QED
      BY <2>2, <3>1, <3>2
  <2>6. Searched(rs, size, g[h], h)
    BY <2>5
  <2>7. g[k] = gap_step(g[h], rs[k], size)
    BY <1>6, <2>4, <2>5
  <2> HIDE DEF h
  <2>8. Searched(rs, size, gap_step(g[h], rs[h + 1], size), h + 1)
    BY <2>5, <2>6, GapTurn DEF rs, n, size
  <2> QED
    BY <2>2, <2>5, <2>7, <2>8
<1>8. n \in 0 .. n
  BY <1>1
<1>9. Searched(rs, size, g[n], n)
  BY <1>7, <1>8
<1> QED
  BY <1>3, <1>9 DEF rs, n, size

\* A range of pages that no region reaches into.
Gap(m, at, n) ==
    /\ at \in Nat /\ at % UM_PAGE = 0 /\ LOW <= at /\ at + n * UM_PAGE <= TOP
    /\ \A i \in 1 .. Len(m.regions) :
          \/ m.regions[i].base + m.regions[i].size <= at
          \/ m.regions[i].base >= at + n * UM_PAGE

\* find_free_vaddr finds a gap, if it finds anything.
LEMMA GapFound ==
    ASSUME NEW m, SpaceOK(m), NEW n \in 0 .. UM_FRAMES, find_free_vaddr(m, n * UM_PAGE) # 0
    PROVE  Gap(m, find_free_vaddr(m, n * UM_PAGE), n)
<1> DEFINE rs == m.regions
           size == n * UM_PAGE
           z == UM_FRAMES * UM_PAGE
<1>0. rs \in Seq(UmRegion) /\ UmSorted(rs)
  BY DEF SpaceOK
<1>1. PICK g : /\ Searched(rs, size, g, Len(rs))
               /\ find_free_vaddr(m, size) = IF (g.at + size) % WORD > TOP THEN 0 ELSE g.at
  BY <1>0, GapSearched
<1>2. /\ z \in Nat /\ TOP \in Nat /\ WORD \in Nat /\ TOP + 2 * z < WORD /\ size \in Nat /\ size <= z
      /\ MMAP_START \in Nat /\ LOW \in Nat /\ LOW <= MMAP_START
  <2>1. UM_FRAMES \in Nat /\ n \in Nat /\ n <= UM_FRAMES
    BY UmIs
  <2>2. LOW \in Nat /\ BRK_START \in Nat /\ MMAP_START \in Nat /\ LOW <= BRK_START /\ BRK_START <= MMAP_START
    BY UserMemAssumption
  <2>3. LOW <= MMAP_START
    BY <2>2
  <2> QED
    BY <2>1, <2>2, <2>3, UmIs, FewerPages
<1>3. g.at \in Nat /\ g.at % UM_PAGE = 0 /\ MMAP_START <= g.at /\ g.at <= TOP + z /\ g.found \in BOOLEAN
  BY <1>1 DEF Searched, Gaps
<1>4. Len(rs) \in Nat /\ \A i \in 1 .. Len(rs) : rs[i].base \in Nat /\ rs[i].size \in Nat
  BY <1>0, UmRegionsAre
<1>5. ASSUME NEW i \in 1 .. Len(rs) PROVE rs[i].base + rs[i].size <= g.at \/ rs[i].base >= g.at + size
  <2>1. CASE ~g.found
    BY <1>1, <2>1 DEF Searched
  <2>2. CASE g.found
    <3>1. PICK k \in 1 .. Len(rs) : /\ rs[k].base >= g.at + size
                                    /\ \A j \in 1 .. k - 1 : rs[j].base + rs[j].size <= g.at
      BY <1>1, <2>2 DEF Searched
    <3>2. CASE i < k
      <4>1. i \in 1 .. k - 1
        BY <1>4, <3>2
      <4> QED
        BY <3>1, <4>1
    <3>3. CASE i = k
      BY <3>1, <3>3
    <3>4. CASE k < i
      <4>1. rs[k].base + rs[k].size <= rs[i].base
        BY <1>0, <3>4 DEF UmSorted
      <4> DEFINE x == rs[k].base  y == rs[k].size  w == rs[i].base
      <4>2. x \in Nat /\ y \in Nat /\ w \in Nat /\ x >= g.at + size /\ x + y <= w
        BY <1>4, <3>1, <4>1
      <4> HIDE DEF size, x, y, w
      <4>3. w >= g.at + size
        BY <1>2, <1>3, <4>2
      <4> QED
        BY <4>3 DEF w
    <3> QED
      BY <1>4, <3>2, <3>3, <3>4
  <2> QED
    BY <1>3, <2>1, <2>2
<1> HIDE DEF size, z, rs
<1>6. (g.at + size) % WORD = g.at + size
  <2>1. g.at + size \in Nat /\ g.at + size < WORD
    BY <1>2, <1>3
  <2> QED
    BY <2>1, NoWordWrap
<1>7. find_free_vaddr(m, size) = g.at /\ g.at + size <= TOP
  <2>1. find_free_vaddr(m, size) # 0
    BY DEF size
  <2> QED
    BY <1>1, <1>2, <1>3, <1>6, <2>1
<1>8. LOW <= g.at
  BY <1>2, <1>3
<1> QED
  BY <1>3, <1>5, <1>7, <1>8 DEF Gap, size, rs

\* is_vaddr_range_free says so of gaps only.
LEMMA FreeIsGap ==
    ASSUME NEW m, SpaceOK(m), NEW n \in 0 .. UM_FRAMES, NEW at \in Nat, at % UM_PAGE = 0, at <= TOP,
           is_vaddr_range_free(m, at, n * UM_PAGE)
    PROVE  Gap(m, at, n)
<1> DEFINE size == n * UM_PAGE  z == UM_FRAMES * UM_PAGE
<1>1. z \in Nat /\ TOP \in Nat /\ WORD \in Nat /\ TOP + 2 * z < WORD /\ size \in Nat /\ size <= z
  <2>1. UM_FRAMES \in Nat /\ n \in Nat /\ n <= UM_FRAMES
    BY UmIs
  <2> QED
    BY <2>1, UmIs, FewerPages
<1>2. \A i \in 1 .. Len(m.regions) : region_end(m.regions[i]) = m.regions[i].base + m.regions[i].size
  <2>1. m.regions \in Seq(UmRegion)
    BY DEF SpaceOK
  <2>2. \A i \in 1 .. Len(m.regions) : m.regions[i] \in UmRegion
    BY <2>1
  <2> QED
    BY <2>2, UmRegionIs
<1> HIDE DEF size, z
<1>3. (at + size) % WORD = at + size
  <2>1. at + size \in Nat /\ at + size < WORD
    BY <1>1
  <2> QED
    BY <2>1, NoWordWrap
<1>4. is_vaddr_range_free(m, at, size)
  BY DEF size
<1> QED
  BY <1>2, <1>3, <1>4 DEF is_vaddr_range_free, Gap, size

\* No page of a gap is mapped.
LEMMA GapIsClear ==
    ASSUME NEW m, SpaceOK(m), NEW n \in 0 .. UM_FRAMES, NEW at, Gap(m, at, n)
    PROVE  /\ at \in Nat /\ at <= TOP /\ align_down(at) = at /\ ~overlaps(m, at, n)
           /\ \A a \in pages_at(at, n) : LOW <= a /\ a < TOP
<1> DEFINE size == n * UM_PAGE  rs == m.regions
<1>1. at \in Nat /\ at % UM_PAGE = 0 /\ LOW <= at /\ at + size <= TOP
  BY DEF Gap
<1>2. TOP \in Nat /\ WORD \in Nat /\ TOP < WORD /\ LOW \in Nat /\ n \in Nat
  BY UmIs
<1>3. size \in Nat
  BY <1>2, FewerPages
<1>4. \A a : a \in pages_at(at, n) <=> a \in PageBases /\ at <= a /\ a < at + size
  <2>1. at + size < WORD
    <3> HIDE DEF size
    <3> QED
      BY <1>1, <1>2, <1>3
  <2> QED
    BY <1>1, <1>2, <2>1, PagesAtIs
<1>5. align_down(at) = at
  BY <1>1, UmDown
<1>6. \A a \in PageBases : a \in Nat
  BY <1>2 DEF PageBases
<1>7. ASSUME NEW a \in pages_at(at, n), a \in mapped(m) PROVE FALSE
  <2>1. a \in PageBases /\ at <= a /\ a < at + size /\ m.frame[a] # 0 /\ a \in Nat
    BY <1>4, <1>6, <1>7 DEF mapped
  <2>2. PICK i \in 1 .. Len(rs) : Inside(a, rs[i])
    BY <2>1 DEF SpaceOK, UmListed
  <2>3. rs \in Seq(UmRegion)
    BY DEF SpaceOK
  <2>4. rs[i].base \in Nat /\ rs[i].size \in Nat
    <3> HIDE DEF rs
    <3> QED
      BY <2>3, UmRegionsAre
  <2>5. rs[i].base + rs[i].size <= at \/ rs[i].base >= at + size
    BY DEF Gap
  <2> HIDE DEF size, rs
  <2> QED
    BY <1>1, <1>3, <2>1, <2>2, <2>4, <2>5 DEF Inside
<1>8. ~overlaps(m, at, n)
  BY <1>5, <1>7 DEF overlaps
<1>9. at <= TOP
  <2> HIDE DEF size
  <2> QED
    BY <1>1, <1>2, <1>3
<1>10. ASSUME NEW a \in pages_at(at, n) PROVE LOW <= a /\ a < TOP
  <2>1. at <= a /\ a < at + size /\ a \in Nat
    BY <1>4, <1>6
  <2> HIDE DEF size
  <2> QED
    BY <1>1, <1>2, <1>3, <2>1
<1> QED
  BY <1>1, <1>5, <1>8, <1>9, <1>10

-----------------------------------------------------------------------------
\* Frames never run out and no program maps over its own pages.
Plain == Hints \subseteq 0 .. TOP /\ MmapSituations \cap {"overlap", "oom"} = {}

\* Between two calls.
UmInv == SpaceOK(um_space) /\ heap_break \in 0 .. TOP

\* As long as frames are left the size asked for does not wrap.
LEMMA HasFrames ==
    ASSUME NEW m, SpaceOK(m), NEW n \in Nat, ~runs_out(m, n)
    PROVE  n <= Cardinality(free_frames(m)) /\ n \in 0 .. UM_FRAMES /\ (n * UM_PAGE) % WORD = n * UM_PAGE
<1>1. Cardinality(free_frames(m)) = UM_FRAMES - Cardinality(m.used) /\ Cardinality(free_frames(m)) \in 0 .. UM_FRAMES
  BY FreeCount DEF SpaceOK
<1> DEFINE k == UM_FRAMES - Cardinality(m.used)
<1>2. k \in 0 .. UM_FRAMES /\ UM_FRAMES \in Nat /\ ~(n > k)
  BY <1>1, UmIs DEF runs_out
<1> HIDE DEF k
<1>3. n <= k /\ n \in 0 .. UM_FRAMES /\ n <= UM_FRAMES
  BY <1>2
<1> DEFINE x == n * UM_PAGE  z == UM_FRAMES * UM_PAGE
<1>4. x \in Nat /\ x <= z /\ z \in Nat /\ TOP \in Nat /\ TOP + 2 * z < WORD /\ WORD \in Nat
  BY <1>2, <1>3, UmIs, FewerPages
<1> HIDE DEF x, z
<1>5. x < WORD
  BY <1>4
<1>6. x % WORD = x
  BY <1>4, <1>5, NoWordWrap
<1> QED
  BY <1>1, <1>3, <1>6 DEF k, x

\* What mmap does to the space.
LEMMA MmapStep ==
    ASSUME Plain, UmInv, NEW h \in Hints, NEW l \in Lengths, NEW fixed \in BOOLEAN, sys_mmap(h, l, fixed)
    PROVE  /\ SpaceOK(um_space')
           /\ ~fixed => /\ \A a \in mapped(um_space) : um_space'.frame[a] = um_space.frame[a]
                        /\ \A a \in mapped(um_space') \ mapped(um_space) : LOW <= a /\ a < TOP
<1> DEFINE n == page_count(l)
           m == um_space
           t == target(m, h, (n * UM_PAGE) % WORD, fixed)
           at == align_down(h)
           q == vmm_space_alloc(t.space, t.at, n).space
<1>1. /\ t.at # 0 /\ um_space' = q
      /\ h # 0 /\ fixed => ~overlaps(t.space, t.at, n)
      /\ ~runs_out(t.space, n)
  BY DEF sys_mmap, Plain
<1>2. SpaceOK(m)
  BY DEF UmInv
<1>3. n \in Nat /\ h \in Nat /\ h <= TOP
  <2>1. l \in Nat /\ h \in 0 .. TOP /\ TOP \in Nat /\ WORD \in Nat \ {0} /\ UM_PAGE \in Nat \ {0}
    BY UserMemAssumption, UmIs DEF Plain
  <2>2. (l + UM_PAGE - 1) % WORD \in Nat
    BY <2>1
  <2> DEFINE y == (l + UM_PAGE - 1) % WORD
  <2>3. n = y \div UM_PAGE
    BY DEF page_count
  <2> HIDE DEF y
  <2>4. y \div UM_PAGE \in Nat
    BY <2>1, <2>2 DEF y
  <2> QED
    BY <2>1, <2>3, <2>4
<1>4. at \in Nat /\ at % UM_PAGE = 0 /\ at <= TOP /\ align_down(at) = at
  <2>1. at \in Nat /\ at % UM_PAGE = 0 /\ at <= h
    BY <1>3, UmDown
  <2>2. align_down(at) = at
    BY <2>1, UmDown
  <2>3. at <= TOP
    BY <1>3, <2>1, UmIs
  <2> QED
    BY <2>1, <2>2, <2>3
<1> HIDE DEF n, at
<1>5. SpaceOK(t.space) /\ (~fixed => t.space = m)
  BY <1>2, FreeOK DEF target
<1>6. n <= Cardinality(free_frames(t.space)) /\ n \in 0 .. UM_FRAMES /\ (n * UM_PAGE) % WORD = n * UM_PAGE
  BY <1>1, <1>3, <1>5, HasFrames
<1>7. Gap(t.space, t.at, n) \/ (h # 0 /\ fixed /\ t.at = at)
  <2>1. CASE h # 0 /\ fixed /\ at # 0
    BY <2>1 DEF target, at
  <2>2. CASE h # 0 /\ ~fixed /\ is_vaddr_range_free(m, at, n * UM_PAGE) /\ at # 0
    <3>1. t.at = at /\ t.space = m
      BY <1>6, <2>2 DEF target, at
    <3>2. Gap(m, at, n)
      BY <1>2, <1>4, <1>6, <2>2, FreeIsGap
    <3> QED
      BY <3>1, <3>2
  <2>3. CASE ~(h # 0 /\ fixed /\ at # 0) /\ ~(h # 0 /\ ~fixed /\ is_vaddr_range_free(m, at, n * UM_PAGE) /\ at # 0)
    <3>1. t.at = find_free_vaddr(t.space, n * UM_PAGE)
      BY <1>6, <2>3 DEF target, at
    <3> HIDE DEF t
    <3> QED
      BY <1>1, <1>5, <1>6, <3>1, GapFound
  <2> QED
    BY <2>1, <2>2, <2>3
<1> HIDE DEF t
<1>8. Gap(t.space, t.at, n) => /\ t.at \in Nat /\ t.at <= TOP /\ align_down(t.at) = t.at /\ ~overlaps(t.space, t.at, n)
                               /\ \A a \in pages_at(t.at, n) : LOW <= a /\ a < TOP
  BY <1>5, <1>6, GapIsClear
<1>9. t.at \in Nat /\ t.at <= TOP /\ align_down(t.at) = t.at /\ ~overlaps(t.space, t.at, n)
  BY <1>1, <1>4, <1>7, <1>8
<1>10. /\ SpaceOK(q)
       /\ \A a \in mapped(t.space) : q.frame[a] = t.space.frame[a]
       /\ mapped(q) = mapped(t.space) \cup pages_at(t.at, n)
  BY <1>3, <1>5, <1>6, <1>9, AllocOK
<1> HIDE DEF q
<1> QED
  BY <1>1, <1>5, <1>7, <1>8, <1>10

\* The break a call starts from.
LEMMA BreakIs ==
    ASSUME UmInv
    PROVE  current_break \in Nat /\ current_break <= TOP
<1>1. BRK_START \in Nat /\ BRK_START <= TOP /\ TOP \in Nat
  <2>1. BRK_START \in Nat /\ MMAP_START \in Nat /\ TOP \in Nat /\ BRK_START <= MMAP_START /\ MMAP_START < TOP
    BY UserMemAssumption
  <2> QED
    BY <2>1
<1> QED
  BY <1>1 DEF UmInv, current_break

\* As many pages as it takes from one break to the next.
LEMMA GrowIs ==
    ASSUME NEW x \in Nat, x <= TOP
    PROVE  page_count(x) \in Nat /\ x <= page_count(x) * UM_PAGE
<1> DEFINE P == UM_PAGE
           y == x + P - 1
           n == y \div P
           r == y % P
           z == UM_FRAMES * P
<1>1. P \in Nat \ {0} /\ z \in Nat /\ P <= z /\ TOP \in Nat /\ WORD \in Nat /\ TOP + 2 * z < WORD
  BY UmIs
<1> HIDE DEF P, z
<1>2. y \in Nat /\ y < WORD
  BY <1>1
<1>3. y % WORD = y
  <2> HIDE DEF y
  <2> QED
    BY <1>2, NoWordWrap
<1>4. page_count(x) = n
  BY <1>3 DEF page_count, P
<1>5. n \in Nat /\ r \in 0 .. P - 1 /\ y = P * n + r
  <2> HIDE DEF y
  <2> QED
    BY <1>1, <1>2
<1> HIDE DEF n, r
<1>6. P * n \in Nat /\ n * P = P * n
  BY <1>1, <1>5
<1> DEFINE w == P * n
<1>7. w \in Nat /\ y = w + r /\ y = x + P - 1
  BY <1>5, <1>6
<1> HIDE DEF w, y
<1>8. x <= w
  BY <1>1, <1>5, <1>7
<1> QED
  BY <1>4, <1>5, <1>6, <1>8 DEF w, P

\* What a growing break does to the space.
LEMMA BrkStep ==
    ASSUME Plain, UmInv, NEW new \in Nat, new <= TOP, current_break < new, sys_brk(new)
    PROVE  /\ SpaceOK(um_space') /\ heap_break' \in {current_break, new}
           /\ mapped(um_space') = mapped(um_space) \cup pages_at(align_down(current_break), grow_pages(new))
<1> DEFINE n == grow_pages(new)
           c == current_break
           q == vmm_space_alloc(um_space, c, n).space
<1>1. c \in Nat /\ c <= TOP /\ TOP \in Nat
  BY BreakIs, UmIs
<1>2. /\ um_space' = q /\ ~overlaps(um_space, c, n) /\ ~runs_out(um_space, n)
      /\ heap_break' \in {c, new}
  <2>1. ~(new = 0 \/ new > TOP) /\ ~(new <= c)
    BY <1>1
  <2> QED
    BY <2>1 DEF sys_brk, Plain
<1>3. n \in Nat
  <2>1. new - c \in Nat /\ new - c <= TOP
    BY <1>1
  <2> QED
    BY <2>1, GrowIs DEF grow_pages
<1> HIDE DEF n, c
<1>4. SpaceOK(um_space)
  BY DEF UmInv
<1>5. n <= Cardinality(free_frames(um_space))
  BY <1>2, <1>3, <1>4, HasFrames
<1>6. SpaceOK(q) /\ mapped(q) = mapped(um_space) \cup pages_at(align_down(c), n)
  BY <1>1, <1>2, <1>3, <1>4, <1>5, AllocOK
<1> QED
  BY <1>2, <1>6 DEF c, n

\* A step of brk, whichever way the break goes.
LEMMA BrkKeeps ==
    ASSUME Plain, UmInv, NEW new \in Breaks, sys_brk(new)
    PROVE  UmInv'
<1>1. new \in Nat /\ TOP \in Nat /\ current_break \in Nat /\ current_break <= TOP
  BY UserMemAssumption, BreakIs, UmIs
<1>2. CASE new = 0 \/ new > TOP
  BY <1>1, <1>2 DEF sys_brk, UmInv
<1>3. CASE ~(new = 0 \/ new > TOP) /\ new <= current_break
  BY <1>1, <1>3 DEF sys_brk, UmInv
<1>4. CASE ~(new = 0 \/ new > TOP) /\ ~(new <= current_break)
  <2>1. new <= TOP /\ current_break < new
    BY <1>1, <1>4
  <2>2. SpaceOK(um_space') /\ heap_break' \in {current_break, new}
    BY <1>1, <2>1, BrkStep
  <2> QED
    BY <1>1, <2>1, <2>2 DEF UmInv
<1> QED
  BY <1>2, <1>3, <1>4

\* The invariant holds at the start and is kept.
LEMMA UmStart ==
    ASSUME UserMemInit
    PROVE  UmInv
<1>1. /\ um_space.regions = <<>> /\ um_space.frame = [a \in PageBases |-> 0] /\ um_space.used = {}
      /\ heap_break = 0
  BY DEF UserMemInit
<1>2. UmListed(<<>>) = {} /\ <<>> \in Seq(UmRegion) /\ UmSorted(<<>>)
  BY DEF UmListed, UmSorted
<1>3. mapped(um_space) = {}
  BY <1>1 DEF mapped
<1>4. 0 \in 0 .. UM_FRAMES /\ 0 \in 0 .. TOP
  BY UmIs
<1>5. um_space.frame \in [PageBases -> 0 .. UM_FRAMES]
  BY <1>1, <1>4
<1>6. \A a \in PageBases : um_space.frame[a] = 0
  BY <1>1
<1>7. \A a \in PageBases : um_space.frame[a] # 0 <=> \E r \in UmListed(um_space.regions) : Inside(a, r)
  BY <1>1, <1>2, <1>6
<1>8. SpaceOK(um_space)
  BY <1>1, <1>2, <1>3, <1>5, <1>7 DEF SpaceOK
<1> QED
  BY <1>1, <1>4, <1>8 DEF UmInv

\* Every call keeps UmInv.
LEMMA UmStep ==
    ASSUME Plain, UmInv, [UserMemNext]_umvars
    PROVE  UmInv'
<1>1. CASE UNCHANGED umvars
  BY <1>1 DEF umvars, UmInv
<1>2. ASSUME NEW h \in Hints, NEW n \in Lengths, NEW f \in BOOLEAN, sys_mmap(h, n, f) PROVE UmInv'
  <2>1. SpaceOK(um_space')
    BY <1>2, MmapStep
  <2>2. heap_break' = heap_break
    BY <1>2 DEF sys_mmap
  <2> QED
    BY <2>1, <2>2 DEF UmInv
<1>3. ASSUME NEW a \in Hints, sys_munmap(a) PROVE UmInv'
  BY <1>3, FreeOK DEF sys_munmap, UmInv
<1>4. ASSUME NEW b \in Breaks, sys_brk(b) PROVE UmInv'
  BY <1>4, BrkKeeps
<1>5. CASE process_fork
  BY <1>5, UmIs DEF process_fork, UmInv
<1> QED
  BY <1>1, <1>2, <1>3, <1>4, <1>5 DEF UserMemNext

\* The frames taken and the pages mapped are as many.
LEMMA UmCounts ==
    ASSUME NEW m, SpaceOK(m)
    PROVE  Cardinality(m.used) = Cardinality(mapped(m))
<1> DEFINE A == mapped(m)  f == [a \in A |-> m.frame[a]]
<1>1. IsFiniteSet(A)
  <2>1. A \in SUBSET Nat /\ WORD \in Nat /\ \A a \in A : a <= WORD
    BY UmIs DEF mapped, PageBases
  <2> HIDE DEF A
  <2> QED
    BY <2>1, FS_BoundedSetOfNaturals
<1>2. m.used = {m.frame[a] : a \in A} /\ \A a, b \in A : m.frame[a] = m.frame[b] => a = b
  BY DEF SpaceOK
<1> HIDE DEF A
<1>3. f \in Bijection(A, m.used)
  <2>1. f \in [A -> m.used]
    BY <1>2
  <2>2. \A a, b \in A : f[a] = f[b] => a = b
    BY <1>2
  <2>3. \A u \in m.used : \E a \in A : f[a] = u
    BY <1>2
  <2> HIDE DEF f
  <2> QED
    BY <2>1, <2>2, <2>3 DEF Bijection, Injection, Surjection, IsInjective
<1>4. ExistsBijection(A, m.used)
  BY <1>3 DEF ExistsBijection
<1> QED
  BY <1>1, <1>4, FS_Bijection DEF A

\* UmInv has all of RegionsApart.
LEMMA UmSound ==
    ASSUME UmInv
    PROVE  RegionsApart
<1> DEFINE rs == um_space.regions
<1>1. SpaceOK(um_space) /\ rs \in Seq(UmRegion) /\ UmSorted(rs) /\ Len(rs) \in Nat
  BY DEF UmInv, SpaceOK
<1>2. \A i \in 1 .. Len(rs) - 1 : rs[i].base + rs[i].size <= rs[i + 1].base
  <2> SUFFICES ASSUME NEW i \in 1 .. Len(rs) - 1 PROVE rs[i].base + rs[i].size <= rs[i + 1].base
    OBVIOUS
  <2>1. i \in 1 .. Len(rs) /\ i + 1 \in 1 .. Len(rs) /\ i < i + 1
    BY <1>1
  <2> QED
    BY <1>1, <2>1 DEF UmSorted
<1>3. mapped(um_space) = UNION {pages_at(rs[i].base, rs[i].size \div UM_PAGE) : i \in 1 .. Len(rs)}
  <2>1. \A i \in 1 .. Len(rs) : \A a : a \in pages_at(rs[i].base, rs[i].size \div UM_PAGE)
                                       <=> a \in PageBases /\ Inside(a, rs[i])
    <3> SUFFICES ASSUME NEW i \in 1 .. Len(rs)
                 PROVE  \A a : a \in pages_at(rs[i].base, rs[i].size \div UM_PAGE)
                               <=> a \in PageBases /\ Inside(a, rs[i])
      OBVIOUS
    <3>1. rs[i] \in UmRegion
      BY <1>1
    <3> HIDE DEF rs
    <3> QED
      BY <3>1, InsideIs
  <2>2. \A a : a \in mapped(um_space) <=> a \in PageBases /\ \E i \in 1 .. Len(rs) : Inside(a, rs[i])
    BY <1>1 DEF mapped, SpaceOK, UmListed
  <2> HIDE DEF rs
  <2> QED
    BY <2>1, <2>2
<1>4. um_space.used = {um_space.frame[a] : a \in mapped(um_space)}
  BY <1>1 DEF SpaceOK
<1>5. Cardinality(um_space.used) = Cardinality(mapped(um_space))
  BY <1>1, UmCounts
<1> QED
  BY <1>2, <1>3, <1>4, <1>5 DEF RegionsApart

\* mmap, munmap and brk in any order: the regions stay sorted and apart, the
\* pages mapped are theirs, and every frame taken is behind one page, as long
\* as the frames last and a program does not map over its own pages.
THEOREM RegionsStayApart ==
    ASSUME Plain
    PROVE  UserMemSpec => []RegionsApart
<1>1. UserMemInit => UmInv
  BY UmStart
<1>2. UmInv /\ [UserMemNext]_umvars => UmInv'
  BY UmStep
<1>3. UmInv => RegionsApart
  BY UmSound
<1> QED
  BY <1>1, <1>2, <1>3, PTL DEF UserMemSpec

\* A byte between two breaks is in a page of the range brk maps.
LEMMA BetweenBreaks ==
    ASSUME NEW c \in Nat, c % UM_PAGE = 0, NEW new \in Nat, c < new, new <= TOP, NEW a \in c .. new - 1,
           NEW n \in 0 .. UM_FRAMES, new - c <= n * UM_PAGE
    PROVE  align_down(a) \in pages_at(c, n)
<1> DEFINE d == align_down(a)  size == n * UM_PAGE
<1>1. UM_PAGE \in Nat \ {0} /\ TOP \in Nat /\ WORD \in Nat /\ TOP < WORD /\ UM_FRAMES \in Nat
  BY UmIs
<1>2. a \in Nat /\ c <= a /\ a < new /\ n \in Nat
  BY <1>1
<1>3. d \in Nat /\ d <= a /\ a < d + UM_PAGE /\ d % UM_PAGE = 0
  BY <1>2, UmDown
<1> HIDE DEF d
<1>4. c <= d
  <2>1. PICK k \in Nat : c = k * UM_PAGE
    BY IsMultiple
  <2>2. PICK j \in Nat : d = j * UM_PAGE
    BY <1>3, IsMultiple
  <2>3. k <= j <=> k * UM_PAGE <= j * UM_PAGE
    BY FewerPages
  <2>4. j < k => j * UM_PAGE + UM_PAGE <= k * UM_PAGE
    BY FewerPages
  <2>5. ~(j < k)
    BY <1>1, <1>2, <1>3, <2>1, <2>2, <2>4
  <2> QED
    BY <2>1, <2>2, <2>3, <2>5
<1>5. size \in Nat /\ c + size < WORD
  <2>1. size \in Nat /\ size <= UM_FRAMES * UM_PAGE
    BY <1>1, <1>2, FewerPages
  <2> DEFINE z == UM_FRAMES * UM_PAGE
  <2>2. z \in Nat /\ TOP + 2 * z < WORD
    BY UmIs
  <2> HIDE DEF size, z
  <2>3. c + size < WORD
    BY <1>1, <2>1, <2>2 DEF z
  <2> QED
    BY <2>1, <2>3
<1>6. d < c + size
  <2> HIDE DEF size
  <2>1. new - c <= size
    BY DEF size
  <2> QED
    BY <1>2, <1>3, <1>5, <2>1
<1>7. d \in PageBases
  <2>1. d \in 0 .. WORD - 1
    BY <1>1, <1>2, <1>3
  <2> QED
    BY <1>3, <2>1 DEF PageBases
<1> QED
  BY <1>2, <1>4, <1>5, <1>6, <1>7, PagesAtIs DEF d

\* When the break moves up, what lies below it is mapped.
LEMMA BrkMaps ==
    ASSUME Plain, "unaligned" \notin MmapSituations, UmInv, NEW new \in Breaks, sys_brk(new),
           heap_break' > current_break
    PROVE  \A a \in current_break .. heap_break' - 1 : align_down(a) \in mapped(um_space')
<1> DEFINE c == current_break  n == grow_pages(new)
<1>1. new \in Nat /\ TOP \in Nat /\ c \in Nat /\ c <= TOP
  BY UserMemAssumption, BreakIs, UmIs
<1>2. ~(new = 0 \/ new > TOP) /\ ~(new <= c)
  <2>1. CASE new = 0 \/ new > TOP
    <3>1. heap_break' = c
      BY <2>1 DEF sys_brk
    <3> QED
      BY <1>1, <3>1
  <2>2. CASE ~(new = 0 \/ new > TOP) /\ new <= c
    <3>1. heap_break' = new
      BY <2>2 DEF sys_brk
    <3> QED
      BY <1>1, <2>2, <3>1
  <2> QED
    BY <2>1, <2>2
<1>3. new <= TOP /\ c < new
  BY <1>1, <1>2
<1>4. c % UM_PAGE = 0 /\ ~runs_out(um_space, n)
  BY <1>2 DEF sys_brk, Plain
<1>5. /\ heap_break' \in {c, new}
      /\ mapped(um_space') = mapped(um_space) \cup pages_at(align_down(c), n)
  BY <1>1, <1>3, BrkStep
<1>6. heap_break' = new
  BY <1>1, <1>5
<1>7. n \in Nat /\ new - c <= n * UM_PAGE
  <2>1. new - c \in Nat /\ new - c <= TOP
    BY <1>1, <1>3
  <2> QED
    BY <2>1, GrowIs DEF grow_pages
<1>8. n \in 0 .. UM_FRAMES
  <2> HIDE DEF n
  <2> QED
    BY <1>4, <1>7, HasFrames DEF UmInv
<1>9. align_down(c) = c
  BY <1>1, <1>4, UmDown
<1> SUFFICES ASSUME NEW a \in c .. new - 1 PROVE align_down(a) \in mapped(um_space')
  BY <1>6
<1> HIDE DEF c, n
<1>10. align_down(a) \in pages_at(c, n)
  BY <1>1, <1>3, <1>4, <1>7, <1>8, BetweenBreaks
<1> QED
  BY <1>5, <1>9, <1>10

\* Only brk moves the break up.
LEMMA GrowsByBrk ==
    ASSUME UmInv, [UserMemNext]_umvars, heap_break' > current_break
    PROVE  \E b \in Breaks : sys_brk(b)
<1>1. heap_break \in Nat /\ current_break \in Nat /\ heap_break <= current_break
  <2>1. heap_break \in Nat /\ BRK_START \in Nat
    BY UmIs DEF UmInv
  <2> QED
    BY <2>1 DEF current_break
<1>2. CASE UNCHANGED umvars
  BY <1>1, <1>2 DEF umvars
<1>3. ASSUME NEW h \in Hints, NEW n \in Lengths, NEW f \in BOOLEAN, sys_mmap(h, n, f) PROVE FALSE
  <2>1. heap_break' = heap_break
    BY <1>3 DEF sys_mmap
  <2> QED
    BY <1>1, <2>1
<1>4. ASSUME NEW a \in Hints, sys_munmap(a) PROVE FALSE
  <2>1. heap_break' = heap_break
    BY <1>4 DEF sys_munmap
  <2> QED
    BY <1>1, <2>1
<1>5. CASE process_fork
  <2>1. heap_break' = 0
    BY <1>5 DEF process_fork
  <2> QED
    BY <1>1, <2>1
<1> QED
  BY <1>2, <1>3, <1>4, <1>5 DEF UserMemNext

\* A mapping without MAP_FIXED goes into a gap of the user half and leaves
\* what is mapped alone, wherever the hint points, and every byte up to the
\* new break can be used once brk has moved it up: as long as the frames last,
\* a program does not map over its own pages and its breaks are whole pages.
THEOREM CallsOnlyAdd ==
    ASSUME Plain, "unaligned" \notin MmapSituations
    PROVE  UserMemSpec => CallsAddOnly
<1>1. UserMemInit => UmInv
  BY UmStart
<1>2. UmInv /\ [UserMemNext]_umvars => UmInv'
  BY UmStep
<1>3. UmInv /\ [UserMemNext]_umvars =>
        [\/ /\ \A a \in mapped(um_space) : um_space'.frame[a] = um_space.frame[a]
            /\ \A a \in mapped(um_space') \ mapped(um_space) : LOW <= a /\ a < TOP
         \/ \A h \in Hints, n \in Lengths : ~sys_mmap(h, n, FALSE)]_umvars
  <2> SUFFICES ASSUME UmInv, NEW h \in Hints, NEW n \in Lengths, sys_mmap(h, n, FALSE)
               PROVE  /\ \A a \in mapped(um_space) : um_space'.frame[a] = um_space.frame[a]
                      /\ \A a \in mapped(um_space') \ mapped(um_space) : LOW <= a /\ a < TOP
    OBVIOUS
  <2> QED
    BY MmapStep
<1>4. UmInv /\ [UserMemNext]_umvars =>
        [heap_break' > current_break =>
            \A a \in current_break .. heap_break' - 1 : align_down(a) \in mapped(um_space')]_umvars
  <2> SUFFICES ASSUME UmInv, [UserMemNext]_umvars, heap_break' > current_break
               PROVE  \A a \in current_break .. heap_break' - 1 : align_down(a) \in mapped(um_space')
    OBVIOUS
  <2>1. PICK b \in Breaks : sys_brk(b)
    BY GrowsByBrk
  <2> QED
    BY <2>1, BrkMaps
<1> QED
  BY <1>1, <1>2, <1>3, <1>4, PTL DEF UserMemSpec, CallsAddOnly, MmapFindsGap, GrownIsMapped
=============================================================================
