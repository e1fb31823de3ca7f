------------------------------ MODULE BlockList ------------------------------
(***************************************************************************)
(* Lists of blocks [base, size, used] in address order, as the heaps of    *)
(* doccrOS keep them.  `header' is the size of the header in front of a    *)
(* block (none for the arena of the VMM, which keeps its list elsewhere),  *)
(* `least' what a block must have left over to be split.                   *)
(***************************************************************************)
EXTENDS Integers, Sequences, SequencesExt

round_up(size, align) == ((size + align - 1) \div align) * align

\* Fault: the first block that is large enough, used or not.
first_large(b, size) == SelectInSeq(b, LAMBDA x : x.size >= size)

first_fit(b, size) == SelectInSeq(b, LAMBDA x : ~x.used /\ x.size >= size)
splits(x, size, header, least) == x.size >= size + header + least

\* The blocks after the i-th is taken for size bytes; what is left over
\* becomes a block of its own behind it when it is large enough.
taken(b, i, size, header, least) ==
    LET x    == b[i]
        rest == [base |-> x.base + header + size,
                 size |-> x.size - size - header, used |-> FALSE]
    IN  IF splits(x, size, header, least)
        THEN SubSeq(b, 1, i - 1) \o <<[x EXCEPT !.size = size, !.used = TRUE], rest>>
                \o SubSeq(b, i + 1, Len(b))
        ELSE [b EXCEPT ![i].used = TRUE]

\* Fault: the header between the two is lost.
join_sizes(b, i, header) ==
    SubSeq(b, 1, i - 1)
       \o <<[b[i] EXCEPT !.size = @ + b[i + 1].size]>>
       \o SubSeq(b, i + 2, Len(b))

\* Two neighbours become one, the header between them is free space.
join(b, i, header) ==
    SubSeq(b, 1, i - 1)
       \o <<[b[i] EXCEPT !.size = @ + header + b[i + 1].size]>>
       \o SubSeq(b, i + 2, Len(b))

\* The block an address belongs to.
block_at(b, base) == SelectInSeq(b, LAMBDA x : x.base = base)

\* The blocks cover 0 .. limit - 1 without gap or overlap.
Tiles(b, header, limit) ==
    /\ b # <<>> /\ b[1].base = 0
    /\ \A i \in 1 .. Len(b) :
         b[i].base + header + b[i].size =
            IF i = Len(b) THEN limit ELSE b[i + 1].base

\* The sizes of the used blocks, or of the free ones, added up.
total_size(b, used) ==
    LET sum[i \in 0 .. Len(b)] ==
            IF i = 0 THEN 0 ELSE sum[i - 1] + (IF b[i].used = used THEN b[i].size ELSE 0)
    IN  sum[Len(b)]

\* No two free blocks lie side by side.
Coalesced(b) == \A i \in 1 .. Len(b) - 1 : b[i].used \/ b[i + 1].used
=============================================================================
