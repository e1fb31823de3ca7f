------------------------------ MODULE Allocator ------------------------------
(***************************************************************************)
(* What an allocator promises: the ranges that are out never overlap, lie  *)
(* inside the memory it manages, and each is given back as it was taken.   *)
(***************************************************************************)
EXTENDS Integers

CONSTANT Limit      \* the memory is 0 .. Limit - 1
VARIABLE out        \* ranges in use: [at, len]

Apart(r, q) == r.at + r.len <= q.at \/ q.at + q.len <= r.at
Inside(r) == r.at >= 0 /\ r.len > 0 /\ r.at + r.len <= Limit

Init == out = {}

\* A realloc changes a range where it is, or takes a new one and gives the
\* old one back; the contents are copied while both are out.
Take(r) == Inside(r) /\ (\A q \in out : Apart(r, q)) /\ out' = out \cup {r}
Give(r) == r \in out /\ out' = out \ {r}
Move(r, q) == /\ r \in out /\ Inside(q)
              /\ \A o \in out : Apart(q, o) \/ (o = r /\ q.at = r.at)
              /\ out' = (out \ {r}) \cup {q}

\* The range taken is one of those that are out afterwards.
Next == \/ \E r \in out' : Take(r)
        \/ \E r \in out : Give(r)
        \/ \E r \in out, q \in out' : Move(r, q)

Spec == Init /\ [][Next]_out
=============================================================================
