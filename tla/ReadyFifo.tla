------------------------------ MODULE ReadyFifo ------------------------------
(***************************************************************************)
(* What the scheduler expects of its ready queue: first in, first out, at  *)
(* most SCHED_MAX_THREADS entries, one that finds it full is dropped.      *)
(***************************************************************************)
EXTENDS Integers, Sequences

CONSTANTS Threads, NULL, SCHED_MAX_THREADS

VARIABLES
    fifo,       \* the waiting threads, oldest first
    popped      \* what the last pop returned

Init == fifo = << >> /\ popped = NULL

Push(t) ==
    /\ fifo' = IF Len(fifo) < SCHED_MAX_THREADS THEN Append(fifo, t) ELSE fifo
    /\ UNCHANGED popped

Pop ==
    /\ fifo # << >>
    /\ popped' = Head(fifo) /\ fifo' = Tail(fifo)

\* The oldest entry for t goes, if there is one.
Remove(t) ==
    /\ \/ \E i \in 1 .. Len(fifo) :
             /\ fifo[i] = t /\ \A j \in 1 .. i - 1 : fifo[j] # t
             /\ fifo' = SubSeq(fifo, 1, i - 1) \o SubSeq(fifo, i + 1, Len(fifo))
       \/ /\ \A i \in 1 .. Len(fifo) : fifo[i] # t
          /\ fifo' = fifo
    /\ UNCHANGED popped

Next == Pop \/ \E t \in Threads : Push(t) \/ Remove(t)

Spec == Init /\ [][Next]_<<fifo, popped>>
=============================================================================
