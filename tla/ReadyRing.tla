------------------------------ MODULE ReadyRing ------------------------------
(***************************************************************************)
(* The ready queue of kernel/proc/scheduler.c as it is stored: a ring of   *)
(* SCHED_MAX_THREADS pointers with head, tail and count (rq_t).  Threads   *)
(* go in and out in any order and may be queued more than once; that they  *)
(* are not is up to the scheduler, see SchedProc.                          *)
(***************************************************************************)
EXTENDS Integers, Sequences

CONSTANTS Threads, NULL, SCHED_MAX_THREADS

ASSUME RingAssumption ==
    /\ SCHED_MAX_THREADS \in Nat \ {0}
    /\ NULL \notin Threads

VARIABLES
    queue, head, tail, cnt,     \* rq_t
    popped                      \* what the last q_pop returned

ringvars == <<queue, head, tail, cnt, popped>>

Slots == 0 .. SCHED_MAX_THREADS - 1

RingInit ==
    /\ queue = [i \in Slots |-> NULL]
    /\ head = 0 /\ tail = 0 /\ cnt = 0
    /\ popped = NULL

full(n) == n >= SCHED_MAX_THREADS

q_push(t) ==
    /\ IF full(cnt)
       THEN UNCHANGED <<queue, tail, cnt>>
       ELSE /\ queue' = [queue EXCEPT ![tail] = t]
            /\ tail' = (tail + 1) % SCHED_MAX_THREADS
            /\ cnt' = cnt + 1
    /\ UNCHANGED <<head, popped>>

\* q_pop of an empty queue returns NULL and changes nothing.
q_pop ==
    /\ cnt > 0
    /\ popped' = queue[head]
    /\ head' = (head + 1) % SCHED_MAX_THREADS
    /\ cnt' = cnt - 1
    /\ UNCHANGED <<queue, tail>>

\* The slot of the entry that is i places behind the oldest.
slot(i) == (head + i) % SCHED_MAX_THREADS

\* Fault: indices are not taken modulo the size of the ring.
moved_up_to_end(i) == [k \in Slots |->
    IF k >= head + i /\ k < head + cnt - 1 /\ k + 1 \in Slots THEN queue[k + 1] ELSE queue[k]]

\* The entries behind the i-th move up by one.
moved_up(i) == [k \in Slots |->
    IF \E j \in i .. cnt - 2 : k = slot(j) THEN queue[(k + 1) % SCHED_MAX_THREADS] ELSE queue[k]]

sched_remove(t) ==
    /\ \E i \in 0 .. cnt - 1 :
          /\ queue[slot(i)] = t /\ \A j \in 0 .. i - 1 : queue[slot(j)] # t
          /\ queue' = moved_up(i)
    /\ cnt' = cnt - 1
    /\ tail' = (tail - 1 + SCHED_MAX_THREADS) % SCHED_MAX_THREADS
    /\ UNCHANGED <<head, popped>>

RingNext == q_pop \/ \E t \in Threads : q_push(t) \/ sched_remove(t)

RingSpec == RingInit /\ [][RingNext]_ringvars
-----------------------------------------------------------------------------
\* Head, tail and count never contradict each other, and never leave the ring.
RingSound ==
    /\ head \in Slots /\ tail \in Slots /\ cnt \in 0 .. SCHED_MAX_THREADS
    /\ tail = slot(cnt)

Fifo == INSTANCE ReadyFifo WITH fifo <- [i \in 1 .. cnt |-> queue[slot(i - 1)]]

\* The ring is a bounded first-in-first-out queue, wherever in the array its
\* entries lie and whichever of them sched_remove takes out; head, tail and
\* count agree.
ImplementsFifo == []RingSound /\ Fifo!Spec
=============================================================================
