---------------------------- MODULE PrivateMemory ----------------------------
(***************************************************************************)
(* What fork and copy-on-write promise to user programs: every process has *)
(* a memory of its own.  A fork gives the child a copy of it, a store      *)
(* changes the memory of the process that makes it and nobody else's, and  *)
(* no process notices when another exits, maps or unmaps something.        *)
(***************************************************************************)
CONSTANTS Spaces, Pages, Values, NULL

VARIABLES live, mem

Init ==
    /\ live = {}
    /\ mem = [s \in Spaces |-> [v \in Pages |-> NULL]]

Create(s) ==
    /\ s \notin live
    /\ live' = live \cup {s}
    /\ UNCHANGED mem

\* A mapping is of fresh pages; what they hold at first is not specified.
Map(s) ==
    /\ s \in live
    /\ mem'[s] \in [Pages -> Values \cup {NULL}]
    /\ \A v \in Pages : mem[s][v] # NULL => mem'[s][v] = mem[s][v]
    /\ mem' = [mem EXCEPT ![s] = mem'[s]]
    /\ UNCHANGED live

Unmap(s) ==
    /\ s \in live
    /\ mem' = [mem EXCEPT ![s] = [v \in Pages |-> IF mem'[s][v] = NULL THEN NULL ELSE @[v]]]
    /\ UNCHANGED live

Fork(s, d) ==
    /\ s \in live /\ d \notin live
    /\ live' = live \cup {d}
    /\ mem' = [mem EXCEPT ![d] = mem[s]]

Store(s, v) ==
    /\ s \in live /\ mem[s][v] # NULL
    /\ mem'[s][v] \in Values
    /\ mem' = [mem EXCEPT ![s][v] = mem'[s][v]]
    /\ UNCHANGED live

Exit(s) ==
    /\ s \in live
    /\ live' = live \ {s}
    /\ mem' = [mem EXCEPT ![s] = [v \in Pages |-> NULL]]

Next ==
    \/ \E s \in Spaces : Create(s) \/ Map(s) \/ Unmap(s) \/ Exit(s)
    \/ \E s, d \in Spaces : Fork(s, d)
    \/ \E s \in Spaces, v \in Pages : Store(s, v)

Spec == Init /\ [][Next]_<<live, mem>>
=============================================================================
