------------------------------- MODULE MCSched -------------------------------
(* Instances of SchedProc for TLC. *)
EXTENDS SchedProc, TLC

\* Slots of one kind are interchangeable.
Slots == Permutations(Threads) \cup Permutations(Procs)
=============================================================================
