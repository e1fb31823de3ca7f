-------------------------------- MODULE MCCow --------------------------------
(* Small instances of CowSpaces. *)
EXTENDS CowSpaces, TLC

\* Address spaces, frames and page contents are interchangeable.
Interchangeable == Permutations(Spaces) \cup Permutations(Frames)
                      \cup Permutations(Values)
=============================================================================
