------------------------------ MODULE CLibrary -------------------------------
(***************************************************************************)
(* What is printed and the streams it goes through, side by side.          *)
(***************************************************************************)
EXTENDS Format, Stdio

\* stdio.c and the printers of the kernel: what is printed is cut at the end
\* of the buffer only, reads back, is the same everywhere, and streams own
\* their descriptors.
StdioSound == SnprintfTruncates /\ ReadsBack /\ PrintersAgree /\ StreamsOwnFds
=============================================================================
