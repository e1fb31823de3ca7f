-------------------------------- MODULE Stdio --------------------------------
(***************************************************************************)
(* The streams of user/libc/src/stdio.c: a FILE is a block of the heap     *)
(* with a descriptor of the kernel, an error and an end-of-file mark.      *)
(*                                                                         *)
(* The descriptors behave as in Files; there is one file, and writing      *)
(* replaces it as vfs_write does.                                          *)
(***************************************************************************)
EXTENDS Integers, FiniteSets

CONSTANTS
    STDIO_FD_MAX,
    StreamBlocks,       \* blocks malloc can give
    MAX_FILE,           \* bound on the size of the file
    Counts              \* size * count of a call

ASSUME StdioAssumption == STDIO_FD_MAX \in Nat /\ MAX_FILE \in Nat /\ Counts \subseteq Nat

VARIABLES
    fds,        \* of each descriptor: used, offset
    streams,    \* of each block: live, fd, error, eof
    fsize       \* size of the file

stdiovars == <<fds, streams, fsize>>

Fds == 3 .. STDIO_FD_MAX - 1
NoFile == [live |-> FALSE, fd |-> 0, error |-> FALSE, eof |-> FALSE]
Unused == [used |-> FALSE, offset |-> 0]

StdioInit ==
    /\ fds = [fd \in Fds |-> Unused]
    /\ streams = [b \in StreamBlocks |-> NoFile]
    /\ fsize \in 0 .. MAX_FILE

free_fds == {fd \in Fds : ~fds[fd].used}
lowest == CHOOSE fd \in free_fds : \A k \in free_fds : fd <= k
free_blocks == {b \in StreamBlocks : ~streams[b].live}

\* open, then malloc; without memory the descriptor is closed again.
fopen ==
    /\ free_fds # {}
    /\ IF free_blocks = {} THEN UNCHANGED <<fds, streams>>
       ELSE /\ fds' = [fds EXCEPT ![lowest] = [used |-> TRUE, offset |-> 0]]
            /\ \E b \in free_blocks :
                  streams' = [streams EXCEPT ![b] = [NoFile EXCEPT !.live = TRUE, !.fd = lowest]]
    /\ UNCHANGED fsize

fclose(b) ==
    /\ streams[b].live
    /\ fds' = [fds EXCEPT ![streams[b].fd] = Unused]
    /\ streams' = [streams EXCEPT ![b] = NoFile]
    /\ UNCHANGED fsize

\* sys_read gives what is left from the offset on.
available(fd) == IF fds[fd].offset >= fsize THEN 0 ELSE fsize - fds[fd].offset

fread(b, n) ==
    LET fd  == streams[b].fd
        got == IF n < available(fd) THEN n ELSE available(fd)
    IN  /\ streams[b].live
        /\ fds' = [fds EXCEPT ![fd].offset = @ + got]
        /\ streams' = [streams EXCEPT ![b].eof = @ \/ got < n]
        /\ UNCHANGED fsize

\* Nothing of length 0 is written; vfs_write may find no memory.
fwrite(b, n) ==
    /\ streams[b].live
    /\ \/ fsize' = (IF n = 0 THEN fsize ELSE n) /\ UNCHANGED <<fds, streams>>
       \/ n > 0 /\ streams' = [streams EXCEPT ![b].error = TRUE] /\ UNCHANGED <<fds, fsize>>

\* lseek from the start, the offset or the end; not before the start.
fseek(b, offset, origin) ==
    LET fd   == streams[b].fd
        from == CASE origin = "SET" -> 0 [] origin = "CUR" -> fds[fd].offset [] OTHER -> fsize
    IN  /\ streams[b].live /\ from + offset <= MAX_FILE + 1
        /\ IF from + offset < 0
           THEN streams' = [streams EXCEPT ![b].error = TRUE] /\ UNCHANGED fds
           ELSE /\ streams' = [streams EXCEPT ![b].eof = FALSE]
                /\ fds' = [fds EXCEPT ![fd].offset = from + offset]
        /\ UNCHANGED fsize

StdioNext ==
    \/ fopen
    \/ \E b \in StreamBlocks : fclose(b)
    \/ \E b \in StreamBlocks, n \in Counts : fread(b, n) \/ fwrite(b, n)
    \/ \E b \in StreamBlocks, offset \in {-1, 1}, origin \in {"SET", "CUR", "END"} :
           fseek(b, offset, origin)

StdioSpec == StdioInit /\ [][StdioNext]_stdiovars
-----------------------------------------------------------------------------
\* A descriptor belongs to one stream as long as it is open: none is lost
\* when fopen runs out of memory, and none is used by two.
StreamsOwnFds ==
    /\ \A b \in StreamBlocks : streams[b].live => fds[streams[b].fd].used
    /\ \A b, c \in StreamBlocks :
         streams[b].live /\ streams[c].live /\ streams[b].fd = streams[c].fd => b = c
    /\ Cardinality({fd \in Fds : fds[fd].used}) = Cardinality({b \in StreamBlocks : streams[b].live})
=============================================================================
