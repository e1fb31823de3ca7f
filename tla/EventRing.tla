------------------------------ MODULE EventRing ------------------------------
(***************************************************************************)
(* The queue of input events, kernel/devices/input/kbd.c and mouse.c: an   *)
(* array with a head, where the interrupt writes, and a tail, where read   *)
(* takes.  One slot stays free; an event that finds no room is dropped.    *)
(***************************************************************************)
EXTENDS Integers, Sequences, FiniteSets

ring_init(size, blank) == [buf |-> [i \in 0 .. size - 1 |-> blank], head |-> 0, tail |-> 0]
ring_size(r) == Cardinality(DOMAIN r.buf)

\* Fault: the slot that tells full from empty is used as well.
push_event_full(r, ev) ==
    [r EXCEPT !.buf[r.head] = ev, !.head = (r.head + 1) % ring_size(r)]

\* An event that would make the head meet the tail is dropped.
push_event(r, ev) ==
    LET next == (r.head + 1) % ring_size(r)
    IN  IF next = r.tail THEN r ELSE [r EXCEPT !.buf[r.head] = ev, !.head = next]

has_event(r) == r.head # r.tail
read_event(r) == IF has_event(r) THEN [r EXCEPT !.tail = (r.tail + 1) % ring_size(r)] ELSE r

\* kbd_read_events, mouse_read: as many events as the buffer of the caller
\* has room for.
read_events(r, n) ==
    LET after[i \in 0 .. n] == IF i = 0 THEN r ELSE read_event(after[i - 1])
    IN  after[n]
-----------------------------------------------------------------------------
\* The events that wait, oldest first.
Waiting(r) ==
    [i \in 1 .. (r.head - r.tail) % ring_size(r) |-> r.buf[(r.tail + i - 1) % ring_size(r)]]

\* What the array stands for is a queue that holds one event less than it
\* has slots and refuses the newest, wherever head and tail have got to.
ActsAsQueue(r, Push(_, _), events, counts) ==
    LET q == Waiting(r) IN
    /\ \A ev \in events :
         Waiting(Push(r, ev)) = IF Len(q) < ring_size(r) - 1 THEN Append(q, ev) ELSE q
    /\ \A n \in counts :
         Waiting(read_events(r, n)) = SubSeq(q, (IF n < Len(q) THEN n ELSE Len(q)) + 1, Len(q))
=============================================================================
