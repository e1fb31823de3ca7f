-------------------------------- MODULE Mouse --------------------------------
(***************************************************************************)
(* The mouse, from its bytes to read: the interrupt handler of             *)
(* arch/x86_64/drivers/ps2/mouse/mouse.c, input_report_rel and             *)
(* input_report_key of devices/input/ctrl.c and the queue of mouse.c.      *)
(* Bytes are numbers, as the handler looks at their bits.                  *)
(***************************************************************************)
EXTENDS EventRing

CONSTANTS
    MOUSE_QUEUE_SIZE,
    FirstBytes,         \* first bytes of packets: buttons, always 1, overflow
    Deltas              \* second and third bytes

bit(x, b) == (x \div b) % 2

\* Every first byte has bit 3, by the protocol of the mouse; a movement is
\* any byte and may look like a first one.
ASSUME MouseAssumption ==
    /\ MOUSE_QUEUE_SIZE \in Nat \ {0, 1}
    /\ FirstBytes \subseteq 0 .. 255 /\ Deltas \subseteq 0 .. 255
    /\ \A b \in FirstBytes : bit(b, 8) = 1

VARIABLES
    sending,        \* bytes of the packet the mouse has still to send
    last,           \* history: the last packet it began to send
    since,          \* history: "out" since a byte was lost, "back" in the first
                    \* packet after it whose movements have bit 3 clear, then "step"
    packet, packet_index, buttons,
    mq              \* the queue of mouse.c

mousevars == <<sending, last, since, packet, packet_index, buttons, mq>>

i8(x) == IF x >= 128 THEN x - 256 ELSE x
NoMove == [code |-> "none", value |-> 0]

MouseInit ==
    /\ sending = <<>> /\ last = <<0, 0, 0>> /\ since = "step"
    /\ packet = <<0, 0, 0>> /\ packet_index = 0 /\ buttons = 0
    /\ mq = ring_init(MOUSE_QUEUE_SIZE, NoMove)

mouse_push_event(q, ev) == push_event(q, ev)

\* input_report_rel and report_button: one event each, if anything changed.
input_report_rel(q, axis, value) ==
    IF value = 0 THEN q ELSE mouse_push_event(q, [code |-> axis, value |-> value])
report_button(q, old, new, b, code) ==
    IF bit(old, b) = bit(new, b) THEN q
    ELSE mouse_push_event(q, [code |-> code, value |-> bit(new, b)])

\* The queue after a whole packet; the sign of the second axis is turned.
reported(p) ==
    LET x == input_report_rel(mq, "X", i8(p[2]))
        y == input_report_rel(x, "Y", -i8(p[3]))
        l == report_button(y, buttons, p[1] % 8, 1, "LEFT")
        r == report_button(l, buttons, p[1] % 8, 2, "RIGHT")
    IN  report_button(r, buttons, p[1] % 8, 4, "MIDDLE")

overflowed(p) == bit(p[1], 64) = 1 \/ bit(p[1], 128) = 1

\* Fault: any byte may begin a packet.
skips_none(i, byte) == FALSE
\* A byte that cannot be the first of a packet is not taken for it.
skips(i, byte) == i = 0 /\ bit(byte, 8) = 0

\* One byte: the first of a packet must have bit 3, a full packet that did
\* not overflow is reported.
mouse_irq_handler ==
    LET byte  == Head(sending)
        p     == [packet EXCEPT ![packet_index + 1] = byte]
        whole == packet_index = 2
    IN  /\ sending # <<>>
        /\ sending' = Tail(sending)
        /\ IF skips(packet_index, byte) THEN UNCHANGED <<packet, packet_index, buttons, mq>>
           ELSE /\ packet' = p
                /\ packet_index' = IF whole THEN 0 ELSE packet_index + 1
                /\ IF whole /\ ~overflowed(p)
                   THEN mq' = reported(p) /\ buttons' = p[1] % 8
                   ELSE UNCHANGED <<mq, buttons>>
        /\ UNCHANGED <<last, since>>

mouse_read(n) == /\ mq' = read_events(mq, n)
                 /\ UNCHANGED <<sending, last, since, packet, packet_index, buttons>>

\* The mouse sends a packet when the last one is through; a byte may be lost
\* at any time.
unmistakable(dx, dy) == bit(dx, 8) = 0 /\ bit(dy, 8) = 0
moves(first, dx, dy) ==
    /\ sending = <<>>
    /\ sending' = <<first, dx, dy>> /\ last' = sending'
    /\ since' = CASE since # "out" -> "step"
                  [] since = "out" /\ unmistakable(dx, dy) -> "back"
                  [] OTHER -> "out"
    /\ UNCHANGED <<packet, packet_index, buttons, mq>>
lost == /\ sending # <<>> /\ sending' = Tail(sending)
        /\ since' = "out"
        /\ UNCHANGED <<last, packet, packet_index, buttons, mq>>

MouseNext ==
    \/ mouse_irq_handler
    \/ \E n \in 0 .. MOUSE_QUEUE_SIZE : mouse_read(n)
    \/ \E f \in FirstBytes, dx, dy \in Deltas : moves(f, dx, dy)
    \/ lost

MouseSpec == MouseInit /\ [][MouseNext]_mousevars
-----------------------------------------------------------------------------
\* The queue is a queue at every position of head and tail, also when one
\* packet fills it.
MouseIsQueue ==
    ActsAsQueue(mq, mouse_push_event, {NoMove, [NoMove EXCEPT !.code = "X"]},
                0 .. MOUSE_QUEUE_SIZE)

\* Whatever was lost and wherever the handler stands, one whole packet whose
\* movements do not look like first bytes puts it back to the start of a
\* packet, and from the next one on it has what the mouse sent, movements
\* that look like first bytes included, until another byte is lost.  Nothing
\* is claimed while no such packet has come: movements with bit 3 can keep
\* the handler out of step for as long as they come.
Resyncs ==
    sending = <<>> =>
    /\ since \in {"back", "step"} => packet_index = 0
    /\ since = "step" => packet = last /\ (~overflowed(last) => buttons = last[1] % 8)
=============================================================================
