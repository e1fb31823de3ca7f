------------------------------ MODULE Keyboard -------------------------------
(***************************************************************************)
(* The keyboard, from the bytes on the wire to read: the interrupt handler *)
(* of arch/x86_64/drivers/ps2/keyboard/keyboard.c, input_report_key of     *)
(* devices/input/ctrl.c and the queue of kbd.c.                            *)
(*                                                                         *)
(* A scan code is the name of its key.  System calls and interrupts run    *)
(* with interrupts off, so each is one action; between a key and its       *)
(* interrupt, and between the two bytes of an extended key, anything may   *)
(* happen.                                                                 *)
(***************************************************************************)
EXTENDS EventRing

CONSTANTS
    KBD_QUEUE_SIZE,
    KeySets,        \* sets of keys [make, ext] that are pressed in one behaviour
    MAX_WIRE,       \* bytes the keyboard keeps while interrupts are off
    KeySituations

\* both:   the left and the right key of a modifier are held together
\* repeat: caps lock is held until it repeats
AllKeySituations == {"both", "repeat"}

ASSUME KeyboardAssumption ==
    /\ KBD_QUEUE_SIZE \in Nat \ {0, 1}
    /\ MAX_WIRE \in Nat
    /\ KeySituations \subseteq AllKeySituations
    /\ \A K \in KeySets : K \subseteq [make : STRING, ext : BOOLEAN]
    \* No key has the code of the prefix, and caps lock comes without it.
    /\ \A K \in KeySets : \A k \in K : k.make # "E0" /\ (k.ext => k.make # "CAPS")

VARIABLES
    keys,       \* the keys in use, constant
    down,       \* the keys that are held
    light,      \* caps lock as the person at the keyboard counts it
    wire,       \* bytes the keyboard has still to send
    mods,       \* shift_held, ctrl_held, alt_held, caps_lock
    extended,   \* extended_key
    kq          \* the queue of kbd.c

keyvars == <<keys, down, light, wire, mods, extended, kq>>

KEY_NONE == "KEY_NONE"
SC_EXTENDED == [make |-> "E0", pressed |-> TRUE]
NoEvent == [code |-> KEY_NONE, value |-> 0, modifiers |-> {}]
no_mods == [shift |-> FALSE, ctrl |-> FALSE, alt |-> FALSE, caps |-> FALSE]

\* keyboard_init drops what the controller holds; kbd_module_init empties
\* the queue.
KeyboardInit ==
    /\ keys \in KeySets
    /\ down = {} /\ light = FALSE /\ wire = <<>>
    /\ mods = no_mods /\ extended = FALSE
    /\ kq = ring_init(KBD_QUEUE_SIZE, NoEvent)

\* The tables: codes of the cursor block exist only with the prefix.
sc_to_key(make) == IF make \in {"UP", "gap"} THEN KEY_NONE ELSE make
extended_to_key(make) ==
    CASE make = "LCTRL" -> "RCTRL"
      [] make = "LALT"  -> "RALT"
      [] make = "UP"    -> "UP"
      [] OTHER          -> KEY_NONE

build_modifiers(m) == {x \in {"shift", "ctrl", "alt", "caps"} : m[x]}

\* Fault: a full queue is not noticed.
kbd_push_event_full(q, ev) == push_event_full(q, ev)

kbd_push_event(q, ev) == push_event(q, ev)

\* input_report_key and input_dispatch: a code that is no mouse button.
input_report_key(q, code, pressed, m) ==
    kbd_push_event(q, [code |-> code, value |-> IF pressed THEN 1 ELSE 0,
                       modifiers |-> build_modifiers(m)])

\* The modifiers after a plain code, and after one with the prefix.
modified(m, make, pressed) ==
    CASE make \in {"LSHIFT", "RSHIFT"} -> [m EXCEPT !.shift = pressed]
      [] make = "LCTRL"                -> [m EXCEPT !.ctrl = pressed]
      [] make = "LALT"                 -> [m EXCEPT !.alt = pressed]
      [] make = "CAPS" /\ pressed      -> [m EXCEPT !.caps = ~m.caps]
      [] OTHER                         -> m
modified_extended(m, code, pressed) ==
    CASE code = "RCTRL" -> [m EXCEPT !.ctrl = pressed]
      [] code = "RALT"  -> [m EXCEPT !.alt = pressed]
      [] OTHER          -> m

keyboard_irq_handler ==
    LET sc   == Head(wire)
        code == IF extended THEN extended_to_key(sc.make) ELSE sc_to_key(sc.make)
        m    == IF extended THEN modified_extended(mods, code, sc.pressed)
                ELSE modified(mods, sc.make, sc.pressed)
    IN  /\ wire # <<>>
        /\ wire' = Tail(wire)
        /\ IF sc = SC_EXTENDED THEN extended' = TRUE /\ UNCHANGED <<mods, kq>>
           ELSE /\ extended' = FALSE
                /\ mods' = m
                /\ kq' = IF code = KEY_NONE THEN kq
                         ELSE input_report_key(kq, code, sc.pressed, m)
        /\ UNCHANGED <<keys, down, light>>

\* sys_read of descriptor 0: n events fit the caller's buffer.
kbd_read(n) == /\ kq' = read_events(kq, n)
               /\ UNCHANGED <<keys, down, light, wire, mods, extended>>
-----------------------------------------------------------------------------
\* The person and the keyboard.
bytes(k, pressed) ==
    (IF k.ext THEN <<SC_EXTENDED>> ELSE <<>>) \o <<[make |-> k.make, pressed |-> pressed]>>
sends(k, pressed) ==
    /\ Len(wire) + Len(bytes(k, pressed)) <= MAX_WIRE
    /\ wire' = wire \o bytes(k, pressed)
    /\ UNCHANGED <<keys, mods, extended, kq>>

Shifts == {"LSHIFT", "RSHIFT"}
same_modifier(k, x) == k.make = x.make \/ {k.make, x.make} = Shifts

press(k) == /\ k \notin down
            /\ (\E x \in down : same_modifier(k, x)) => "both" \in KeySituations
            /\ sends(k, TRUE)
            /\ down' = down \cup {k}
            /\ light' = IF k.make = "CAPS" THEN ~light ELSE light
lift(k) == k \in down /\ sends(k, FALSE) /\ down' = down \ {k} /\ UNCHANGED light
repeat(k) == /\ k \in down /\ (k.make = "CAPS" => "repeat" \in KeySituations)
             /\ sends(k, TRUE) /\ UNCHANGED <<down, light>>

KeyboardNext ==
    \/ keyboard_irq_handler
    \/ \E n \in 0 .. KBD_QUEUE_SIZE : kbd_read(n)
    \/ \E k \in keys : press(k) \/ lift(k) \/ repeat(k)

KeyboardSpec == KeyboardInit /\ [][KeyboardNext]_keyvars
-----------------------------------------------------------------------------
\* The array of kbd.c, filled by the interrupt and emptied by read, is a
\* queue that refuses the newest event when it is full, at every position of
\* head and tail.
KbdIsQueue ==
    ActsAsQueue(kq, kbd_push_event, {NoEvent, [NoEvent EXCEPT !.code = "A"]}, 0 .. KBD_QUEUE_SIZE)

\* Once every byte is handled the driver's modifiers are the keys that are
\* held, whichever came first and however their bytes mixed with others.
ModifiersTrue ==
    wire = <<>> =>
    /\ ~extended
    /\ mods = [shift |-> \E k \in down : k.make \in Shifts /\ ~k.ext,
               ctrl  |-> \E k \in down : k.make = "LCTRL",
               alt   |-> \E k \in down : k.make = "LALT",
               caps  |-> light]
=============================================================================
