-------------------------------- MODULE Irq ----------------------------------
(***************************************************************************)
(* Interrupts: arch/x86_64/exceptions/irq.c and timer.c, with the order in *)
(* which the boot thread brings the devices up.  An interrupt turns        *)
(* interrupts off until it returns, but the handler of the timer may       *)
(* switch to another thread and return only much later.                    *)
(*                                                                         *)
(* The two interrupt controllers and the keyboard are external.  A line is *)
(* raised by an edge; a controller delivers the lowest line raised that is *)
(* neither masked nor behind one in service, and may report line 7 of      *)
(* either without cause.  A byte of the keyboard raises line 1 only while  *)
(* its clock and its interrupt are on in the keyboard controller, which    *)
(* ps2_mouse_init turns off and, on some of its ways out, leaves off.      *)
(***************************************************************************)
EXTENDS Integers, FiniteSets

CONSTANT IrqThreads

ASSUME IrqAssumption == IrqThreads # {}

BootThread == CHOOSE t \in IrqThreads : TRUE

VARIABLES
    boot,         \* what the boot thread does next
    masked,         \* lines masked in the controllers
    raised,         \* lines raised and not yet delivered
    service,        \* lines in service
    irq_handlers,   \* lines with a handler
    running,        \* the thread on the CPU
    pc,             \* of each thread, off: before sti or in a system call,
                    \* run: interrupts are on, entered: in irq_handler before
                    \* irq_ack, acked: after it, return: the handler is done
    vector,         \* of each thread: the line it was interrupted by
    typed,          \* the keyboard's byte waits to be read
    kbd_clock,      \* the keyboard controller lets the keyboard send
    kbd_irq,        \* it raises line 1 for what the keyboard sends
    mouse_status    \* what ps2_mouse_init returned, "none" before

irqvars == <<boot, masked, raised, service, irq_handlers, running, pc, vector, typed,
             kbd_clock, kbd_irq, mouse_status>>
ctlvars == <<kbd_clock, kbd_irq, mouse_status>>

All == 0 .. 15
Devices == {0, 1, 12}

IrqInit ==
    /\ boot = "irq_install"
    /\ masked = All /\ raised = {} /\ service = {}
    /\ irq_handlers = {}
    /\ running = BootThread
    /\ pc = [t \in IrqThreads |-> IF t = BootThread THEN "off" ELSE "run"]
    /\ vector = [t \in IrqThreads |-> 0]
    /\ typed \in BOOLEAN
    /\ kbd_clock = TRUE /\ kbd_irq = TRUE /\ mouse_status = "none"

\* irq_set_mask(irq, 0): a line of the second controller needs line 2 too.
irq_unmask(m, irq) == IF irq >= 8 THEN m \ {irq, 2} ELSE m \ {irq}

irq_register_handler(irq) ==
    /\ irq_handlers' = irq_handlers \cup {irq}
    /\ masked' = irq_unmask(masked, irq)

\* irq_ack: each controller takes its most urgent line out of service.
eoi(s, lines) ==
    IF s \cap lines = {} THEN s
    ELSE s \ {CHOOSE k \in s \cap lines : \A j \in s \cap lines : k <= j}
irq_ack(s, irq) == eoi(IF irq >= 8 THEN eoi(s, 8 .. 15) ELSE s, 0 .. 7)
-----------------------------------------------------------------------------
\* The boot thread.  Setting up the controllers forgets what was raised;
\* timer and keyboard are unmasked at once.
booting(s, t) == boot = s /\ running = BootThread /\ pc[BootThread] \in {"off", "run"} /\ boot' = t

irq_install ==
    /\ booting("irq_install", "timer_init")
    /\ raised' = {} /\ service' = {}
    /\ irq_handlers' = {} /\ masked' = All \ {0, 1}
    /\ UNCHANGED <<running, pc, vector, typed, ctlvars>>

\* Ends with sti.
timer_init ==
    /\ booting("timer_init", "keyboard_init")
    /\ irq_register_handler(0)
    /\ pc' = [pc EXCEPT ![BootThread] = "run"]
    /\ UNCHANGED <<raised, service, running, vector, typed, ctlvars>>

\* keyboard_init empties the controller and registers; the line is open all
\* the time.
keyboard_init ==
    /\ \/ /\ booting("keyboard_init", "keyboard_register") /\ typed' = FALSE
          /\ UNCHANGED <<masked, irq_handlers>>
       \/ /\ booting("keyboard_register", "disable") /\ irq_register_handler(1)
          /\ UNCHANGED typed
    /\ UNCHANGED <<raised, service, running, pc, vector, ctlvars>>

\* ps2_mouse_init as far as the keyboard feels it; Ps2Init has its details.
\* Every command may find the controller busy for too long: kernel_devices_init
\* then takes note of the status and goes on.
returns(s, status) == booting(s, "up") /\ mouse_status' = status
goes_on(s, t) == booting(s, t) /\ UNCHANGED mouse_status

\* Both clocks off, the buffer emptied, and the configuration asked for (the
\* answer raises line 1 too) and written back without interrupts.
mouse_quiet ==
    /\ \/ /\ \/ goes_on("disable", "drain_output") /\ kbd_clock' = FALSE
             \/ returns("disable", "-1") /\ (kbd_clock' = FALSE \/ UNCHANGED kbd_clock)
          /\ UNCHANGED <<typed, raised, kbd_irq>>
       \/ /\ goes_on("drain_output", "ask") /\ typed' = FALSE
          /\ UNCHANGED <<raised, kbd_clock, kbd_irq>>
       \/ /\ \/ goes_on("ask", "config") /\ raised' = raised \cup {1}
             \/ returns("ask", "-2") /\ UNCHANGED raised
          /\ UNCHANGED <<typed, kbd_clock, kbd_irq>>
       \/ /\ goes_on("config", "quiet") \/ returns("config", "-2")
          /\ UNCHANGED <<typed, raised, kbd_clock, kbd_irq>>
       \/ /\ \/ goes_on("quiet", "enable_aux") /\ kbd_irq' = FALSE
             \/ returns("quiet", "-3") /\ UNCHANGED kbd_irq
          /\ UNCHANGED <<typed, raised, kbd_clock>>
    /\ UNCHANGED <<masked, irq_handlers>>

\* The mouse's clock and its two commands.  One that is not acknowledged turns
\* the keyboard's clock on again, if it can, and nothing else.
mouse_commands ==
    /\ \/ /\ goes_on("enable_aux", "commands") \/ returns("enable_aux", "-4")
          /\ UNCHANGED kbd_clock
       \/ goes_on("commands", "mouse_register") /\ UNCHANGED kbd_clock
       \/ /\ \E status \in {"-5", "-6"} : returns("commands", status)
          /\ kbd_clock' = TRUE \/ UNCHANGED kbd_clock
    /\ UNCHANGED <<typed, raised, kbd_irq, masked, irq_handlers>>

\* The handler, and the configuration with both clocks and both interrupts.
mouse_on ==
    /\ \/ /\ goes_on("mouse_register", "loud") /\ irq_register_handler(12)
          /\ UNCHANGED <<kbd_clock, kbd_irq>>
       \/ /\ \/ goes_on("loud", "enable") /\ kbd_clock' = TRUE /\ kbd_irq' = TRUE
             \/ returns("loud", "-7") /\ UNCHANGED <<kbd_clock, kbd_irq>>
          /\ UNCHANGED <<masked, irq_handlers>>
       \/ /\ returns("enable", "0") \/ returns("enable", "-8")
          /\ UNCHANGED <<kbd_clock, kbd_irq, masked, irq_handlers>>
    /\ UNCHANGED <<typed, raised>>

mouse_init ==
    /\ mouse_quiet \/ mouse_commands \/ mouse_on
    /\ UNCHANGED <<service, running, pc, vector>>
-----------------------------------------------------------------------------
\* Threads: in and out of system calls, where they may wait for each other.
syscall ==
    /\ boot = "up" /\ pc[running] \in {"run", "off"}
    /\ pc' = [pc EXCEPT ![running] = IF pc[running] = "run" THEN "off" ELSE "run"]
    /\ UNCHANGED <<boot, masked, raised, service, irq_handlers, running, vector, typed, ctlvars>>
sched_block ==
    /\ boot = "up" /\ pc[running] = "off"
    /\ running' \in IrqThreads
    /\ UNCHANGED <<boot, masked, raised, service, irq_handlers, pc, vector, typed, ctlvars>>

\* The handlers: the timer's may switch, the keyboard's reads what there is.
timer_handler ==
    /\ running' \in IF boot = "up" THEN IrqThreads ELSE {running}
    /\ UNCHANGED typed
handle(irq) ==
    \/ irq = 0 /\ irq \in irq_handlers /\ timer_handler
    \/ irq = 1 /\ irq \in irq_handlers /\ typed' = FALSE /\ UNCHANGED running
    \/ (irq \notin {0, 1} \/ irq \notin irq_handlers) /\ UNCHANGED <<typed, running>>

\* Fault: the interrupt is acknowledged when the handler has returned.
irq_handler_late ==
    LET t == running IN
    /\ \/ /\ pc[t] = "entered" /\ handle(vector[t])
          /\ pc' = [pc EXCEPT ![t] = "acked"] /\ UNCHANGED service
       \/ /\ pc[t] = "acked" /\ service' = irq_ack(service, vector[t])
          /\ pc' = [pc EXCEPT ![t] = "return"] /\ UNCHANGED <<typed, running>>
    /\ UNCHANGED <<boot, masked, raised, irq_handlers, vector, ctlvars>>

irq_handler ==
    LET t == running IN
    /\ \/ /\ pc[t] = "entered" /\ service' = irq_ack(service, vector[t])
          /\ pc' = [pc EXCEPT ![t] = "acked"] /\ UNCHANGED <<typed, running>>
       \/ /\ pc[t] = "acked" /\ handle(vector[t])
          /\ pc' = [pc EXCEPT ![t] = "return"] /\ UNCHANGED service
    /\ UNCHANGED <<boot, masked, raised, irq_handlers, vector, ctlvars>>

iretq == /\ pc[running] = "return"
         /\ pc' = [pc EXCEPT ![running] = "run"] /\ vector' = [vector EXCEPT ![running] = 0]
         /\ UNCHANGED <<boot, masked, raised, service, irq_handlers, running, typed, ctlvars>>
-----------------------------------------------------------------------------
\* The controllers.  Line 2 of the first stands for the second; a line waits
\* for those in service that are as urgent as itself or more.
way(irq) == IF irq >= 8 THEN {irq, 2} ELSE {irq}
waits(irq) == \/ \E k \in service : k < 8 /\ k <= (IF irq >= 8 THEN 2 ELSE irq)
              \/ irq >= 8 /\ \E k \in service : k >= 8 /\ k <= irq
deliverable(irq) == irq \in raised /\ way(irq) \cap masked = {} /\ ~waits(irq)

interrupts(irq) ==
    /\ pc[running] = "run"
    /\ pc' = [pc EXCEPT ![running] = "entered"] /\ vector' = [vector EXCEPT ![running] = irq]
    /\ UNCHANGED <<boot, masked, irq_handlers, running, typed, ctlvars>>
delivers(irq) ==
    /\ deliverable(irq)
    /\ \A k \in raised : deliverable(k) => k >= irq
    /\ interrupts(irq)
    /\ raised' = raised \ {irq} /\ service' = service \cup way(irq)
spurious ==
    \/ interrupts(7) /\ UNCHANGED <<raised, service>>
    \/ /\ 2 \notin masked /\ interrupts(15) /\ service' = service \cup {2} /\ UNCHANGED raised

\* A byte from the keyboard raises its line; the next one waits until it is
\* read.  The mouse raises its line once it has been set up.
types == /\ kbd_clock /\ ~typed /\ typed' = TRUE
         /\ raised' = IF kbd_irq THEN raised \cup {1} ELSE raised
         /\ UNCHANGED <<boot, masked, service, irq_handlers, running, pc, vector, ctlvars>>
rises(irq) == /\ irq = 12 => 12 \in irq_handlers /\ kbd_irq
              /\ raised' = raised \cup {irq}
              /\ UNCHANGED <<boot, masked, service, irq_handlers, running, pc, vector, typed, ctlvars>>

IrqNext ==
    \/ irq_install \/ timer_init \/ keyboard_init \/ mouse_init
    \/ syscall \/ sched_block \/ irq_handler \/ iretq
    \/ \E irq \in Devices : delivers(irq)
    \/ spurious \/ types \/ rises(0) \/ rises(12)

IrqSpec == IrqInit /\ [][IrqNext]_irqvars
-----------------------------------------------------------------------------
\* Whenever interrupts are on, none is still in service, however many threads
\* were switched away from inside the timer's handler: the next tick, or any
\* other line, is never held back.
NoneInService == pc[running] = "run" => service = {}

\* A line with a handler gets through, by way of the second controller too.
RegisteredGetsThrough == \A irq \in irq_handlers : way(irq) \cap masked = {}

\* Once the system is up no byte waits in the keyboard without an interrupt
\* on its way, although one that came between emptying the controller and
\* registering the handler was dropped.  Three ways out of ps2_mouse_init are
\* left out, for there the code does strand a byte: -1 comes before the buffer
\* is emptied again, -5 and -6 turn the keyboard's clock on and leave its
\* interrupt off.
KeyNotStuck ==
    boot = "up" /\ typed /\ mouse_status \notin {"-1", "-5", "-6"} =>
    1 \in raised \/ \E t \in IrqThreads : pc[t] \in {"entered", "acked"} /\ vector[t] = 1

\* No interrupt is shut out by one before it, by a mask or by a lost edge.
InterruptsGetThrough == NoneInService /\ RegisteredGetsThrough /\ KeyNotStuck
=============================================================================
