------------------------------- MODULE Ps2Init -------------------------------
(***************************************************************************)
(* Bringing up the mouse: ps2_mouse_init of                                *)
(* arch/x86_64/drivers/ps2/mouse/mouse.c against the 8042 controller.  It  *)
(* runs with interrupts on, after keyboard_init has registered its         *)
(* handler, so a byte that is meant for it can be taken by IRQ1.           *)
(*                                                                         *)
(* The controller is external: a configuration byte (two interrupt         *)
(* enables, two clocks) and an output buffer of one byte.  With its        *)
(* interrupt enabled, a byte that is not from the mouse raises IRQ1.       *)
(***************************************************************************)
EXTENDS Integers, Sequences

CONSTANT ATTEMPTS       \* how often write_mouse sends a byte

ASSUME Ps2InitAssumption == ATTEMPTS \in Nat \ {0}

VARIABLES
    stage,      \* what ps2_mouse_init does next
    cfg,        \* the controller's configuration
    config,     \* the copy ps2_mouse_init works on
    obuf,       \* the output buffer: <<>> or one byte [from, data]
    attempt,    \* write_mouse: attempts made
    streaming,  \* the mouse sends packets
    hooked,     \* the handler of IRQ12 is registered
    took        \* history: who sent what was last taken for a reply

ps2vars == <<stage, cfg, config, obuf, attempt, streaming, hooked, took>>

AllOn == [irq1 |-> TRUE, irq12 |-> TRUE, kbd |-> TRUE, aux |-> TRUE]

\* As the firmware leaves it; the keyboard works.
Ps2Start ==
    /\ stage = "disable"
    /\ cfg \in [irq1 : {TRUE}, irq12 : BOOLEAN, kbd : {TRUE}, aux : BOOLEAN]
    /\ config = AllOn
    /\ obuf \in {<<>>, <<[from |-> "kbd", data |-> "key"]>>}
    /\ attempt = 0 /\ streaming = FALSE /\ hooked = FALSE
    /\ took = "none"

Failed == {"-1", "-2", "-3", "-4", "-5", "-6", "-7", "-8"}
Returned == Failed \cup {"0"}

goes(s) == stage' = s

\* Every command may fail: wait_input_clear gives the controller a limited
\* time.  First both clocks are turned off.
disable ==
    /\ stage = "disable"
    /\ \/ /\ goes("drain") /\ cfg' = [cfg EXCEPT !.kbd = FALSE, !.aux = FALSE]
       \/ /\ goes("-1") /\ UNCHANGED cfg
       \/ /\ goes("-1") /\ cfg' = [cfg EXCEPT !.kbd = FALSE]
    /\ UNCHANGED <<config, obuf, attempt, streaming, hooked, took>>

\* Fault: what the buffer holds is left there.
drain_nothing ==
    /\ stage = "drain" /\ goes("ask") /\ UNCHANGED obuf
    /\ UNCHANGED <<cfg, config, attempt, streaming, hooked, took>>

drain_output ==
    /\ stage = "drain" /\ goes("ask") /\ obuf' = <<>>
    /\ UNCHANGED <<cfg, config, attempt, streaming, hooked, took>>

\* Command 0x20: the configuration comes back through the buffer.
ask_config ==
    /\ stage = "ask"
    /\ \/ goes("config") /\ obuf' = IF obuf = <<>> THEN <<[from |-> "ctl", data |-> "cfg"]>> ELSE obuf
       \/ goes("-2") /\ UNCHANGED obuf
    /\ UNCHANGED <<cfg, config, attempt, streaming, hooked, took>>

\* read_controller_byte takes whatever comes; nothing comes in time if IRQ1
\* was faster.
read_controller_byte ==
    /\ stage = "config"
    /\ \/ /\ obuf # <<>> /\ took' = obuf[1].from /\ obuf' = <<>>
          /\ config' = [cfg EXCEPT !.irq1 = FALSE, !.irq12 = FALSE]
          /\ goes("quiet")
       \/ /\ obuf = <<>> /\ goes("-2") /\ UNCHANGED <<config, obuf, took>>
    /\ UNCHANGED <<cfg, attempt, streaming, hooked>>

\* write_controller_config, first with both interrupts off.
write_quiet ==
    /\ stage = "quiet"
    /\ \/ goes("enable_aux") /\ cfg' = config
       \/ goes("-3") /\ UNCHANGED cfg
    /\ UNCHANGED <<config, obuf, attempt, streaming, hooked, took>>

enable_aux ==
    /\ stage = "enable_aux"
    /\ \/ goes("F6") /\ cfg' = [cfg EXCEPT !.aux = TRUE]
       \/ goes("-4") /\ UNCHANGED cfg
    /\ attempt' = 0
    /\ UNCHANGED <<config, obuf, streaming, hooked, took>>

\* write_mouse: the byte goes out and the mouse may answer.
Commands == {"F6", "F4"}
reply_to == [F6 |-> "F6 reply", F4 |-> "F4 reply"]
\* The stage after the command c has been acknowledged, or has failed.
after(c) == IF c = "F6" THEN "F4" ELSE "register"
err(c) == IF c = "F6" THEN "no F6" ELSE "no F4"

write_mouse(c) ==
    /\ stage = c
    /\ attempt' = attempt + 1
    /\ \/ goes(reply_to[c]) /\ \E a \in {"FA", "FE", "FC"} : obuf' = <<[from |-> "aux", data |-> a]>>
       \/ goes(reply_to[c]) /\ UNCHANGED obuf
       \/ goes(err(c)) /\ UNCHANGED obuf
    /\ UNCHANGED <<cfg, config, streaming, hooked, took>>

\* A byte of the keyboard is read and forgotten.
is_reply == obuf[1].from = "aux"

\* Fault: a mouse that asks for the byte again gets it for ever.
read_mouse_reply_forever(c) ==
    /\ stage = reply_to[c]
    /\ \/ /\ obuf # <<>> /\ obuf' = <<>> /\ took' = obuf[1].from
          /\ goes(IF obuf[1].data = "FA" THEN after(c) ELSE c)
          /\ attempt' = 0
          /\ streaming' = (streaming \/ (obuf[1].data = "FA" /\ c = "F4"))
       \/ /\ obuf = <<>> /\ goes(err(c)) /\ UNCHANGED <<obuf, attempt, streaming, took>>
    /\ UNCHANGED <<cfg, config, hooked>>

read_mouse_reply(c) ==
    /\ stage = reply_to[c]
    /\ \/ /\ obuf # <<>> /\ ~is_reply /\ obuf' = <<>>
          /\ UNCHANGED <<stage, attempt, streaming, took>>
       \/ /\ obuf # <<>> /\ is_reply /\ obuf' = <<>> /\ took' = obuf[1].from
          /\ LET a == obuf[1].data IN
             /\ goes(IF a = "FA" THEN after(c)
                     ELSE IF a = "FE" /\ attempt < ATTEMPTS THEN c ELSE err(c))
             /\ attempt' = IF a = "FA" THEN 0 ELSE attempt
             /\ streaming' = (streaming \/ (a = "FA" /\ c = "F4"))
       \/ /\ obuf = <<>> /\ goes(err(c)) /\ UNCHANGED <<obuf, attempt, streaming, took>>
    /\ UNCHANGED <<cfg, config, hooked>>

\* The mouse did not answer: the keyboard's clock is turned on again.
give_up ==
    /\ stage \in {"no F6", "no F4"}
    /\ goes(IF stage = "no F6" THEN "-5" ELSE "-6")
    /\ cfg' \in {[cfg EXCEPT !.kbd = TRUE], cfg}
    /\ UNCHANGED <<config, obuf, attempt, streaming, hooked, took>>

register ==
    /\ stage = "register" /\ goes("loud")
    /\ hooked' = TRUE
    /\ config' = AllOn
    /\ UNCHANGED <<cfg, obuf, attempt, streaming, took>>

write_loud ==
    /\ stage = "loud"
    /\ \/ goes("enable_kbd") /\ cfg' = config
       \/ goes("-7") /\ UNCHANGED cfg
    /\ UNCHANGED <<config, obuf, attempt, streaming, hooked, took>>

enable_both ==
    /\ stage = "enable_kbd"
    /\ \/ goes("0") /\ cfg' = [cfg EXCEPT !.kbd = TRUE, !.aux = TRUE]
       \/ goes("-8") /\ cfg' = [cfg EXCEPT !.kbd = TRUE]
       \/ goes("-8") /\ UNCHANGED cfg
    /\ UNCHANGED <<config, obuf, attempt, streaming, hooked, took>>
-----------------------------------------------------------------------------
\* Interrupts and devices.  The handler of IRQ1 does not ask where the byte
\* is from, that of IRQ12 does.
irq1 == /\ obuf # <<>> /\ obuf[1].from # "aux" /\ cfg.irq1
        /\ obuf' = <<>>
        /\ UNCHANGED <<stage, cfg, config, attempt, streaming, hooked, took>>
irq12 == /\ obuf # <<>> /\ obuf[1].from = "aux" /\ cfg.irq12 /\ hooked
         /\ obuf' = <<>>
         /\ UNCHANGED <<stage, cfg, config, attempt, streaming, hooked, took>>
key == /\ cfg.kbd /\ obuf = <<>> /\ obuf' = <<[from |-> "kbd", data |-> "key"]>>
       /\ UNCHANGED <<stage, cfg, config, attempt, streaming, hooked, took>>
move == /\ streaming /\ cfg.aux /\ obuf = <<>> /\ obuf' = <<[from |-> "aux", data |-> "move"]>>
        /\ UNCHANGED <<stage, cfg, config, attempt, streaming, hooked, took>>

ps2_mouse_init ==
    \/ disable \/ drain_output \/ ask_config \/ read_controller_byte
    \/ write_quiet \/ enable_aux
    \/ \E c \in Commands : write_mouse(c) \/ read_mouse_reply(c)
    \/ give_up \/ register \/ write_loud \/ enable_both

Ps2Next == ps2_mouse_init \/ irq1 \/ irq12 \/ key \/ move

Ps2Spec == Ps2Start /\ [][Ps2Next]_ps2vars /\ WF_ps2vars(ps2_mouse_init)
-----------------------------------------------------------------------------
\* mouse.c: "Configure with both ports quiet so command replies cannot be
\* confused."  What is taken for the configuration is the controller's, what
\* is taken for an answer is the mouse's.
RepliesNotConfused ==
    /\ stage = "quiet" => took = "ctl"
    /\ stage \in {"F4", "register"} => took = "aux"

\* Success is success: both clocks run, both interrupts are on, the mouse
\* sends and its handler is there.
BothPortsServed ==
    stage = "0" =>
    cfg = AllOn /\ hooked /\ streaming

\* ps2_mouse_init takes no answer for another and leaves both ports at work.
Ps2Sound == RepliesNotConfused /\ BothPortsServed

\* mouse.c: "IRQ1/IRQ12 stay off during device commands."  When the mouse
\* has been given up and the keyboard's clock is back on, so is its interrupt.
KeyboardSurvives == stage \in {"-5", "-6"} /\ cfg.kbd => cfg.irq1

\* Once begun, whatever the mouse answers or does not answer, ps2_mouse_init
\* returns.
Ps2InitEnds == stage = "drain" ~> stage \in Returned
=============================================================================
