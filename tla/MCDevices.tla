------------------------------ MODULE MCDevices ------------------------------
(***************************************************************************)
(* Nine parts around the kernel's core that share no state: devices,       *)
(* console, interrupts, strings and streams.  Each behaviour is one of one *)
(* part, so that the states of the parts add up instead of multiplying.    *)
(***************************************************************************)
EXTENDS Input, Ps2Init, Console, PciScan, Irq, Text, CLibrary

VARIABLE part       \* the part that runs

allvars == <<part, keyvars, mousevars, ps2vars, convars, pcivars, irqvars, array, fmtvars,
             stdiovars>>

\* Modifiers with and without the prefix, caps lock with a cursor key, an
\* extended code that means nothing, and the two shift keys.
MCKey(make, ext) == [make |-> make, ext |-> ext]
MCKeySets == {{MCKey("LSHIFT", FALSE), MCKey("LALT", TRUE)},
              {MCKey("CAPS", FALSE), MCKey("UP", TRUE)},
              {MCKey("LCTRL", FALSE), MCKey("gap", TRUE)},
              {MCKey("LSHIFT", FALSE), MCKey("RSHIFT", FALSE)}}

MCDisplay(w, h) == [w |-> w, h |-> h]
MCDisplays == {MCDisplay(14, 9), MCDisplay(15, 11), MCDisplay(1, 7)}

\* Machines with up to two bridges below each other, buses numbered in a
\* circle, and devices whose function 0 is missing.
MCFn(b, d, f, kind, caps) ==
    [bus |-> b, dev |-> d, fn |-> f, multifunction |-> kind \in {"multi", "multi bridge"},
     bridge |-> kind \in {"bridge 0", "bridge 1", "bridge 2", "multi bridge"},
     secondary |-> CASE kind \in {"bridge 1", "multi bridge"} -> 1
                     [] kind = "bridge 2" -> 2 [] OTHER -> 0,
     caps |-> caps]
MCSlot(b, d, f, kind, caps) == IF kind = "absent" THEN {} ELSE {MCFn(b, d, f, kind, caps)}
MCMachines ==
    {MCSlot(0, 0, 0, a, <<1, 16>>) \cup MCSlot(0, 0, 1, b, <<16, 5>>) \cup MCSlot(0, 1, 0, c, <<>>)
     \cup MCSlot(1, 0, 0, d, <<>>) \cup MCSlot(1, 1, 0, "plain", <<16>>) \cup MCSlot(2, 0, 0, e, <<>>)
     \cup MCSlot(2, 0, 1, "plain", <<>>) :
        a \in {"absent", "plain", "multi", "multi bridge", "bridge 2"},
        b \in {"absent", "plain", "bridge 1"},
        c \in {"absent", "bridge 0", "bridge 1"},
        d \in {"plain", "bridge 2", "bridge 1"},
        e \in {"absent", "multi", "bridge 1"}}

MCDirective(c, z, w, p, a) == [conv |-> c, zero |-> z, width |-> w, precision |-> p, arg |-> a]
MCFormats ==
    {<<MCDirective("d", z, w, p, a)>> : z \in BOOLEAN, w \in {0, 3, 5}, p \in {-1, 0, 2, 4},
        a \in {-128, -127, -100, -99, -10, -9, -1, 0, 1, 9, 10, 99, 127}}
    \cup {<<MCDirective("s", FALSE, 0, p, a), MCDirective("%", FALSE, 0, -1, 0),
            MCDirective(c, TRUE, 3, -1, b)>> :
            p \in {-1, 0, 2}, a \in {0, 1, 3}, c \in {"x", "u", "p", "c"}, b \in {-1, 0, 15, 16, 100}}

\* A part that does not run has one state only.
Init ==
    /\ part \in {"keyboard", "mouse", "ps2", "console", "pci", "irq", "text", "format", "stdio"}
    /\ MouseInit
    /\ IF part = "keyboard" THEN KeyboardInit
       ELSE KeyboardInit /\ keys = {MCKey("CAPS", FALSE), MCKey("UP", TRUE)}
    /\ IF part = "ps2" THEN Ps2Start ELSE Ps2Start /\ cfg = AllOn /\ obuf = <<>>
    /\ IF part = "console" THEN ConsoleInit ELSE ConsoleInit /\ display = MCDisplay(1, 7)
    /\ IF part = "pci" THEN PciInit
       ELSE machine = {} /\ devices = <<>> /\ scanning = "bus 0" /\ index = 1 /\ pcie_count = 0
    /\ IF part = "irq" THEN IrqInit ELSE IrqInit /\ ~typed
    /\ IF part = "text" THEN TextInit ELSE array = <<>>
    /\ IF part = "format" THEN FormatInit ELSE format = <<>> /\ buffer = <<>> /\ returned = -1
    /\ IF part = "stdio" THEN StdioInit ELSE StdioInit /\ fsize = 0

Next ==
    /\ UNCHANGED part
    /\ \/ /\ part = "keyboard" /\ KeyboardNext
          /\ UNCHANGED <<mousevars, ps2vars, convars, pcivars, irqvars, array, fmtvars, stdiovars>>
       \/ /\ part = "mouse" /\ MouseNext
          /\ UNCHANGED <<keyvars, ps2vars, convars, pcivars, irqvars, array, fmtvars, stdiovars>>
       \/ /\ part = "ps2" /\ Ps2Next
          /\ UNCHANGED <<keyvars, mousevars, convars, pcivars, irqvars, array, fmtvars, stdiovars>>
       \/ /\ part = "console" /\ ConsoleNext
          /\ UNCHANGED <<keyvars, mousevars, ps2vars, pcivars, irqvars, array, fmtvars, stdiovars>>
       \/ /\ part = "pci" /\ PciNext
          /\ UNCHANGED <<keyvars, mousevars, ps2vars, convars, irqvars, array, fmtvars, stdiovars>>
       \/ /\ part = "irq" /\ IrqNext
          /\ UNCHANGED <<keyvars, mousevars, ps2vars, convars, pcivars, array, fmtvars, stdiovars>>
       \/ /\ part = "text" /\ TextNext
          /\ UNCHANGED <<keyvars, mousevars, ps2vars, convars, pcivars, irqvars, fmtvars, stdiovars>>
       \/ /\ part = "format" /\ FormatNext
          /\ UNCHANGED <<keyvars, mousevars, ps2vars, convars, pcivars, irqvars, array, stdiovars>>
       \/ /\ part = "stdio" /\ StdioNext
          /\ UNCHANGED <<keyvars, mousevars, ps2vars, convars, pcivars, irqvars, array, fmtvars>>

\* Nothing keeps ps2_mouse_init from going on: it is in the boot thread.
Ps2Turn ==
    /\ part = "ps2" /\ ps2_mouse_init
    /\ UNCHANGED <<part, keyvars, mousevars, convars, pcivars, irqvars, array, fmtvars, stdiovars>>

Spec == Init /\ [][Next]_allvars /\ WF_allvars(Ps2Turn)
=============================================================================
