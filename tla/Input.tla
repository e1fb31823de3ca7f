-------------------------------- MODULE Input --------------------------------
(***************************************************************************)
(* The two input devices side by side.  They share no state, so what is    *)
(* promised of their readers is promised of each.                          *)
(***************************************************************************)
EXTENDS Keyboard, Mouse

\* What the keyboard and the mouse report reaches the readers of
\* kbd_read and mouse_read in order, once, and with the modifiers held.
InputKept == KbdIsQueue /\ ModifiersTrue /\ MouseIsQueue
=============================================================================
