------------------------------- MODULE MCPs2 -------------------------------
EXTENDS Ps2

Plainly(code) == [code |-> code, extended |-> FALSE]

(* A, both Shifts, Caps Lock, and the right Ctrl with its prefix. *)
MCKeys == {Plainly(30), Plainly(42), Plainly(54), Plainly(58), [code |-> 29, extended |-> TRUE]}

(* 1, left Ctrl, the keypad's 0, and F12 behind the end of the table. *)
MCOddKeys == {Plainly(2), Plainly(29), Plainly(82), Plainly(88)}

MCStray == {"UNKNOWN", "LSHIFT"}
=============================================================================
