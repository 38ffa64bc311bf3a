--------------------------- MODULE MCDmaDriver ---------------------------
(* Two channels, a command for the driver to program and one with a program*)
(* of its own (for which the driver can prepare one, too).                 *)
EXTENDS DmaDriver

CONSTANTS d1, u1

TwoCommands == {d1, u1}
OneProgram == {u1}
CallsOnly == {"call"}
=============================================================================
