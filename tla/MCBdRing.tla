------------------------------ MODULE MCBdRing ------------------------------
(* Instances of BdRing; the constants are numbers.                         *)
EXTENDS BdRing
=============================================================================
