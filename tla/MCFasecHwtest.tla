-------------------------- MODULE MCFasecHwtest --------------------------
(* Two inputs and two registers of one bit: the addresses of the pins, of  *)
(* a register, and one above the declared range of the decoder, which is   *)
(* the register's when its high bit is dropped and of none otherwise.      *)
EXTENDS FasecHwtest

ThreeAddresses == {1, 3, 11}
TwoValues == {0, 1}
=============================================================================
