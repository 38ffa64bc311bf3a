---------------------------- MODULE MCI2cDriver ----------------------------
(* Instances of I2cDriver: two-bit bytes, all of them in use.              *)
EXTENDS I2cDriver

Word(hi, lo) == [i \in 0 .. Width-1 |-> IF i = 0 THEN lo ELSE hi]

MCControlWrite == Word(1, 0)
MCControlRead  == Word(1, 1)
MCHigh  == Word(0, 0)
MCLow   == Word(0, 1)
MCValue == Word(1, 1)
=============================================================================
