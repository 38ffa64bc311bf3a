--------------------------- MODULE MCI2cBitSystem ---------------------------
(* Instances of I2cBitSystem: the prescale values are in the .cfg files.   *)
EXTENDS I2cBitSystem
=============================================================================
