--------------------------- MODULE MCBridgeSystem ---------------------------
(* Instances of BridgeSystem: two registers of one bit.                    *)
EXTENDS BridgeSystem

TwoAddresses == {0, 1}
TwoValues == {0, 1}
=============================================================================
