--------------------------- MODULE MCI2cCore -------------------------------
(* The instance of I2cCore: two-bit bytes and the command register values  *)
(* the drivers write.                                                      *)
EXTENDS I2cCore

Word(hi, lo) == [i \in 0 .. Width-1 |-> IF i = 0 THEN lo ELSE hi]

Address    == [NoCommand EXCEPT !.sta = TRUE, !.wr = TRUE]
WriteByte  == [NoCommand EXCEPT !.wr = TRUE]
WriteLast  == [NoCommand EXCEPT !.wr = TRUE, !.sto = TRUE]
ReadByte   == [NoCommand EXCEPT !.rd = TRUE]
ReadLast   == [NoCommand EXCEPT !.rd = TRUE, !.ack = 1, !.sto = TRUE]
AddressRead == [NoCommand EXCEPT !.sta = TRUE, !.rd = TRUE, !.iack = TRUE]
StopBus    == [NoCommand EXCEPT !.sto = TRUE]

HostCommandSet ==
    {Address, WriteByte, WriteLast, ReadByte, ReadLast, AddressRead, StopBus}

OneWord == {Word(1, 0)}
=============================================================================
