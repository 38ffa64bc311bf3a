---------------------------- MODULE RegisterBank ----------------------------
(***************************************************************************)
(* What the register slave of the hardware test promises: a bank with one  *)
(* port to write and one to read.  A request takes effect as a whole at    *)
(* one moment before its response; a read that takes effect at the moment  *)
(* of a write sees the value before it.  An address that holds no register *)
(* is answered with an error and has no effect.  Reset empties the ports   *)
(* and clears the registers.  An address above the declared range of the   *)
(* decoder may count as any other.                                         *)
(***************************************************************************)
EXTENDS Naturals

CONSTANTS Addr, Data, Inputs, Registers, Top   \* Top: the end of the declared range

VARIABLES
    mem,             \* the registers
    write, wdone,    \* the request to write, and its response
    read, rdone      \* the request to read, and its response

vars == <<mem, write, wdone, read, rdone>>

None == [op |-> "none"]
Writes == [op : {"write"}, adr : Addr, dat : Data, strb : BOOLEAN]
Reads  == [op : {"read"}, adr : Addr]

Okay(d) == [resp |-> "OKAY", dat |-> d]
Error(d) == [resp |-> "SLVERR", dat |-> d]

Init ==
    /\ mem = [r \in Registers |-> 0]
    /\ write = None /\ wdone = None /\ read = None /\ rdone = None

\* The registers an address may stand for; none but itself in the declared range.
Meant(a) == IF a <= Top THEN {a} ELSE Addr

\* The write port.
Quiet == UNCHANGED <<mem, write, wdone>>
Write == write = None /\ write' \in Writes /\ UNCHANGED <<mem, wdone>>
TakeEffect ==
    /\ write # None /\ wdone = None
    /\ \E a \in Meant(write.adr) :
         IF a \in Registers
         THEN /\ mem' = IF write.strb THEN [mem EXCEPT ![a] = write.dat] ELSE mem
              /\ wdone' = Okay(0)
         ELSE wdone' = Error(0) /\ mem' = mem
    /\ UNCHANGED write
Written == wdone # None /\ write' = None /\ wdone' = None /\ UNCHANGED mem

\* The read port: inputs have any value, and what an error carries is nobody's.
Still == UNCHANGED <<read, rdone>>
Read == read = None /\ read' \in Reads /\ UNCHANGED rdone
Fetch ==
    /\ read # None /\ rdone = None
    /\ \/ \E a \in Meant(read.adr) \cap Registers : rdone' = Okay(mem[a])
       \/ \E a \in Meant(read.adr) \cap Inputs : \E d \in Data : rdone' = Okay(d)
       \/ \E a \in Meant(read.adr) \ (Inputs \cup Registers) : \E d \in Data : rdone' = Error(d)
       \/ read.adr > Top /\ \E d \in Data : rdone' = Error(d)
    /\ UNCHANGED read
Answered == rdone # None /\ read' = None /\ rdone' = None

Reset ==
    /\ mem' = [r \in Registers |-> 0]
    /\ write' = None /\ wdone' = None /\ read' = None /\ rdone' = None

Next ==
    \/ (Quiet \/ Write \/ TakeEffect \/ Written) /\ (Still \/ Read \/ Fetch \/ Answered)
    \/ Reset

Spec == Init /\ [][Next]_vars
=============================================================================
