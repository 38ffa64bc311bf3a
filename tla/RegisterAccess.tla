--------------------------- MODULE RegisterAccess ---------------------------
(***************************************************************************)
(* What a program gets when it reads or writes a register across the bus.  *)
(*                                                                         *)
(* A read takes effect once, as a whole, between its start and its answer, *)
(* and answers with the register's value at that moment.  So does a write  *)
(* whose data are offered with the address and do not change until the     *)
(* effect ("write"), except that the effect may come after the answer; it  *)
(* always comes before the next access.  Any other write ("loose") may     *)
(* change its own register to anything, any number of times, until the     *)
(* next access, and no other register.                                     *)
(***************************************************************************)
EXTENDS Naturals

CONSTANTS Addr, Data

VARIABLES
    mem,      \* the registers
    req,      \* the last request
    busy,     \* is its answer still out?
    effects,  \* how often it has taken effect
    got,      \* the value its effect has read
    answer    \* the last value answered

vars == <<mem, req, busy, effects, got, answer>>

None == [op |-> "none"]
Reads  == [op : {"read"}, adr : Addr]
Writes == [op : {"write"}, adr : Addr, dat : Data]
LooseWrites == [op : {"loose"}, adr : Addr]

Init ==
    /\ mem \in [Addr -> Data]
    /\ req = None /\ busy = FALSE
    /\ effects = 0
    /\ got \in Data /\ answer \in Data

-----------------------------------------------------------------------------
\* A loose write changes its register.
Struck ==
    /\ req.op = "loose"
    /\ got' = mem[req.adr]
    /\ \E d \in Data : mem' = [mem EXCEPT ![req.adr] = d]

\* The next access, once the last one is answered and its effect has come; a
\* loose write may strike for the last time.
Request ==
    /\ ~busy /\ (req.op = "write" => effects = 1)
    /\ req' \in Reads \cup Writes \cup LooseWrites
    /\ busy' = TRUE /\ effects' = 0
    /\ Struck \/ UNCHANGED <<mem, got>>
    /\ UNCHANGED answer

-----------------------------------------------------------------------------
\* What may happen to the registers.
PerformRead ==
    /\ req.op = "read" /\ effects = 0
    /\ effects' = 1 /\ got' = mem[req.adr]
    /\ UNCHANGED <<mem, req>>

PerformWrite ==
    /\ req.op = "write" /\ effects = 0
    /\ effects' = 1 /\ got' = mem[req.adr] /\ mem' = [mem EXCEPT ![req.adr] = req.dat]
    /\ UNCHANGED req

\* The data change before they are used: nothing more is promised of the write.
Loosen ==
    /\ req.op = "write" /\ effects = 0
    /\ req' = [op |-> "loose", adr |-> req.adr]
    /\ UNCHANGED <<mem, effects, got>>

Strike ==
    /\ Struck
    /\ effects' \in {1, 2}
    /\ UNCHANGED req

Act == PerformRead \/ PerformWrite \/ Loosen \/ Strike \/ UNCHANGED <<mem, req, effects, got>>

-----------------------------------------------------------------------------
\* The answer, which only a read keeps back until its effect.
Respond ==
    /\ busy /\ (req.op = "read" => effects = 1)
    /\ busy' = FALSE
    /\ answer' = IF req.op = "read" THEN got ELSE answer

Next == Request \/ (Act /\ (Respond \/ UNCHANGED <<busy, answer>>))

Spec == Init /\ [][Next]_vars
=============================================================================
