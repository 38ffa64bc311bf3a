------------------------------ MODULE I2cDriver ------------------------------
(***************************************************************************)
(* i2c_tests.c on top of the I2C core: the program's register accesses,    *)
(* its polling loop, its acknowledge test and its aborts, against a core   *)
(* that moves one clock at a time and a slave that answers as it likes.    *)
(*                                                                         *)
(* The processor is asynchronous to the core: any number of clocks may     *)
(* pass between two of its accesses (never fewer than two, as iack_o is    *)
(* never '1' in successive clocks).  Only one of the two identical cores   *)
(* is modelled; the program uses one at a time.                            *)
(***************************************************************************)
EXTENDS I2cMasterTop, Sequences

CONSTANTS
    ControlWrite, ControlRead,   \* slave<<1 | 0 and slave<<1 | 1
    High, Low, Value,            \* register address bytes, byte to be written
    TIMEOUT,   \* polls before waitTransfer gives up
    Patient    \* is the core at rest again before main starts its next call?

ASSUME DriverAssumption ==
    /\ {ControlWrite, ControlRead, High, Low, Value} \subseteq Byte
    /\ TIMEOUT \in Nat \ {0}
    /\ Patient \in BOOLEAN

VARIABLES
    pc,       \* the program's next register access
    proc,     \* the procedure it is in
    k,        \* the transfer of that procedure
    polls,    \* i of waitTransfer
    result,   \* what the last procedure returned
    wire,     \* history: the bus since the last command of a procedure
    held      \* history: a START has been sent and no STOP since

progVars == <<pc, proc, k, polls, result>>
vars == <<coreVars, progVars, wire, held>>

-----------------------------------------------------------------------------
(* The procedures: one entry per byte on the bus.  main calls the first;   *)
(* its calls of the other two are commented out.                           *)

Send(w, command) == [loads |-> TRUE, word |-> w, cr |-> command]

AddressCommand == [NoCommand EXCEPT !.sta = TRUE, !.wr = TRUE]
WriteCommand   == [NoCommand EXCEPT !.wr = TRUE]
LastCommand    == [NoCommand EXCEPT !.wr = TRUE, !.sto = TRUE]

\* Mutant: the master acknowledges the last byte it reads.
ReadCommand_Ack == [NoCommand EXCEPT !.rd = TRUE, !.sto = TRUE]

ReadCommand    == [NoCommand EXCEPT !.rd = TRUE, !.ack = 1, !.sto = TRUE]
StopCommand    == [NoCommand EXCEPT !.sto = TRUE]

Receive == [loads |-> FALSE, word |-> Zeros, cr |-> ReadCommand]

readReg_24AA64 ==
    << Send(ControlWrite, AddressCommand), Send(High, WriteCommand), Send(Low, WriteCommand),
       Send(ControlRead, AddressCommand), Receive >>

readReg_mcp23017 ==
    << Send(ControlWrite, AddressCommand), Send(Low, WriteCommand),
       Send(ControlRead, AddressCommand), Receive >>

writeReg_mcp23017 ==
    << Send(ControlWrite, AddressCommand), Send(Low, WriteCommand),
       Send(ControlWrite, AddressCommand), Send(Value, LastCommand) >>

Procedures == {readReg_24AA64, readReg_mcp23017, writeReg_mcp23017}

Transfer == proc[k]

-----------------------------------------------------------------------------
(* What a register access of the program does to the core. *)

Reads == iack_o /\ Clock /\ NoWrite

Writes(access) == Clock /\ access

Goto(label) == pc' = label /\ UNCHANGED <<proc, k, polls, result>>

Return(r) == pc' = "menu" /\ result' = r /\ UNCHANGED <<proc, k, polls>>

Code(kind) == [kind |-> kind, byte |-> Zeros]

\* The bus as seen by an observer, bit by bit as they complete.
Symbol ==
    CASE bit_cmd = "START" -> "S"
      [] bit_cmd = "STOP"  -> "P"
      [] bit_cmd = "WRITE" -> IF core_txd = 1 THEN "1" ELSE "0"
      [] OTHER             -> IF core_rxd = 1 THEN "1" ELSE "0"

Observe(seen) ==
    /\ wire' = IF core_ack' THEN Append(seen, Symbol) ELSE seen
    /\ held' = IF i2c_al THEN FALSE
               ELSE IF core_ack' /\ bit_cmd \in {"START", "STOP"} THEN bit_cmd = "START"
               ELSE held

-----------------------------------------------------------------------------
\* The core runs while the program computes, prints, or waits for the bridge.
Idle ==
    /\ ~iack_o
    /\ Clock /\ NoWrite
    /\ pc = "menu" => ~iack_o'
    /\ Observe(wire)
    /\ UNCHANGED progVars

\* OCI2C_init
InitCheck ==
    /\ pc = "check" /\ Reads
    /\ Goto(IF core_en THEN "disable" ELSE "prescale low")
    /\ Observe(wire)

InitDisable ==
    /\ pc = "disable" /\ Writes(WriteCTR(FALSE, FALSE))
    /\ Goto("prescale low")
    /\ Observe(wire)

InitPrescale ==
    /\ pc \in {"prescale low", "prescale high"} /\ Writes(WritePRER)
    /\ Goto(IF pc = "prescale low" THEN "prescale high" ELSE "enable")
    /\ Observe(wire)

InitEnable ==
    /\ pc = "enable" /\ Writes(WriteCTR(TRUE, FALSE))
    /\ Goto("menu")
    /\ Observe(wire)

\* main: a procedure is called, or the program exits and is run again.
Call ==
    /\ pc = "menu" /\ ~iack_o
    /\ Patient => AtRest
    /\ Clock /\ NoWrite /\ ~iack_o'
    /\ proc' \in Procedures /\ k' = 1
    /\ pc' = "load"
    /\ UNCHANGED <<polls, result>>
    /\ Observe(<<>>)

Rerun ==
    /\ pc = "menu" /\ ~iack_o
    /\ AtRest
    /\ Clock /\ NoWrite /\ ~iack_o'
    /\ Goto("check")
    /\ Observe(wire)

LoadTXR ==
    /\ pc = "load" /\ Writes(WriteTXR(Transfer.word))
    /\ Goto("command")
    /\ Observe(wire)

Command ==
    /\ pc = "command" /\ Writes(WriteCR(Transfer.cr))
    /\ pc' = "poll" /\ polls' = TIMEOUT
    /\ UNCHANGED <<proc, k, result>>
    /\ Observe(<<>>)

\* waitTransfer
PollDone ==
    /\ pc = "poll" /\ ~tip /\ Reads
    /\ Goto(IF Transfer.cr.rd THEN "receive" ELSE "acknowledge")
    /\ Observe(wire)

\* Mutant: the loop counter is not decremented.
PollAgain_Stuck ==
    /\ pc = "poll" /\ tip /\ Reads
    /\ polls > 1
    /\ UNCHANGED progVars
    /\ Observe(wire)

PollAgain ==
    /\ pc = "poll" /\ tip /\ Reads
    /\ polls > 1
    /\ polls' = polls - 1
    /\ UNCHANGED <<pc, proc, k, result>>
    /\ Observe(wire)

PollTimeout ==
    /\ pc = "poll" /\ tip /\ Reads
    /\ polls = 1
    /\ Goto("abort timeout")
    /\ Observe(wire)

AbortTimeout ==
    /\ pc = "abort timeout" /\ Writes(WriteCR(StopCommand))
    /\ Return(Code("timeout"))
    /\ Observe(wire)

\* waitAck
Acked ==
    /\ pc = "acknowledge" /\ rxack = 0 /\ Reads
    /\ IF k = Len(proc)
       THEN Return(Code("written"))
       ELSE /\ k' = k + 1
            /\ pc' = IF proc[k+1].loads THEN "load" ELSE "command"
            /\ UNCHANGED <<proc, polls, result>>
    /\ Observe(wire)

Refused ==
    /\ pc = "acknowledge" /\ rxack = 1 /\ Reads
    /\ Goto("abort refused")
    /\ Observe(wire)

\* Mutant: the program forgets to stop the transfer the slave has refused.
AbortRefused_NoStop ==
    /\ pc = "abort refused" /\ Reads
    /\ Return(Code("refused"))
    /\ Observe(wire)

AbortRefused ==
    /\ pc = "abort refused" /\ Writes(WriteCR(StopCommand))
    /\ Return(Code("refused"))
    /\ Observe(wire)

\* The byte is in RXR, the shift register of the byte controller.
ReceiveRXR ==
    /\ pc = "receive" /\ Reads
    /\ Return([kind |-> "data", byte |-> sr])
    /\ Observe(wire)

Init ==
    /\ CoreInit
    /\ pc = "check" /\ proc = <<>> /\ k = 1 /\ polls = TIMEOUT
    /\ result = Code("none")
    /\ wire = <<>> /\ held = FALSE

Access ==
    \/ InitCheck \/ InitDisable \/ InitPrescale \/ InitEnable
    \/ LoadTXR \/ Command
    \/ PollDone \/ PollAgain \/ PollTimeout \/ AbortTimeout
    \/ Acked \/ Refused \/ AbortRefused
    \/ ReceiveRXR

Next == Idle \/ Call \/ Rerun \/ Access

Spec == Init /\ [][Next]_vars

\* The processor goes on and the bridge answers; nothing is asked of the slave.
FairSpec == Spec /\ WF_vars(Idle /\ iack_o') /\ WF_vars(Access)

-----------------------------------------------------------------------------
(* Properties *)

Bits(word) == [i \in 1 .. Width |-> IF word[Width - i] = 1 THEN "1" ELSE "0"]

Framed(transfer, word, ack) ==
    (IF transfer.cr.sta THEN <<"S">> ELSE <<>>)
      \o Bits(word) \o <<ack>>
      \o (IF transfer.cr.sto THEN <<"P">> ELSE <<>>)

\* The bus has carried exactly the transfer the program asked for.
OnTheBus(transfer) ==
    IF transfer.cr.rd
    THEN \E word \in Byte : wire = Framed(transfer, word, "1")
    ELSE \E ack \in {"0", "1"} : wire = Framed(transfer, transfer.word, ack)

\* waitTransfer returns 0 only when the transfer is on the bus as asked for.
SuccessMeansDone ==
    [][pc = "poll" /\ pc' \in {"acknowledge", "receive"} => OnTheBus(Transfer)]_vars

\* waitAck answers what the slave has just answered, not something older.
AnswerIsFresh ==
    [][pc = "acknowledge" /\ pc' # pc =>
         LET answer == wire[Len(wire) - One(Transfer.cr.sto)]
         IN  (pc' = "abort refused") = (answer = "1")]_vars

\* A byte returned as data is the byte the slave put on the bus, and the bus
\* has been given a NACK and a STOP after it.
DataIsGenuine ==
    pc = "menu" /\ result.kind = "data" => wire = Framed(Receive, result.byte, "1")

\* Whatever a call reports, except a timeout, its STOP is on the bus when the
\* core has come to rest: success and refusal both leave the bus free, also
\* after an earlier call that has left it held.
BusReleased == pc = "menu" /\ AtRest /\ result.kind # "timeout" => ~held

\* A command is taken from the program only when the one before is finished.
TakenWhenFinished == [][pc = "command" /\ pc' = "poll" => AtRest]_vars

\* Every call returns, even if a slave stretches SCL for ever.
CallReturns == pc # "menu" ~> pc = "menu"
=============================================================================
