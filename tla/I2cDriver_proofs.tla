--------------------------- MODULE I2cDriver_proofs ---------------------------
(***************************************************************************)
(* Theorems about the program on the core, for every byte width, every     *)
(* address and data byte and every TIMEOUT: a lone master whose calls are  *)
(* spaced out (Alone).  Transfers may outlast the polls.                   *)
(***************************************************************************)
EXTENDS I2cDriver, I2cMasterTop_proofs, SequenceTheorems

\* No other master on the bus, and main waits for the core before a call.
Alone == ~MultiMaster /\ Patient

InitPcs == {"check", "disable", "prescale low", "prescale high", "enable"}
Calling == {"load", "command", "poll", "abort timeout", "acknowledge", "abort refused", "receive"}
Symbols == {"S", "P", "0", "1"}

Digit(b) == IF b = 1 THEN "1" ELSE "0"

-----------------------------------------------------------------------------
(* The inductive invariant *)

\* Where the program is, and which transfer it is at.
Places ==
    /\ pc \in InitPcs \cup {"menu"} \cup Calling
    /\ pc \in Calling => proc \in Procedures /\ k \in 1 .. Len(proc)
    /\ pc \notin InitPcs => core_en
    /\ pc = "load" => Transfer.loads
    /\ pc \in {"command", "poll"} /\ Transfer.loads => txr = Transfer.word
    /\ pc = "acknowledge" => ~Transfer.cr.rd
    /\ pc = "receive" => Transfer.cr.rd
    /\ wire \in Seq(Symbols)

Kinds == result.kind \in {"none", "written", "data", "refused", "timeout"}

\* The core without another master, and what is left of a byte in state idle.
Quiet ==
    /\ ~i2c_al
    /\ bit_cmd = "NOP" => stage = 0
    /\ c_state = "idle" => ~ld /\ ~shift
    /\ c_state = "idle" /\ ~host_ack => rxack = ack_out

\* Outside waitTransfer and its abort no command runs.
Rests ==
    pc \in InitPcs \cup {"load", "command", "acknowledge", "abort refused", "receive"} => AtRest

\* CR and TIP tell the polls what the core does.
Follows ==
    /\ cr.sto => Busy
    /\ Busy => cr = Transfer.cr /\ (~tip => ~iack_o)
    /\ c_state # "idle" \/ host_ack => Busy /\ tip

start == One(Transfer.cr.sta)

\* The bus has carried the START, if any, and n bits of word.
Sent(n, word) ==
    /\ Transfer.cr.sta => wire[1] = "S"
    /\ \A i \in 1 .. n : wire[start + i] = Digit(word[Width - i])

\* The bus has carried the START, if any, and the m bits received so far.
Received(m) ==
    /\ Transfer.cr.sta => wire[1] = "S"
    /\ \A i \in 1 .. m : wire[start + i] = Digit(sr[m - i])

\* The byte and its acknowledge, which the master sends for a byte it reads.
ByteAndAck ==
    IF Transfer.cr.rd THEN Sent(Width, sr) /\ wire[start + Width + 1] = "1"
    ELSE Sent(Width, Transfer.word) /\ wire[start + Width + 1] = Digit(ack_out)

\* The transfer is on the bus, and a STOP has released it.
Complete ==
    /\ Len(wire) = start + Width + 1 + One(Transfer.cr.sto)
    /\ ByteAndAck
    /\ Transfer.cr.sto => wire[start + Width + 2] = "P" /\ ~held

Before == c_state = "idle" /\ ~host_ack /\ Busy => wire = <<>>

InStart ==
    c_state = "start" => Transfer.cr.sta /\ wire = IF core_ack THEN <<"S">> ELSE <<>>

\* n bits are on the bus, the rest is in the top of the shift register.
InWrite ==
    c_state = "write" =>
      LET n == Width - 1 - Remaining + One(core_ack)
          shifted == Width - 1 - dcnt
      IN  /\ ~Transfer.cr.rd
          /\ ld \/ \A j \in shifted .. Width-1 : sr[j] = Transfer.word[j - shifted]
          /\ Len(wire) = start + n
          /\ Sent(n, Transfer.word)

\* n bits are on the bus, m of them in the shift register, the last perhaps in dout.
InRead ==
    c_state = "read" =>
      LET n == Width - 1 - Remaining + One(core_ack)
          m == IF ld THEN 0 ELSE Width - 1 - dcnt
      IN  /\ Transfer.cr.rd
          /\ Len(wire) = start + n
          /\ Received(m)
          /\ n = m + 1 => wire[start + n] = Digit(core_rxd)

InAck ==
    c_state = "ack" =>
      /\ ~ld
      /\ Len(wire) = start + Width + One(core_ack)
      /\ Transfer.cr.rd <=> core_cmd = "WRITE"
      /\ IF Transfer.cr.rd
         THEN /\ core_txd = 1
              /\ IF shift
                 THEN dcnt = 0 /\ Received(Width - 1) /\ wire[start + Width] = Digit(core_rxd)
                 ELSE Sent(Width, sr)
              /\ core_ack => wire[start + Width + 1] = "1"
         ELSE /\ Sent(Width, Transfer.word)
              /\ core_ack => wire[start + Width + 1] = Digit(core_rxd)

InStop ==
    c_state = "stop" =>
      /\ ~ld /\ ~shift
      /\ Transfer.cr.sto
      /\ Len(wire) = start + Width + 1 + One(core_ack)
      /\ ByteAndAck
      /\ core_ack => wire[start + Width + 2] = "P" /\ ~held

After == c_state = "idle" /\ (host_ack \/ ~Busy) => Complete

Spelled == Before /\ InStart /\ InWrite /\ InRead /\ InAck /\ InStop /\ After

Polls == pc = "poll" => Follows /\ Spelled

Judges == pc \in {"acknowledge", "receive"} => Complete

\* The STOP of waitAck, from the write to CR until the bus is free.
Stopping ==
    /\ c_state \in {"idle", "stop"}
    /\ ~cr.sta /\ ~cr.rd /\ ~cr.wr
    /\ c_state = "stop" /\ core_ack => ~held
    /\ c_state = "idle" /\ (host_ack \/ ~cr.sto) => ~held

Returned ==
    pc \in InitPcs \cup {"menu"} =>
      /\ result.kind \in {"none", "written", "data"} => AtRest /\ ~held
      /\ result.kind = "data" => wire = Framed(Receive, result.byte, "1")
      /\ result.kind = "refused" => Stopping

ProgramInv == CoreInv /\ Driven /\ Places /\ Kinds /\ Quiet /\ Rests /\ Polls /\ Judges /\ Returned
-----------------------------------------------------------------------------
(* The procedures *)

LEMMA Transfers ==
    ASSUME proc \in Procedures, k \in 1 .. Len(proc)
    PROVE  /\ Transfer.cr \in CommandRegister /\ ~Transfer.cr.iack
           /\ Transfer.word \in Byte /\ Transfer.loads \in BOOLEAN
           /\ Transfer.cr.rd \/ Transfer.cr.wr
           /\ ~Transfer.cr.rd => Transfer.loads
           /\ Transfer.cr.rd => Transfer = Receive /\ Transfer.cr.ack = 1 /\ Transfer.cr.sto
           /\ k = Len(proc) => Transfer.cr.sto
<1> DEFINE Sends == {Send(w, command) : w \in {ControlWrite, ControlRead, High, Low, Value},
                                        command \in {AddressCommand, WriteCommand, LastCommand}}
<1>1. /\ AddressCommand \in CommandRegister /\ WriteCommand \in CommandRegister
      /\ LastCommand \in CommandRegister /\ ReadCommand \in CommandRegister
    BY DEF AddressCommand, WriteCommand, LastCommand, ReadCommand, NoCommand, CommandRegister, Bit
<1>2. Transfer \in Sends \cup {Receive} /\ (k = Len(proc) => Transfer.cr.sto)
    <2>1. Send(Value, LastCommand).cr.sto /\ Receive.cr.sto
        BY DEF Send, LastCommand, Receive, ReadCommand, NoCommand
    <2>2. CASE proc = readReg_24AA64
        <3>1. /\ Len(proc) = 5
              /\ proc[1] = Send(ControlWrite, AddressCommand) /\ proc[2] = Send(High, WriteCommand)
              /\ proc[3] = Send(Low, WriteCommand) /\ proc[4] = Send(ControlRead, AddressCommand)
              /\ proc[5] = Receive
            BY <2>2 DEF readReg_24AA64
        <3> QED
            BY <2>1, <3>1 DEF Transfer
    <2>3. CASE proc = readReg_mcp23017
        <3>1. /\ Len(proc) = 4
              /\ proc[1] = Send(ControlWrite, AddressCommand) /\ proc[2] = Send(Low, WriteCommand)
              /\ proc[3] = Send(ControlRead, AddressCommand) /\ proc[4] = Receive
            BY <2>3 DEF readReg_mcp23017
        <3> QED
            BY <2>1, <3>1 DEF Transfer
    <2>4. CASE proc = writeReg_mcp23017
        <3>1. /\ Len(proc) = 4
              /\ proc[1] = Send(ControlWrite, AddressCommand) /\ proc[2] = Send(Low, WriteCommand)
              /\ proc[3] = Send(ControlWrite, AddressCommand) /\ proc[4] = Send(Value, LastCommand)
            BY <2>4 DEF writeReg_mcp23017
        <3> QED
            BY <2>1, <3>1 DEF Transfer
    <2> QED
        BY <2>2, <2>3, <2>4 DEF Procedures
<1>3. CASE Transfer = Receive
    BY <1>1, <1>2, <1>3, WidthAssumption DEF Receive, ReadCommand, NoCommand, Zeros, Byte, Bit
<1>4. CASE Transfer \in Sends
    <2>1. PICK w \in {ControlWrite, ControlRead, High, Low, Value},
               command \in {AddressCommand, WriteCommand, LastCommand} :
                 Transfer = Send(w, command)
        BY <1>4
    <2>2. ~command.rd /\ command.wr /\ ~command.iack
        BY DEF AddressCommand, WriteCommand, LastCommand, NoCommand
    <2> QED
        BY <1>1, <1>2, <2>1, <2>2, DriverAssumption DEF Send
<1> QED
    BY <1>2, <1>3, <1>4

\* What the program writes is a register value.
LEMMA ProgramTyped ==
    ASSUME CoreTypes, Places, Next
    PROVE  /\ Clock
           /\ core_en' \in BOOLEAN /\ ien' \in BOOLEAN /\ txr' \in Byte /\ cr' \in CommandRegister
<1>0. core_en \in BOOLEAN /\ ien \in BOOLEAN /\ txr \in Byte /\ cr \in CommandRegister
    BY DEF CoreTypes
<1>1. StopCommand \in CommandRegister
    BY DEF StopCommand, NoCommand, CommandRegister, Bit
<1>2. pc \in {"load", "command"} => Transfer.cr \in CommandRegister /\ Transfer.word \in Byte
    BY Transfers DEF Places, Calling
<1>3. CASE Clock /\ NoWrite
    BY <1>0, <1>3, ClearedTyped DEF NoWrite
<1>4. CASE InitDisable \/ InitPrescale \/ InitEnable
    BY <1>0, <1>4 DEF InitDisable, InitPrescale, InitEnable, Writes, WriteCTR, WritePRER
<1>5. CASE LoadTXR
    BY <1>0, <1>2, <1>5 DEF LoadTXR, Writes, WriteTXR
<1>6. CASE Command \/ AbortTimeout \/ AbortRefused
    BY <1>0, <1>1, <1>2, <1>6 DEF Command, AbortTimeout, AbortRefused, Writes, WriteCR
<1> QED
    BY <1>3, <1>4, <1>5, <1>6 DEF Next, Access, Idle, Call, Rerun, InitCheck, PollDone, PollAgain,
       PollTimeout, Acked, Refused, ReceiveRXR, Reads

-----------------------------------------------------------------------------
(* The core without another master *)

LEMMA QuietKept ==
    ASSUME Alone, CoreInv, Quiet, Clock
    PROVE  /\ Quiet'
           /\ bit_cmd = "NOP" \/ bit_cmd' = "NOP" => core_rxd' = core_rxd
<1>1. CoreTypes /\ Handshake /\ BitClk /\ ByteClk(cr, txr) /\ ~i2c_al /\ rxack' = ack_out
    BY DEF CoreInv, Clock, Quiet, StatusBits
<1>2. ~i2c_al'
    BY <1>1 DEF Alone, BitClk, Arbitrate, Contended
<1>3. bit_cmd' = "NOP" => stage' = 0
    BY <1>1 DEF Quiet, Handshake, BitClk, BitIdle, BitAccept, BitWork, BitFinish, BitLost
<1>4. bit_cmd = "NOP" \/ bit_cmd' = "NOP" => core_rxd' = core_rxd
    BY <1>1 DEF Quiet, Alone, BitClk, Sample
<1>5. CASE c_state' # "idle"
    BY <1>2, <1>3, <1>4, <1>5 DEF Quiet
<1>6. CASE c_state' = "idle"
    <2>1. /\ ~ld' /\ ~shift'
          /\ host_ack' \/ ack_out' = ack_out
        BY <1>1, <1>6 DEF CoreTypes, ByteClk, ByteAbort, ByteTake, ByteWait, ByteStarted, ByteWrote,
                          ByteRead, ByteAcked, ByteStopped, Enter, Strobes
    <2> QED
        BY <1>1, <1>2, <1>3, <1>4, <2>1 DEF Quiet
<1> QED
    BY <1>5, <1>6

\* At rest nothing moves but the divider and the status bits.
LEMMA RestStays ==
    ASSUME CoreInv, Quiet, AtRest, Clock
    PROVE  /\ c_state' = "idle" /\ ~host_ack' /\ ~core_ack'
           /\ sr' = sr /\ ack_out' = ack_out
           /\ ~tip' /\ (cr' = cr \/ NoWrite => AtRest' /\ cr'.sto = cr.sto)
           /\ \A seen : Observe(seen) => wire' = seen /\ held' = held
<1>1. CoreTypes /\ Handshake /\ BitClk /\ ByteClk(cr, txr) /\ ~i2c_al /\ ~ld /\ ~shift
      /\ c_state = "idle" /\ ~host_ack /\ ~Go(cr)
    BY DEF CoreInv, Clock, Quiet, AtRest
<1>2. ByteWait(cr) /\ ByteShift(txr)
    BY <1>1 DEF ByteClk, ByteAbort, ByteTake, ByteStarted, ByteWrote, ByteRead, ByteAcked, ByteStopped
<1>3. c_state' = "idle" /\ ~host_ack' /\ sr' = sr /\ ack_out' = ack_out
    BY <1>1, <1>2 DEF ByteWait, Strobes, ByteShift
<1>4. ~core_ack'
    BY <1>1, BitSteps DEF CoreTypes, Handshake, CmdHeld
<1>5. ~tip'
    BY <1>1 DEF Go, Clock, StatusBits
<1>6. cr' = cr => AtRest'
    BY <1>1, <1>3 DEF AtRest, Go
<1>7. NoWrite => AtRest' /\ cr'.sto = cr.sto
    BY <1>1, <1>3 DEF AtRest, Go, NoWrite, Settled, CoreTypes, CommandRegister
<1>8. \A seen : Observe(seen) => wire' = seen /\ held' = held
    BY <1>1, <1>4 DEF Observe
<1> QED
    BY <1>3, <1>4, <1>5, <1>6, <1>7, <1>8

-----------------------------------------------------------------------------
(* A clock in which waitTransfer polls *)

Polling ==
    /\ Alone /\ CoreInv /\ Driven /\ Quiet
    /\ proc \in Procedures /\ k \in 1 .. Len(proc) /\ wire \in Seq(Symbols)
    /\ Transfer.loads => txr = Transfer.word
    /\ Follows /\ Spelled
    /\ Clock /\ NoWrite /\ Observe(wire)
    /\ UNCHANGED <<proc, k>>

\* What a sequence looks like after one more symbol.
LEMMA Grows ==
    ASSUME wire \in Seq(Symbols), NEW x \in Symbols, wire' = Append(wire, x)
    PROVE  /\ wire' \in Seq(Symbols)
           /\ Len(wire') = Len(wire) + 1 /\ Len(wire) \in Nat
           /\ wire'[Len(wire) + 1] = x
           /\ \A i \in 1 .. Len(wire) : wire'[i] = wire[i]
OBVIOUS

LEMMA SymbolTyped == Symbol \in Symbols
BY DEF Symbol, Symbols

\* The polls' view of CR and TIP.
LEMMA FollowsKept ==
    ASSUME Polling
    PROVE  /\ Follows'
           /\ Busy /\ ~host_ack => cr' = cr
           /\ ~Busy \/ host_ack => ~Busy' /\ c_state' = "idle"
<1>1. /\ CoreTypes /\ Handshake /\ Clock /\ ByteClk(cr, txr) /\ cr' = Settled /\ Follows /\ ~i2c_al
    BY DEF Polling, CoreInv, Clock, NoWrite, Quiet
<1>2. tip' = Busy /\ (iack_o => ~iack_o')
    BY <1>1 DEF Clock, StatusBits, Acknowledge, Busy
<1>3. /\ cr \in CommandRegister /\ host_ack \in BOOLEAN /\ Transfer.cr \in CommandRegister
      /\ ~Transfer.cr.iack /\ Transfer' = Transfer
    BY <1>1, Transfers DEF CoreTypes, Polling, Transfer
<1>4. CASE Busy /\ ~host_ack
    <2>1. cr' = cr
        BY <1>1, <1>3, <1>4 DEF Settled, Follows, CommandRegister
    <2> QED
        BY <1>1, <1>2, <1>3, <1>4, <2>1 DEF Follows, Busy
<1>5. CASE ~Busy \/ host_ack
    <2>1. ~Busy' /\ ~cr'.sto
        BY <1>1, <1>3, <1>5 DEF Settled, ClearedCommand, Follows, CommandRegister, Busy
    <2>2. c_state' = "idle" /\ ~host_ack'
        <3>1. c_state = "idle" /\ ~Go(cr)
            BY <1>1, <1>5 DEF Follows, Handshake, Go, Busy
        <3>2. ByteWait(cr)
            BY <1>1, <3>1 DEF ByteClk, ByteAbort, ByteTake, ByteWait, ByteStarted, ByteWrote,
                              ByteRead, ByteAcked, ByteStopped
        <3> QED
            BY <3>1, <3>2 DEF ByteWait, Strobes
    <2> QED
        BY <1>5, <2>1, <2>2 DEF Follows
<1> QED
    BY <1>4, <1>5

\* Everything a transfer needs of this clock, for the lemmas below.
Ranges ==
    /\ core_ack \in BOOLEAN /\ shift \in BOOLEAN /\ ld \in BOOLEAN /\ c_state \in States
    /\ Width \in Nat \ {0} /\ dcnt \in 0 .. Width-1 /\ sr \in Byte
    /\ wire \in Seq(Symbols) /\ Len(wire) \in Nat
    /\ start \in 0 .. 1 /\ (start = 1 <=> Transfer.cr.sta) /\ Transfer.cr.sta \in BOOLEAN
    /\ Transfer.cr.rd \in BOOLEAN /\ Transfer.cr.sto \in BOOLEAN /\ Transfer.word \in Byte

Same == Transfer' = Transfer /\ start' = start

Facts ==
    /\ CoreTypes /\ Handshake /\ Counting /\ BitClk /\ ByteClk(cr, txr) /\ ByteShift(txr)
    /\ ~i2c_al /\ Driven /\ Follows /\ Spelled /\ Quiet
    /\ Ranges /\ Same
    /\ ~Transfer.cr.rd => txr = Transfer.word
    /\ Transfer.cr.rd \/ Transfer.cr.wr
    /\ Transfer.cr.rd => Transfer.cr.ack = 1
    /\ c_state # "idle" => cr = Transfer.cr /\ cr' = cr /\ Busy /\ Busy' /\ ~host_ack
    /\ Observe(wire) /\ (~core_ack' => wire' = wire /\ held' = held)
    /\ bit_cmd = "NOP" \/ bit_cmd' = "NOP" => core_rxd' = core_rxd

LEMMA FactsHold == ASSUME Polling PROVE Facts
<1>1. /\ CoreTypes /\ Handshake /\ Counting /\ BitClk /\ ByteClk(cr, txr) /\ ByteShift(txr)
      /\ ~i2c_al /\ Driven /\ Follows /\ Spelled /\ Quiet /\ Observe(wire) /\ wire \in Seq(Symbols)
    BY DEF Polling, CoreInv, Clock, Quiet, ByteClk
<1>2. /\ core_ack \in BOOLEAN /\ shift \in BOOLEAN /\ ld \in BOOLEAN /\ c_state \in States
      /\ Width \in Nat \ {0} /\ dcnt \in 0 .. Width-1 /\ sr \in Byte
      /\ Len(wire) \in Nat
    BY <1>1, WidthAssumption DEF CoreTypes
<1>3. /\ Transfer' = Transfer
      /\ Transfer.cr.sta \in BOOLEAN /\ Transfer.cr.rd \in BOOLEAN /\ Transfer.cr.sto \in BOOLEAN
      /\ Transfer.word \in Byte /\ (~Transfer.cr.rd => txr = Transfer.word)
      /\ Transfer.cr.rd \/ Transfer.cr.wr
      /\ Transfer.cr.rd => Transfer.cr.ack = 1
    BY Transfers DEF Polling, Transfer, CommandRegister
<1>4. start' = start /\ start \in 0 .. 1 /\ (start = 1 <=> Transfer.cr.sta)
    BY <1>3 DEF start, One
<1>5. c_state # "idle" => cr = Transfer.cr /\ cr' = cr /\ Busy /\ Busy' /\ ~host_ack
    BY <1>1, FollowsKept DEF Follows, Busy, Handshake
<1>6. ~core_ack' => wire' = wire /\ held' = held
    BY <1>1 DEF Observe
<1>7. bit_cmd = "NOP" \/ bit_cmd' = "NOP" => core_rxd' = core_rxd
    BY QuietKept DEF Polling
<1> QED
    BY <1>1, <1>2, <1>3, <1>4, <1>5, <1>6, <1>7 DEF Facts, Ranges, Same

\* The byte controller waits: a bit completes or nothing does.
LEMMA WaitsOrBit ==
    ASSUME Facts, c_state # "idle", ByteWait(cr)
    PROVE  /\ c_state' = c_state /\ core_cmd' = core_cmd /\ ack_out' = ack_out
           /\ ~ld' /\ ~shift' /\ ~host_ack' /\ ~core_ack
           /\ \/ ~core_ack' /\ wire' = wire /\ held' = held
              \/ /\ core_ack' /\ ~ld /\ ~shift /\ core_rxd' = core_rxd
                 /\ bit_cmd = core_cmd /\ bit_cmd # "NOP" /\ stage = 2
                 /\ wire' = Append(wire, Symbol)
                 /\ held' = IF core_cmd \in {"START", "STOP"} THEN core_cmd = "START" ELSE held
<1>1. /\ c_state' = c_state /\ core_cmd' = core_cmd /\ ack_out' = ack_out
      /\ ~ld' /\ ~shift' /\ ~host_ack' /\ ~core_ack
    BY DEF ByteWait, Strobes
<1>2. CASE ~core_ack'
    BY <1>1, <1>2 DEF Facts
<1>3. CASE core_ack'
    <2>1. bit_cmd # "NOP" /\ bit_cmd' = "NOP" /\ stage = 2
        BY <1>3 DEF Facts, BitClk, BitIdle, BitAccept, BitWork, BitFinish, BitLost
    <2>2. core_cmd = bit_cmd /\ ~ld /\ ~shift
        BY <2>1 DEF Facts, Handshake, CmdHeld
    <2> QED
        BY <1>1, <1>3, <2>1, <2>2 DEF Facts, Observe
<1> QED
    BY <1>2, <1>3

\* The shift register gives the bits of a word in order.
LEMMA WriteLatched ==
    ASSUME Facts, c_state = "write", ~core_ack, ~core_ack',
           c_state' = "write", ~ld', ~shift', wire' = wire
    PROVE  InWrite'
<1> DEFINE shifted == Width - 1 - dcnt
<1>0. Ranges /\ Same /\ ByteShift(txr) /\ (~Transfer.cr.rd => txr = Transfer.word)
    BY DEF Facts
<1>1. InWrite /\ Remaining \in 0 .. Width-1 /\ dcnt' = Remaining /\ Remaining' = dcnt'
    BY CountLatched DEF Facts, Spelled, Counting, Remaining
<1>2. ~Transfer.cr.rd /\ Len(wire) = start + (Width - 1 - Remaining)
      /\ Sent(Width - 1 - Remaining, Transfer.word)
    BY <1>0, <1>1 DEF InWrite, One, Ranges
<1>3. \A j \in Width - 1 - dcnt' .. Width-1 : sr'[j] = Transfer.word[j - (Width - 1 - dcnt')]
    <2>1. CASE ld
        <3>1. sr' = Transfer.word /\ Width - 1 - dcnt' = 0
            BY <1>0, <1>1, <1>2, <2>1 DEF Remaining, ByteShift, Ranges
        <3>2. \A j \in 0 .. Width-1 : j - 0 = j
            OBVIOUS
        <3> QED
            BY <3>1, <3>2
    <2>2. CASE ~ld /\ shift
        <3>1. dcnt' = dcnt - 1 /\ dcnt > 0
            BY <1>0, <1>1, <2>2 DEF Remaining, Ranges
        <3>2. \A j \in 1 .. Width-1 : sr'[j] = sr[j-1]
            BY <1>0, <2>2 DEF ByteShift
        <3>3. \A j \in shifted .. Width-1 : sr[j] = Transfer.word[j - shifted]
            BY <1>1, <2>2 DEF InWrite
        <3>4. ASSUME NEW j \in shifted + 1 .. Width-1 PROVE sr'[j] = Transfer.word[j - (shifted + 1)]
            <4>1. j \in 1 .. Width-1 /\ j - 1 \in shifted .. Width-1
                  /\ (j - 1) - shifted = j - (shifted + 1)
                BY <1>0 DEF Ranges
            <4> QED
                BY <3>2, <3>3, <4>1
        <3>5. Width - 1 - dcnt' = shifted + 1
            BY <1>0, <3>1 DEF Ranges
        <3> QED
            BY <3>4, <3>5, Zenon
    <2>3. CASE ~ld /\ ~shift
        BY <1>0, <1>1, <2>3 DEF InWrite, ByteShift, Remaining
    <2> QED
        BY <2>1, <2>2, <2>3
<1>4. Sent(Width - 1 - Remaining, Transfer.word)' /\ Len(wire') = start' + (Width - 1 - Remaining')
    <2>1. Remaining' = Remaining
        BY <1>1
    <2>2. Transfer.cr.sta => wire[1] = "S"
        BY <1>2 DEF Sent
    <2>3. \A i \in 1 .. Width - 1 - Remaining : wire[start + i] = Digit(Transfer.word[Width - i])
        BY <1>2 DEF Sent
    <2>4. /\ Transfer'.cr.sta => wire'[1] = "S"
          /\ \A i \in 1 .. Width - 1 - Remaining' :
               wire'[start' + i] = Digit(Transfer'.word[Width - i])
        BY <1>0, <2>1, <2>2, <2>3, Zenon DEF Same
    <2>5. Len(wire') = start' + (Width - 1 - Remaining')
        BY <1>0, <1>2, <2>1, Zenon DEF Same
    <2> QED
        BY <2>4, <2>5, Zenon DEF Sent
<1>5. Width - 1 - Remaining' + One(core_ack') = Width - 1 - Remaining'
    BY <1>0, <1>1 DEF One, Ranges
<1> QED
    BY <1>0, <1>2, <1>3, <1>4, <1>5, Zenon DEF InWrite, Same

LEMMA ReadLatched ==
    ASSUME Facts, c_state = "read", ~core_ack, ~core_ack',
           c_state' = "read", ~ld', ~shift', wire' = wire
    PROVE  InRead'
<1> DEFINE m == Width - 1 - dcnt
<1>0. Ranges /\ Same /\ ByteShift(txr)
    BY DEF Facts
<1>1. InRead /\ Remaining \in 0 .. Width-1 /\ dcnt' = Remaining /\ Remaining' = dcnt'
    BY CountLatched DEF Facts, Spelled, Counting, Remaining
<1>2. Transfer.cr.rd /\ Len(wire') = start' + (Width - 1 - dcnt')
    BY <1>0, <1>1 DEF InRead, One, Same, Ranges
<1>3. Received(Width - 1 - dcnt)' => InRead'
    BY <1>0, <1>1, <1>2 DEF InRead, Same, Ranges, One, Received
<1>4. Transfer.cr.sta => wire[1] = "S"
    BY <1>1 DEF InRead, Received
<1>5. \A i \in 1 .. Width - 1 - dcnt' : wire[start + i] = Digit(sr'[Width - 1 - dcnt' - i])
    <2>1. CASE ld
        BY <1>0, <1>1, <2>1 DEF Remaining, Ranges
    <2>2. CASE ~ld /\ shift
        <3>1. dcnt' = dcnt - 1 /\ dcnt > 0
            BY <1>0, <1>1, <2>2 DEF Remaining, Ranges
        <3>2. wire[start + m + 1] = Digit(core_rxd)
            BY <1>0, <1>1, <2>2, <3>1 DEF Ranges, InRead, Remaining, One
        <3>3. \A i \in 1 .. m : wire[start + i] = Digit(sr[m - i])
            BY <1>1, <2>2 DEF InRead, Received
        <3>4. sr'[0] = core_rxd /\ \A j \in 1 .. Width-1 : sr'[j] = sr[j-1]
            BY <1>0, <2>2 DEF ByteShift, Ranges
        <3>5. ASSUME NEW i \in 1 .. m + 1 PROVE wire[start + i] = Digit(sr'[m + 1 - i])
            <4>1. CASE i = m + 1
                BY <1>0, <3>2, <3>4, <4>1 DEF Ranges
            <4>2. CASE i \in 1 .. m
                <5>1. m + 1 - i \in 1 .. Width-1 /\ (m + 1 - i) - 1 = m - i
                    BY <1>0, <3>1, <4>2 DEF Ranges
                <5> QED
                    BY <3>3, <3>4, <4>2, <5>1
            <4> QED
                BY <1>0, <4>1, <4>2 DEF Ranges
        <3>6. Width - 1 - dcnt' = m + 1 /\ m \in Int
            BY <1>0, <3>1 DEF Ranges
        <3> HIDE DEF m
        <3>7. \A i \in 1 .. m + 1 : wire[start + i] = Digit(sr'[m + 1 - i])
            BY <3>5
        <3>8. \A r \in Int : r = m + 1 => \A i \in 1 .. r : wire[start + i] = Digit(sr'[r - i])
            BY <3>6, <3>7
        <3> QED
            BY <3>6, <3>8
    <2>3. CASE ~ld /\ ~shift
        BY <1>0, <1>1, <2>3 DEF InRead, Received, ByteShift, Remaining
    <2> QED
        BY <2>1, <2>2, <2>3
<1>6. Received(Width - 1 - dcnt)'
    BY <1>0, <1>4, <1>5 DEF Received, Same
<1> QED
    BY <1>3, <1>6

\* A data bit completes.
LEMMA BitWritten ==
    ASSUME Facts, c_state = "write", ~core_ack, core_ack', ~ld, ~shift, bit_cmd = core_cmd,
           stage = 2, c_state' = "write", ~ld', ~shift', wire' = Append(wire, Symbol)
    PROVE  InWrite'
<1> DEFINE n == Width - 1 - dcnt
<1>0. Ranges /\ Same /\ bit_cmd = "WRITE" /\ Driven
    BY DEF Facts, Handshake
<1>1. InWrite /\ Remaining = dcnt /\ dcnt' = dcnt /\ Remaining' = dcnt' /\ sr' = sr
    BY DEF Facts, Spelled, Remaining, ByteShift
<1>2. core_txd = Transfer.word[Width - 1 - n]
    BY <1>0, <1>1 DEF Ranges, Driven, InWrite
<1>3. Symbol = Digit(Transfer.word[Width - (n + 1)])
    BY <1>0, <1>2 DEF Ranges, Symbol, Digit
<1>4. Len(wire) = start + n /\ Sent(n, Transfer.word)
    BY <1>0, <1>1 DEF InWrite, One, Ranges
<1>5. /\ Len(wire') = start + n + 1
      /\ wire'[start + n + 1] = Symbol
      /\ \A i \in 1 .. start + n : wire'[i] = wire[i]
    BY <1>0, <1>4, Grows, SymbolTyped DEF Ranges
<1>6. Transfer.cr.sta => wire'[1] = "S"
    BY <1>0, <1>4, <1>5 DEF Ranges, Sent
<1>7. \A i \in 1 .. n + 1 : wire'[start + i] = Digit(Transfer.word[Width - i])
    BY <1>0, <1>3, <1>4, <1>5 DEF Ranges, Sent
<1>8. Sent(n + 1, Transfer.word)'
    BY <1>0, <1>1, <1>6, <1>7 DEF Sent, Same
<1> QED
    BY <1>0, <1>1, <1>5, <1>8 DEF Ranges, InWrite, One, Same

LEMMA BitRead ==
    ASSUME Facts, c_state = "read", ~core_ack, core_ack', ~ld, ~shift, bit_cmd = core_cmd,
           c_state' = "read", ~ld', ~shift', wire' = Append(wire, Symbol), core_rxd' = core_rxd
    PROVE  InRead'
<1> DEFINE n == Width - 1 - dcnt
<1>0. Ranges /\ Same /\ bit_cmd = "READ"
    BY DEF Facts, Handshake
<1>1. InRead /\ Remaining = dcnt /\ dcnt' = dcnt /\ Remaining' = dcnt' /\ sr' = sr
    BY DEF Facts, Spelled, Remaining, ByteShift
<1>3. Symbol = Digit(core_rxd)
    BY <1>0 DEF Symbol, Digit
<1>4. Len(wire) = start + n /\ Received(n)
    BY <1>0, <1>1 DEF InRead, One, Ranges
<1>5. /\ Len(wire') = start + n + 1
      /\ wire'[start + n + 1] = Symbol
      /\ \A i \in 1 .. start + n : wire'[i] = wire[i]
    BY <1>0, <1>4, Grows, SymbolTyped DEF Ranges
<1>6. Received(n)'
    BY <1>0, <1>1, <1>4, <1>5 DEF Ranges, Received, Same
<1> QED
    BY <1>0, <1>1, <1>3, <1>5, <1>6 DEF Ranges, InRead, One, Same

\* The acknowledge of the byte, while its bit command runs and when it completes.
LEMMA AckWaits ==
    ASSUME Facts, c_state = "ack", ByteWait(cr)
    PROVE  InAck'
<1>0. /\ Ranges /\ Same /\ InAck /\ Handshake /\ ByteShift(txr) /\ cr = Transfer.cr
      /\ Transfer.cr.rd => Transfer.cr.ack = 1
    BY DEF Facts, Spelled
<1>1. /\ c_state' = "ack" /\ core_cmd' = core_cmd /\ ~ld' /\ ~shift' /\ ~core_ack
      /\ core_txd' = cr.ack
      /\ \/ ~core_ack' /\ wire' = wire
         \/ /\ core_ack' /\ ~shift /\ core_rxd' = core_rxd /\ bit_cmd = core_cmd
            /\ wire' = Append(wire, Symbol)
    BY <1>0, WaitsOrBit DEF ByteWait
<1>2. Len(wire) = start + Width /\ ~ld /\ (Transfer.cr.rd <=> core_cmd = "WRITE")
    BY <1>0, <1>1 DEF InAck, One, Ranges
<1>3. /\ \A i \in 1 .. start + Width : wire'[i] = wire[i]
      /\ Len(wire') = start + Width + One(core_ack')
      /\ core_ack' => wire'[start + Width + 1] = Symbol
    <2>1. CASE ~core_ack' /\ wire' = wire
        BY <1>0, <1>2, <2>1 DEF One, Ranges
    <2>2. CASE core_ack' /\ wire' = Append(wire, Symbol)
        BY <1>0, <1>2, <2>2, Grows, SymbolTyped DEF One, Ranges
    <2> QED
        BY <1>1, <2>1, <2>2
<1>4. CASE Transfer.cr.rd
    <2>1. core_txd = 1 /\ core_txd' = 1
        BY <1>0, <1>1, <1>4 DEF InAck
    <2>2. core_ack' => wire'[start + Width + 1] = "1"
        BY <1>1, <1>2, <1>3, <1>4, <2>1 DEF Symbol
    <2>3. Sent(Width, sr')
        <3>1. CASE shift
            <4>1. dcnt = 0 /\ Received(Width - 1) /\ wire[start + Width] = Digit(core_rxd)
                BY <1>0, <1>4, <3>1 DEF InAck
            <4>2. sr'[0] = core_rxd /\ \A j \in 1 .. Width-1 : sr'[j] = sr[j-1]
                BY <1>0, <1>2, <3>1 DEF ByteShift, Ranges
            <4>3. ASSUME NEW i \in 1 .. Width PROVE wire[start + i] = Digit(sr'[Width - i])
                <5>1. CASE i = Width
                    BY <1>0, <4>1, <4>2, <5>1 DEF Ranges
                <5>2. CASE i \in 1 .. Width - 1
                    <6>1. Width - i \in 1 .. Width-1 /\ (Width - i) - 1 = (Width - 1) - i
                        BY <1>0, <5>2 DEF Ranges
                    <6> QED
                        BY <4>1, <4>2, <5>2, <6>1 DEF Received
                <5> QED
                    BY <1>0, <5>1, <5>2 DEF Ranges
            <4> QED
                BY <4>1, <4>3 DEF Sent, Received
        <3>2. CASE ~shift
            BY <1>0, <1>2, <1>4, <3>2 DEF InAck, ByteShift
        <3> QED
            BY <3>1, <3>2
    <2>4. Sent(Width, sr)'
        BY <1>0, <1>3, <2>3 DEF Sent, Same, Ranges
    <2> QED
        BY <1>0, <1>1, <1>2, <1>3, <1>4, <2>1, <2>2, <2>4 DEF InAck, Same
<1>5. CASE ~Transfer.cr.rd
    <2>1. bit_cmd = core_cmd => core_cmd = "READ"
        BY <1>0, <1>2, <1>5 DEF Facts, Counting, Ranges
    <2>2. core_ack' => wire'[start + Width + 1] = Digit(core_rxd')
        BY <1>1, <1>3, <2>1 DEF Symbol, Digit
    <2>3. Sent(Width, Transfer.word)
        BY <1>0, <1>5 DEF InAck
    <2>4. Sent(Width, Transfer.word)'
        BY <1>0, <1>3, <2>3 DEF Sent, Same, Ranges
    <2> QED
        BY <1>0, <1>1, <1>2, <1>3, <1>5, <2>2, <2>4 DEF InAck, Same
<1> QED
    BY <1>4, <1>5

LEMMA StopWaits ==
    ASSUME Facts, c_state = "stop", ByteWait(cr)
    PROVE  InStop'
<1>0. /\ Ranges /\ Same /\ InStop /\ ByteShift(txr) /\ core_cmd = "STOP"
    BY DEF Facts, Spelled, Handshake
<1>1. /\ c_state' = "stop" /\ ~ld' /\ ~shift' /\ ~core_ack /\ ack_out' = ack_out
      /\ \/ ~core_ack' /\ wire' = wire
         \/ core_ack' /\ bit_cmd = core_cmd /\ wire' = Append(wire, Symbol) /\ ~held'
    BY <1>0, WaitsOrBit
<1>2. Len(wire) = start + Width + 1 /\ Transfer.cr.sto /\ sr' = sr
    BY <1>0, <1>1 DEF InStop, One, Ranges, ByteShift
<1>3. /\ \A i \in 1 .. start + Width + 1 : wire'[i] = wire[i]
      /\ Len(wire') = start + Width + 1 + One(core_ack')
      /\ core_ack' => wire'[start + Width + 2] = "P"
    <2>1. CASE ~core_ack' /\ wire' = wire
        BY <1>0, <1>2, <2>1 DEF One, Ranges
    <2>2. CASE core_ack' /\ bit_cmd = core_cmd /\ wire' = Append(wire, Symbol)
        <3>1. Symbol = "P"
            BY <1>0, <2>2 DEF Symbol
        <3> QED
            BY <1>0, <1>2, <2>2, <3>1, Grows, SymbolTyped DEF One, Ranges
    <2> QED
        BY <1>1, <2>1, <2>2
<1>4. ByteAndAck'
    <2>1. ByteAndAck
        BY <1>0 DEF InStop
    <2>2. CASE Transfer.cr.rd
        BY <1>0, <1>2, <1>3, <2>1, <2>2 DEF ByteAndAck, Sent, Same, Ranges
    <2>3. CASE ~Transfer.cr.rd
        BY <1>0, <1>1, <1>3, <2>1, <2>3 DEF ByteAndAck, Sent, Same, Ranges
    <2> QED
        BY <2>2, <2>3
<1> QED
    BY <1>0, <1>1, <1>2, <1>3, <1>4 DEF InStop, Same

\* No command runs, or the acknowledge of the last one is up: nothing moves.
LEMMA StaysComplete ==
    ASSUME Facts, c_state = "idle", ~Busy \/ host_ack, ~Busy', c_state' = "idle"
    PROVE  Spelled'
<1>0. Ranges /\ Same /\ Complete /\ Handshake /\ Quiet /\ ByteShift(txr) /\ BitClk
    BY DEF Facts, Spelled, After
<1>1. ~core_ack'
    BY <1>0, BitSteps DEF Ranges, Handshake, CmdHeld
<1>2. wire' = wire /\ held' = held /\ sr' = sr
    BY <1>0, <1>1 DEF Facts, Quiet, ByteShift
<1>3. ack_out' = ack_out
    BY <1>0 DEF Facts, Follows, Go, Busy, ByteClk, ByteAbort, ByteTake, ByteWait, ByteStarted, ByteWrote,
                ByteRead, ByteAcked, ByteStopped
<1>4. Complete'
    BY <1>0, <1>2, <1>3 DEF Complete, ByteAndAck, Sent, Same
<1> QED
    BY <1>4 DEF Spelled, Before, InStart, InWrite, InRead, InAck, InStop, After

LEMMA Takes ==
    ASSUME Facts, c_state = "idle", Busy, ~host_ack, cr' = cr
    PROVE  Spelled'
<1>0. /\ Ranges /\ Same /\ wire = <<>> /\ Handshake /\ BitClk /\ ByteShift(txr) /\ cr = Transfer.cr
      /\ ~i2c_al
    BY DEF Facts, Spelled, Before, Follows
<1>1. ByteTake(cr)
    BY <1>0 DEF Facts, Busy, Go, ByteClk, ByteAbort, ByteWait, ByteStarted, ByteWrote, ByteRead,
                ByteAcked, ByteStopped
<1>2. ~core_ack'
    BY <1>0, BitSteps DEF Ranges, Handshake, CmdHeld
<1>3. wire' = <<>> /\ Busy' /\ ld' /\ ~shift' /\ ~host_ack'
    BY <1>0, <1>1, <1>2 DEF Facts, Busy, ByteTake, Strobes
<1>4. \/ c_state' = "start" /\ Transfer.cr.sta
      \/ c_state' = "read" /\ ~Transfer.cr.sta /\ Transfer.cr.rd
      \/ c_state' = "write" /\ ~Transfer.cr.sta /\ ~Transfer.cr.rd
    BY <1>0, <1>1 DEF ByteTake, Enter, Busy
<1>5. CASE c_state' = "start"
    BY <1>0, <1>2, <1>3, <1>4, <1>5 DEF Spelled, Before, InStart, InWrite, InRead, InAck, InStop, After,
                                        Same
<1>6. CASE c_state' \in {"read", "write"}
    <2>1. Remaining' = Width - 1 /\ Width - 1 - Remaining' + One(core_ack') = 0 /\ start' = 0
        BY <1>0, <1>2, <1>3, <1>4, <1>6 DEF Remaining, One, Ranges, Same
    <2>2. Len(wire') = start' + 0 /\ ~Transfer'.cr.sta
        BY <1>0, <1>3, <1>4, <1>6, <2>1 DEF Same
    <2>3. InRead'
        <3>1. CASE c_state' = "read"
            <4>1. Received(0)'
                BY <2>2 DEF Received
            <4> QED
                BY <1>0, <1>3, <1>4, <2>1, <2>2, <3>1, <4>1 DEF InRead, Same
        <3> QED
            BY <3>1 DEF InRead
    <2>4. InWrite'
        <3>1. CASE c_state' = "write"
            <4>1. Sent(0, Transfer.word)'
                BY <2>2 DEF Sent
            <4> QED
                BY <1>0, <1>3, <1>4, <2>1, <2>2, <3>1, <4>1 DEF InWrite, Same
        <3> QED
            BY <3>1 DEF InWrite
    <2> QED
        BY <1>6, <2>3, <2>4 DEF Spelled, Before, InStart, InAck, InStop, After
<1> QED
    BY <1>4, <1>5, <1>6

\* The byte controller follows the acknowledge of a bit.
LEMMA Advances ==
    ASSUME Facts, c_state # "idle", core_ack
    PROVE  Spelled'
<1> USE DEF Enter, Strobes
<1>0. /\ Ranges /\ Same /\ Spelled /\ cr = Transfer.cr /\ Busy' /\ ~ld /\ ~shift
      /\ (Transfer.cr.rd => Transfer.cr.ack = 1) /\ Transfer.cr.rd \in BOOLEAN
    BY DEF Facts, Handshake, Ranges
<1>1. ~core_ack' /\ wire' = wire /\ held' = held /\ sr' = sr /\ dcnt' = dcnt /\ core_rxd' = core_rxd
    <2>1. bit_cmd = "NOP" /\ ~core_ack'
        BY BitSteps DEF Facts, Ranges, Handshake
    <2> QED
        BY <2>1 DEF Facts, Handshake, ByteShift
<1>2. Remaining = dcnt
    BY <1>0 DEF Remaining
<1>3. CASE ByteStarted(cr)
    <2>1. /\ wire' = <<"S">> /\ Transfer'.cr.sta /\ start' = 1 /\ ld' /\ ~shift' /\ ~host_ack'
          /\ c_state' = IF Transfer'.cr.rd THEN "read" ELSE "write"
        BY <1>0, <1>1, <1>3 DEF ByteStarted, Spelled, InStart, Same, Ranges
    <2>2. Width - 1 - Remaining' + One(core_ack') = 0
        BY <1>0, <1>1, <2>1 DEF Remaining, One, Ranges
    <2>3. Len(wire') = start' + 0 /\ Sent(0, Transfer.word)' /\ Received(0)'
        BY <2>1 DEF Sent, Received
    <2>4. InRead'
        BY <2>1, <2>2, <2>3 DEF InRead
    <2>5. InWrite'
        BY <2>1, <2>2, <2>3 DEF InWrite
    <2> QED
        BY <2>1, <2>4, <2>5 DEF Spelled, Before, InStart, InAck, InStop, After
<1>4. CASE ByteWrote
    <2>1. /\ ~ld' /\ c_state = "write"
          /\ \/ dcnt = 0 /\ c_state' = "ack" /\ core_cmd' = "READ" /\ ~shift'
             \/ dcnt # 0 /\ c_state' = "write" /\ shift'
        BY <1>4 DEF ByteWrote, CntDone
    <2>2. /\ ~Transfer.cr.rd /\ Len(wire) = start + (Width - dcnt)
          /\ \A j \in Width - 1 - dcnt .. Width-1 : sr[j] = Transfer.word[j - (Width - 1 - dcnt)]
          /\ Sent(Width - dcnt, Transfer.word)
        <3>1. Width - 1 - Remaining + One(core_ack) = Width - dcnt
            BY <1>0, <1>2 DEF One, Ranges
        <3> QED
            BY <1>0, <2>1, <3>1 DEF Spelled, InWrite
    <2>3. Sent(Width - dcnt, Transfer.word)'
        BY <1>0, <1>1, <2>2 DEF Sent, Same
    <2>4. CASE dcnt = 0
        <3>1. Width - dcnt = Width /\ Width - dcnt' = Width /\ Width + One(core_ack') = Width
            BY <1>0, <1>1, <2>4 DEF One, Ranges
        <3>2. Len(wire') = start' + Width + One(core_ack')
            BY <1>0, <1>1, <2>2, <2>4 DEF One, Ranges, Same
        <3>3. InAck'
            BY <1>0, <1>1, <2>1, <2>2, <2>3, <2>4, <3>1, <3>2 DEF InAck, Same
        <3> QED
            BY <2>1, <2>4, <3>3 DEF Spelled, Before, InStart, InWrite, InRead, InStop, After
    <2>5. CASE dcnt # 0
        <3>1. Width - 1 - Remaining' + One(core_ack') = Width - dcnt'
            BY <1>0, <1>1, <2>1, <2>5 DEF One, Ranges, Remaining
        <3>2. InWrite'
            BY <1>0, <1>1, <2>1, <2>2, <2>3, <2>5, <3>1 DEF InWrite, Same
        <3> QED
            BY <2>1, <2>5, <3>2 DEF Spelled, Before, InStart, InAck, InRead, InStop, After
    <2> QED
        BY <2>4, <2>5
<1>5. CASE ByteRead(cr)
    <2>1. /\ ~ld' /\ shift' /\ c_state = "read" /\ core_txd' = cr.ack
          /\ \/ dcnt = 0 /\ c_state' = "ack" /\ core_cmd' = "WRITE"
             \/ dcnt # 0 /\ c_state' = "read"
        BY <1>5 DEF ByteRead, CntDone
    <2>2. /\ Transfer.cr.rd /\ Len(wire) = start + (Width - dcnt)
          /\ Received(Width - 1 - dcnt)
          /\ wire[start + (Width - dcnt)] = Digit(core_rxd)
        <3>1. Width - 1 - Remaining + One(core_ack) = Width - dcnt
              /\ Width - dcnt = (Width - 1 - dcnt) + 1
            BY <1>0, <1>2 DEF One, Ranges
        <3> QED
            BY <1>0, <2>1, <3>1 DEF Spelled, InRead
    <2>3. Received(Width - 1 - dcnt)'
        BY <1>0, <1>1, <2>2 DEF Received, Same
    <2>4. CASE dcnt = 0
        <3>1. Width - dcnt = Width /\ Width - 1 - dcnt = Width - 1
            BY <1>0, <2>4 DEF Ranges
        <3>2. Len(wire') = start' + Width + One(core_ack')
            BY <1>0, <1>1, <2>2, <2>4 DEF One, Ranges, Same
        <3>3. Received(Width - 1)' /\ wire'[start' + Width] = Digit(core_rxd') /\ dcnt' = 0
            BY <1>0, <1>1, <2>2, <2>3, <2>4, <3>1 DEF Same
        <3>4. InAck'
            BY <1>0, <1>1, <2>1, <2>2, <2>4, <3>2, <3>3 DEF InAck, Same
        <3> QED
            BY <2>1, <2>4, <3>4 DEF Spelled, Before, InStart, InWrite, InRead, InStop, After
    <2>5. CASE dcnt # 0
        <3>1. Width - 1 - Remaining' + One(core_ack') = Width - dcnt'
              /\ Width - dcnt' = (Width - 1 - dcnt') + 1
            BY <1>0, <1>1, <2>1, <2>5 DEF One, Ranges, Remaining
        <3>2. InRead'
            BY <1>0, <1>1, <2>1, <2>2, <2>3, <2>5, <3>1 DEF InRead, Same
        <3> QED
            BY <2>1, <2>5, <3>2 DEF Spelled, Before, InStart, InAck, InWrite, InStop, After
    <2> QED
        BY <2>4, <2>5
<1>6. CASE ByteAcked(cr)
    <2>1. /\ ~ld' /\ ~shift' /\ c_state = "ack" /\ ack_out' = core_rxd
          /\ \/ Transfer.cr.sto /\ c_state' = "stop" /\ ~host_ack'
             \/ ~Transfer.cr.sto /\ c_state' = "idle" /\ host_ack'
        BY <1>0, <1>6 DEF ByteAcked
    <2>2. /\ Len(wire) = start + Width + 1
          /\ IF Transfer.cr.rd THEN Sent(Width, sr) /\ wire[start + Width + 1] = "1"
             ELSE Sent(Width, Transfer.word) /\ wire[start + Width + 1] = Digit(core_rxd)
        BY <1>0, <2>1 DEF Spelled, InAck, One
    <2>3. ByteAndAck'
        BY <1>0, <1>1, <2>1, <2>2 DEF ByteAndAck, Sent, Same
    <2>4. InStop'
        BY <1>0, <1>1, <2>1, <2>2, <2>3 DEF InStop, Same, One, Ranges
    <2>5. After'
        BY <1>0, <1>1, <2>1, <2>2, <2>3 DEF After, Complete, Same, One, Ranges
    <2> QED
        BY <2>1, <2>4, <2>5 DEF Spelled, Before, InStart, InAck, InRead, InWrite
<1>7. CASE ByteStopped
    <2>1. c_state = "stop" /\ c_state' = "idle" /\ host_ack' /\ ack_out' = ack_out
        BY <1>7 DEF ByteStopped
    <2>2. /\ Transfer.cr.sto /\ Len(wire) = start + Width + 1 + 1 /\ ByteAndAck
          /\ wire[start + Width + 2] = "P" /\ ~held
        BY <1>0, <2>1 DEF Spelled, InStop, One
    <2>3. ByteAndAck'
        BY <1>0, <1>1, <2>1, <2>2 DEF ByteAndAck, Sent, Same
    <2>4. Complete'
        BY <1>0, <1>1, <2>2, <2>3 DEF Complete, Same, One
    <2> QED
        BY <2>1, <2>4 DEF Spelled, Before, InStart, InWrite, InRead, InAck, InStop, After
<1> QED
    BY <1>3, <1>4, <1>5, <1>6, <1>7 DEF Facts, ByteClk, ByteAbort, ByteTake, ByteWait

LEMMA Waits ==
    ASSUME Facts, c_state # "idle", ~core_ack
    PROVE  Spelled'
<1>1. ByteWait(cr)
    BY DEF Facts, ByteClk, ByteAbort, ByteTake, ByteStarted, ByteWrote, ByteRead, ByteAcked,
           ByteStopped
<1>2. c_state' = c_state /\ ~ld' /\ ~shift' /\ core_cmd' = core_cmd
      /\ \/ ~core_ack' /\ wire' = wire
         \/ core_ack' /\ ~ld /\ ~shift /\ core_rxd' = core_rxd /\ bit_cmd = core_cmd /\ stage = 2
              /\ wire' = Append(wire, Symbol)
    BY <1>1, WaitsOrBit
<1>3. CASE c_state = "start"
    <2>1. Transfer'.cr.sta /\ wire = <<>> /\ core_cmd = "START"
        BY <1>3 DEF Facts, Spelled, InStart, Same, Handshake
    <2>2. InStart'
        <3>1. CASE ~core_ack'
            BY <1>2, <2>1, <3>1 DEF InStart
        <3>2. CASE core_ack'
            BY <1>2, <2>1, <3>2 DEF InStart, Symbol
        <3> QED
            BY <3>1, <3>2
    <2> QED
        BY <1>2, <1>3, <2>2 DEF Spelled, Before, InWrite, InRead, InAck, InStop, After
<1>4. CASE c_state = "write"
    <2>1. InWrite'
        BY <1>2, <1>4, WriteLatched, BitWritten
    <2> QED
        BY <1>2, <1>4, <2>1 DEF Spelled, Before, InStart, InRead, InAck, InStop, After
<1>5. CASE c_state = "read"
    <2>1. InRead'
        BY <1>2, <1>5, ReadLatched, BitRead
    <2> QED
        BY <1>2, <1>5, <2>1 DEF Spelled, Before, InStart, InWrite, InAck, InStop, After
<1>6. CASE c_state = "ack"
    BY <1>1, <1>2, <1>6, AckWaits DEF Spelled, Before, InStart, InWrite, InRead, InStop, After
<1>7. CASE c_state = "stop"
    BY <1>1, <1>2, <1>7, StopWaits DEF Spelled, Before, InStart, InWrite, InRead, InAck, After
<1> QED
    BY <1>3, <1>4, <1>5, <1>6, <1>7 DEF Facts, Ranges, States

\* A clock in which waitTransfer polls keeps what the bus has carried in step
\* with the transfer.
LEMMA PollsKept == ASSUME Polling PROVE Follows' /\ Spelled'
<1>1. Facts /\ Follows'
    BY FactsHold, FollowsKept
<1>2. CASE c_state = "idle" /\ (~Busy \/ host_ack)
    BY <1>1, <1>2, FollowsKept, StaysComplete
<1>3. CASE c_state = "idle" /\ Busy /\ ~host_ack
    BY <1>1, <1>3, FollowsKept, Takes
<1>4. CASE c_state # "idle"
    BY <1>1, <1>4, Advances, Waits DEF Facts, Ranges
<1> QED
    BY <1>1, <1>2, <1>3, <1>4

\* When TIP is down in an access, the transfer is complete and the core at rest.
LEMMA PollEnds ==
    ASSUME Polling, ~tip, iack_o
    PROVE  AtRest /\ Complete
BY FactsHold DEF Facts, Follows, Spelled, After, AtRest, Go, Busy

\* At rest a complete transfer stays as it is.
LEMMA CompleteStays ==
    ASSUME CoreInv, Quiet, AtRest, Clock, Observe(wire), UNCHANGED <<proc, k>>, Complete
    PROVE  Complete'
<1>1. wire' = wire /\ held' = held /\ sr' = sr /\ ack_out' = ack_out
    BY RestStays
<1>2. Transfer' = Transfer /\ start' = start
    BY DEF Transfer, start
<1> QED
    BY <1>1, <1>2 DEF Complete, ByteAndAck, Sent

LEMMA Single ==
    ASSUME NEW x \in Symbols
    PROVE  <<x>> \in Seq(Symbols) /\ Len(<<x>>) = 1 /\ <<x>>[1] = x
OBVIOUS

\* The pieces make up the frame.
LEMMA CompleteIsFramed ==
    ASSUME Complete, WidthAssumption, wire \in Seq(Symbols), Transfer.cr \in CommandRegister,
           NEW word, NEW ack, Sent(Width, word), wire[start + Width + 1] = ack
    PROVE  wire = Framed(Transfer, word, ack)
<1> DEFINE A == IF Transfer.cr.sta THEN <<"S">> ELSE <<>>
           D == IF Transfer.cr.sto THEN <<"P">> ELSE <<>>
           AB == A \o Bits(word)
           C == <<ack>>
           ABC == AB \o C
           stop == One(Transfer.cr.sto)
<1>1. /\ Width \in Nat \ {0} /\ Transfer.cr.sta \in BOOLEAN /\ Transfer.cr.sto \in BOOLEAN
      /\ start \in 0 .. 1 /\ stop \in 0 .. 1
    BY DEF CommandRegister, start, One
<1>2. Len(wire) = start + Width + 1 + stop /\ Len(wire) \in Nat
    BY DEF Complete
<1>3. Bits(word) \in Seq(Symbols) /\ Len(Bits(word)) = Width
      /\ \A i \in 1 .. Width : Bits(word)[i] = Digit(word[Width - i])
    BY <1>1 DEF Bits, Symbols, Digit
<1>4. ack \in Symbols /\ C \in Seq(Symbols) /\ Len(C) = 1 /\ C[1] = ack
    BY <1>1, <1>2, ElementOfSeq, Single
<1>5. A \in Seq(Symbols) /\ Len(A) = start /\ (start = 1 => A[1] = "S")
    <2>1. CASE Transfer.cr.sta
        <3>1. A = <<"S">> /\ start = 1 /\ "S" \in Symbols
            BY <2>1 DEF start, One, Symbols
        <3> QED
            BY <3>1, Single
    <2>2. CASE ~Transfer.cr.sta
        <3>1. A = <<>> /\ start = 0
            BY <2>2 DEF start, One
        <3> QED
            BY <3>1, EmptySeq
    <2> QED
        BY <2>1, <2>2
<1>6. D \in Seq(Symbols) /\ Len(D) = stop /\ (stop = 1 => D[1] = "P")
    <2>1. CASE Transfer.cr.sto
        <3>1. D = <<"P">> /\ stop = 1 /\ "P" \in Symbols
            BY <2>1 DEF One, Symbols
        <3> QED
            BY <3>1, Single
    <2>2. CASE ~Transfer.cr.sto
        <3>1. D = <<>> /\ stop = 0
            BY <2>2 DEF One
        <3> QED
            BY <3>1, EmptySeq
    <2> QED
        BY <2>1, <2>2
<1> HIDE DEF A, C, D
<1>7. /\ AB \in Seq(Symbols) /\ Len(AB) = start + Width
      /\ start = 1 => AB[1] = "S"
      /\ \A i \in 1 .. Width : AB[start + i] = Digit(word[Width - i])
    <2>1. /\ AB \in Seq(Symbols) /\ Len(AB) = start + Width
          /\ \A i \in 1 .. start + Width : AB[i] = IF i <= start THEN A[i] ELSE Bits(word)[i - start]
        BY <1>3, <1>5, ConcatProperties
    <2>2. ASSUME NEW i \in 1 .. Width PROVE AB[start + i] = Digit(word[Width - i])
        <3>1. start + i \in 1 .. start + Width /\ ~(start + i <= start) /\ (start + i) - start = i
            BY <1>1
        <3> QED
            BY <1>3, <2>1, <3>1
    <2> QED
        BY <1>1, <1>5, <2>1, <2>2
<1> HIDE DEF AB
<1>8. /\ ABC \in Seq(Symbols) /\ Len(ABC) = start + Width + 1
      /\ \A i \in 1 .. start + Width : ABC[i] = AB[i]
      /\ ABC[start + Width + 1] = ack
    <2>1. /\ ABC \in Seq(Symbols) /\ Len(ABC) = (start + Width) + 1
          /\ \A i \in 1 .. (start + Width) + 1 :
               ABC[i] = IF i <= start + Width THEN AB[i] ELSE C[i - (start + Width)]
        <3>1. /\ ABC \in Seq(Symbols) /\ Len(ABC) = Len(AB) + Len(C)
              /\ \A i \in 1 .. Len(AB) + Len(C) :
                   ABC[i] = IF i <= Len(AB) THEN AB[i] ELSE C[i - Len(AB)]
            BY <1>4, <1>7, ConcatProperties, Zenon
        <3> QED
            BY <1>1, <1>4, <1>7, <3>1
    <2>2. (start + Width + 1) - (start + Width) = 1
        BY <1>1
    <2> QED
        BY <1>1, <1>4, <2>1, <2>2
<1> HIDE DEF ABC
<1>9. /\ ABC \o D \in Seq(Symbols) /\ Len(ABC \o D) = start + Width + 1 + stop
      /\ \A i \in 1 .. start + Width + 1 : (ABC \o D)[i] = ABC[i]
      /\ stop = 1 => (ABC \o D)[start + Width + 2] = "P"
    <2>1. /\ ABC \o D \in Seq(Symbols) /\ Len(ABC \o D) = (start + Width + 1) + stop
          /\ \A i \in 1 .. (start + Width + 1) + stop :
               (ABC \o D)[i] = IF i <= start + Width + 1 THEN ABC[i] ELSE D[i - (start + Width + 1)]
        <3>1. /\ ABC \o D \in Seq(Symbols) /\ Len(ABC \o D) = Len(ABC) + Len(D)
              /\ \A i \in 1 .. Len(ABC) + Len(D) :
                   (ABC \o D)[i] = IF i <= Len(ABC) THEN ABC[i] ELSE D[i - Len(ABC)]
            BY <1>6, <1>8, ConcatProperties, Zenon
        <3> QED
            BY <1>1, <1>6, <1>8, <3>1
    <2>2. (start + Width + 2) - (start + Width + 1) = 1
        BY <1>1
    <2> QED
        BY <1>1, <1>6, <2>1, <2>2
<1>10. ASSUME NEW i \in 1 .. Len(wire) PROVE wire[i] = (ABC \o D)[i]
    <2>1. CASE i <= start
        <3>1. i = 1 /\ start = 1 /\ Transfer.cr.sta
            BY <1>1, <2>1 DEF start, One
        <3> QED
            BY <1>1, <1>7, <1>8, <1>9, <3>1 DEF Sent
    <2>2. CASE i > start /\ i <= start + Width
        <3>1. i - start \in 1 .. Width /\ start + (i - start) = i
            BY <1>1, <2>2
        <3>2. wire[start + (i - start)] = AB[start + (i - start)]
            BY <1>7, <3>1 DEF Sent
        <3>3. i \in 1 .. start + Width /\ i \in 1 .. start + Width + 1
            BY <1>1, <2>2
        <3> QED
            BY <1>8, <1>9, <3>1, <3>2, <3>3
    <2>3. CASE i = start + Width + 1
        BY <1>1, <1>8, <1>9, <2>3
    <2>4. CASE i = start + Width + 2 /\ stop = 1
        BY <1>1, <1>9, <2>4 DEF Complete, One
    <2>5. \/ i <= start
          \/ i > start /\ i <= start + Width
          \/ i = start + Width + 1
          \/ i = start + Width + 2 /\ stop = 1
        BY <1>1, <1>2
    <2> QED
        BY <2>1, <2>2, <2>3, <2>4, <2>5
<1>11. wire = ABC \o D
    BY <1>2, <1>9, <1>10, SeqEqual
<1> QED
    BY <1>11 DEF Framed, ABC, AB, A, C, D

-----------------------------------------------------------------------------
(* The program *)

LEMMA ObserveTyped ==
    ASSUME NEW seen \in Seq(Symbols), Observe(seen)
    PROVE  wire' \in Seq(Symbols)
BY SymbolTyped DEF Observe

\* The STOP of waitAck ends with a free bus.
LEMMA StoppingKept ==
    ASSUME CoreInv, Quiet, Stopping, Clock, NoWrite, Observe(wire)
    PROVE  Stopping'
<1> USE DEF Enter, Strobes
<1>1. /\ CoreTypes /\ Handshake /\ BitClk /\ ByteClk(cr, txr) /\ ~i2c_al /\ cr \in CommandRegister
      /\ core_ack \in BOOLEAN /\ host_ack \in BOOLEAN /\ cr' = Settled
    BY DEF CoreInv, Clock, Quiet, NoWrite, CoreTypes
<1>2. /\ ~cr'.sta /\ ~cr'.rd /\ ~cr'.wr
      /\ cr'.sto = (cr.sto /\ ~host_ack)
    BY <1>1 DEF Stopping, Settled, ClearedCommand, CommandRegister
<1>3. CASE c_state = "idle"
    <2>1. ~core_ack' /\ held' = held
        BY <1>1, <1>3, BitSteps DEF Handshake, CmdHeld, Observe
    <2>2. \/ Go(cr) /\ c_state' = "stop"
          \/ ~Go(cr) /\ c_state' = "idle" /\ ~host_ack'
        BY <1>1, <1>3 DEF Stopping, Go, ByteClk, ByteAbort, ByteTake, ByteWait, ByteStarted, ByteWrote,
                          ByteRead, ByteAcked, ByteStopped
    <2> QED
        BY <1>1, <1>2, <1>3, <2>1, <2>2 DEF Stopping, Go
<1>4. CASE c_state = "stop" /\ core_ack
    <2>1. c_state' = "idle" /\ ~core_ack' /\ held' = held
        BY <1>1, <1>4, BitSteps DEF Handshake, Observe, ByteClk, ByteAbort, ByteTake, ByteWait,
                    ByteStarted, ByteWrote, ByteRead, ByteAcked, ByteStopped
    <2> QED
        BY <1>2, <1>4, <2>1 DEF Stopping
<1>5. CASE c_state = "stop" /\ ~core_ack
    <2>1. c_state' = "stop"
        BY <1>1, <1>5 DEF ByteClk, ByteAbort, ByteTake, ByteWait, ByteStarted, ByteWrote, ByteRead,
                          ByteAcked, ByteStopped
    <2>2. core_ack' => ~held'
        BY <1>1, <1>5, BitSteps DEF Handshake, CmdHeld, Observe
    <2> QED
        BY <1>2, <2>1, <2>2 DEF Stopping
<1> QED
    BY <1>3, <1>4, <1>5 DEF Stopping

LEMMA StartsRight == Init => ProgramInv
<1> SUFFICES ASSUME Init PROVE ProgramInv
    OBVIOUS
<1>1. CoreInv /\ Driven
    BY CoreStarts DEF Init, CoreInit, BitInit, Driven
<1>2. Quiet /\ AtRest
    BY DEF Init, CoreInit, BitInit, ByteInit, TopInit, Quiet, AtRest, Go, NoCommand
<1>3. Places
    BY EmptySeq DEF Init, Places, InitPcs, Calling
<1> QED
    BY <1>1, <1>2, <1>3 DEF Init, ProgramInv, Kinds, Rests, Polls, Judges, Returned, InitPcs, Code

\* What an action does to the core and to the history, whatever it does.
LEMMA CoreKept ==
    ASSUME Alone, ProgramInv, Next
    PROVE  CoreInv' /\ Driven' /\ Quiet' /\ Kinds' /\ Clock /\ wire' \in Seq(Symbols)
<1>1. CoreInv /\ Driven /\ Places /\ Quiet /\ CoreTypes
    BY DEF ProgramInv, CoreInv
<1>2. /\ Clock
      /\ core_en' \in BOOLEAN /\ ien' \in BOOLEAN /\ txr' \in Byte /\ cr' \in CommandRegister
    BY <1>1, ProgramTyped
<1>3. Observe(wire) \/ Observe(<<>>)
    BY DEF Next, Access, Idle, Call, Rerun, InitCheck, InitDisable, InitPrescale, InitEnable,
           LoadTXR, Command, PollDone, PollAgain, PollTimeout, AbortTimeout, Acked, Refused,
           AbortRefused, ReceiveRXR
<1>4. wire \in Seq(Symbols) /\ <<>> \in Seq(Symbols)
    BY <1>1, EmptySeq DEF Places
<1>5. wire' \in Seq(Symbols)
    BY <1>3, <1>4, ObserveTyped
<1>6. Kinds'
    <2>1. \/ UNCHANGED result
          \/ result' \in {Code("timeout"), Code("written"), Code("refused")}
          \/ result' = [kind |-> "data", byte |-> sr]
        BY DEF Next, Access, Idle, progVars, Call, Rerun, InitCheck, InitDisable, InitPrescale,
               InitEnable, LoadTXR, Command, PollDone, PollAgain, PollTimeout, AbortTimeout, Acked,
               Refused, AbortRefused, ReceiveRXR, Goto, Return
    <2> QED
        BY <2>1 DEF ProgramInv, Kinds, Code
<1> QED
    BY <1>1, <1>2, <1>5, <1>6, CoreGoesOn, DrivenKept, QuietKept DEF Clock

ProgramStep == Places' /\ Rests' /\ Polls' /\ Judges' /\ Returned'

LEMMA WhileIdle == ASSUME Alone, ProgramInv, Idle PROVE ProgramStep
<1>0. /\ CoreInv /\ Quiet /\ Places /\ Rests /\ Polls /\ Judges /\ Returned
      /\ Clock /\ NoWrite /\ Observe(wire) /\ UNCHANGED <<pc, proc, k, result>>
      /\ wire' \in Seq(Symbols)
    BY CoreKept DEF ProgramInv, Idle, progVars, Next
<1>1. Transfer' = Transfer /\ core_en' = core_en /\ txr' = txr
    BY <1>0 DEF Transfer, NoWrite
<1>2. Places'
    BY <1>0, <1>1 DEF Places
<1>3. Rests'
    BY <1>0, RestStays DEF Rests
<1>4. Polls'
    BY <1>0, PollsKept DEF ProgramInv, Polling, Polls, Places, Calling
<1>5. Judges'
    BY <1>0, CompleteStays DEF Judges, Rests
<1>6. Returned'
    BY <1>0, RestStays, StoppingKept DEF Returned
<1> QED
    BY <1>2, <1>3, <1>4, <1>5, <1>6 DEF ProgramStep

\* The initialisation finds the core at rest and leaves it so.
LEMMA WhileInit ==
    ASSUME Alone, ProgramInv, InitCheck \/ InitDisable \/ InitPrescale \/ InitEnable \/ Rerun
    PROVE  ProgramStep
<1>0. /\ CoreInv /\ Quiet /\ Places /\ Rests /\ Returned
      /\ Clock /\ wire' \in Seq(Symbols)
    BY CoreKept DEF ProgramInv, Next, Access
<1>1. /\ AtRest /\ Observe(wire) /\ (cr' = cr \/ NoWrite)
      /\ UNCHANGED <<proc, k, result>>
      /\ pc \in InitPcs \cup {"menu"} /\ pc' \in InitPcs \cup {"menu"}
      /\ pc' = "menu" => core_en'
    BY <1>0 DEF InitCheck, InitDisable, InitPrescale, InitEnable, Rerun, Reads, Writes, WriteCTR,
           WritePRER, Goto, InitPcs, Rests
<1>2. AtRest' /\ wire' = wire /\ held' = held /\ c_state' = "idle" /\ ~host_ack' /\ cr'.sto = cr.sto
    BY <1>0, <1>1, RestStays
<1>3. Places'
    BY <1>0, <1>1 DEF Places, InitPcs, Calling
<1>4. Returned'
    <2>1. Stopping => Stopping'
        <3>1. cr'.sta = cr.sta /\ cr'.rd = cr.rd /\ cr'.wr = cr.wr
            BY <1>0, <1>1 DEF NoWrite, AtRest, Settled, ClearedCommand, CoreInv, CoreTypes,
                              CommandRegister, Quiet
        <3> QED
            BY <1>1, <1>2, <3>1 DEF Stopping, AtRest
    <2> QED
        BY <1>0, <1>1, <1>2, <2>1 DEF Returned
<1>5. Rests' /\ Polls' /\ Judges'
    BY <1>1, <1>2 DEF Rests, Polls, Judges, InitPcs
<1> QED
    BY <1>3, <1>4, <1>5 DEF ProgramStep

LEMMA WhileCalling ==
    ASSUME Alone, ProgramInv, Call \/ LoadTXR \/ Command
    PROVE  ProgramStep
<1>0. /\ CoreInv /\ CoreTypes /\ Quiet /\ Places /\ Rests /\ Returned
      /\ Clock /\ wire' \in Seq(Symbols)
    BY CoreKept DEF ProgramInv, Next, Access, CoreInv
<1>1. CASE Call
    <2>1. AtRest /\ NoWrite /\ proc' \in Procedures /\ k' = 1 /\ pc' = "load" /\ core_en' = core_en
          /\ pc = "menu"
        BY <1>1 DEF Alone, Call, NoWrite
    <2>2. AtRest'
        BY <1>0, <2>1, RestStays
    <2>3. k' \in 1 .. Len(proc') /\ proc'[1].loads
        BY <2>1 DEF Procedures, readReg_24AA64, readReg_mcp23017, writeReg_mcp23017, Send
    <2>4. Places'
        BY <1>0, <2>1, <2>3 DEF Places, Calling, InitPcs, Transfer
    <2> QED
        BY <2>1, <2>2, <2>4 DEF ProgramStep, Rests, Polls, Judges, Returned, InitPcs
<1>2. CASE LoadTXR
    <2>1. /\ pc = "load" /\ pc' = "command" /\ txr' = Transfer.word /\ UNCHANGED <<proc, k>>
          /\ cr' = cr /\ core_en' = core_en
        BY <1>2 DEF LoadTXR, Writes, WriteTXR, Goto
    <2>2. AtRest'
        BY <1>0, <2>1, RestStays DEF Rests
    <2>3. Transfer' = Transfer
        BY <2>1 DEF Transfer
    <2>4. Places'
        BY <1>0, <2>1, <2>3 DEF Places, Calling, InitPcs
    <2> QED
        BY <2>1, <2>2, <2>4 DEF ProgramStep, Rests, Polls, Judges, Returned, InitPcs
<1>3. CASE Command
    <2>1. /\ pc = "command" /\ pc' = "poll" /\ cr' = Transfer.cr /\ UNCHANGED <<proc, k>>
          /\ txr' = txr /\ core_en' = core_en /\ iack_o /\ Observe(<<>>)
          /\ AtRest /\ proc \in Procedures /\ k \in 1 .. Len(proc)
        BY <1>0, <1>3 DEF Command, Writes, WriteCR, Places, InitPcs, Rests, Calling
    <2>2. c_state' = "idle" /\ ~host_ack' /\ ~tip' /\ wire' = <<>> /\ ~iack_o'
        BY <1>0, <2>1, RestStays DEF Clock, Acknowledge
    <2>3. Transfer' = Transfer /\ (Transfer.cr.rd \/ Transfer.cr.wr) /\ Busy'
        BY <2>1, Transfers DEF Transfer, Busy
    <2>4. Follows' /\ Spelled'
        BY <2>1, <2>2, <2>3 DEF Follows, Spelled, Before, InStart, InWrite, InRead, InAck, InStop,
                                After
    <2>5. Places'
        BY <1>0, <2>1, <2>3 DEF Places, Calling, InitPcs
    <2> QED
        BY <2>1, <2>4, <2>5 DEF ProgramStep, Rests, Polls, Judges, Returned, InitPcs
<1> QED
    BY <1>1, <1>2, <1>3

LEMMA WhilePolling ==
    ASSUME Alone, ProgramInv, PollDone \/ PollAgain \/ PollTimeout
    PROVE  ProgramStep /\ Polling
<1>0. /\ CoreInv /\ Driven /\ Quiet /\ Places /\ Polls
      /\ Clock /\ wire' \in Seq(Symbols)
    BY CoreKept DEF ProgramInv, Next, Access
<1>1. /\ pc = "poll" /\ NoWrite /\ Observe(wire) /\ UNCHANGED <<proc, k, core_en, txr>> /\ iack_o
      /\ \/ pc' = "poll"
         \/ pc' = "abort timeout"
         \/ ~tip /\ Transfer.cr.rd /\ pc' = "receive"
         \/ ~tip /\ ~Transfer.cr.rd /\ pc' = "acknowledge"
    BY DEF PollDone, PollAgain, PollTimeout, Reads, NoWrite, Goto
<1>2. Polling
    BY <1>0, <1>1 DEF Polling, Polls, Places, Calling
<1>3. Transfer' = Transfer
    BY <1>1 DEF Transfer
<1>4. Places'
    BY <1>0, <1>1, <1>3 DEF Places, Calling, InitPcs
<1>5. Polls'
    BY <1>2, PollsKept DEF Polls
<1>6. pc' \in {"acknowledge", "receive"} => AtRest' /\ Complete'
    <2> SUFFICES ASSUME pc' \in {"acknowledge", "receive"} PROVE AtRest' /\ Complete'
        OBVIOUS
    <2>1. AtRest /\ Complete
        BY <1>1, <1>2, PollEnds
    <2> QED
        BY <1>0, <1>1, <2>1, RestStays, CompleteStays
<1>7. Rests' /\ Judges' /\ Returned'
    BY <1>1, <1>6 DEF Rests, Judges, Returned, InitPcs
<1> QED
    BY <1>2, <1>4, <1>5, <1>7 DEF ProgramStep

LEMMA WhileJudging ==
    ASSUME Alone, ProgramInv,
           Acked \/ Refused \/ AbortRefused \/ AbortTimeout \/ ReceiveRXR
    PROVE  ProgramStep
<1>0. /\ CoreInv /\ Driven /\ Quiet /\ Places /\ Rests /\ Judges
      /\ Clock /\ wire' \in Seq(Symbols)
    BY CoreKept DEF ProgramInv, Next, Access
<1>1. CASE AbortTimeout
    <2>1. pc' = "menu" /\ result'.kind = "timeout" /\ core_en' = core_en /\ pc = "abort timeout"
        BY <1>1 DEF AbortTimeout, Writes, WriteCR, Return, Code
    <2> QED
        BY <1>0, <2>1 DEF ProgramStep, Places, Rests, Polls, Judges, Returned, InitPcs, Calling
<1>2. CASE AbortRefused
    <2>1. /\ pc = "abort refused" /\ pc' = "menu" /\ result'.kind = "refused" /\ core_en' = core_en
          /\ cr' = StopCommand /\ AtRest
        BY <1>0, <1>2 DEF AbortRefused, Writes, WriteCR, Return, Code, Places, InitPcs, Rests
    <2>2. Stopping'
        BY <1>0, <2>1, RestStays DEF Stopping, StopCommand, NoCommand
    <2> QED
        BY <1>0, <2>1, <2>2 DEF ProgramStep, Places, Rests, Polls, Judges, Returned, InitPcs, Calling
<1>3. ASSUME Acked \/ Refused \/ ReceiveRXR
      PROVE  /\ pc \in {"acknowledge", "receive"} /\ AtRest /\ AtRest' /\ Complete
             /\ NoWrite /\ Observe(wire) /\ wire' = wire /\ held' = held
             /\ UNCHANGED <<proc, core_en, txr>>
             /\ proc \in Procedures /\ k \in 1 .. Len(proc) /\ Transfer.cr \in CommandRegister
    <2>1. /\ pc \in {"acknowledge", "receive"} /\ NoWrite /\ Observe(wire)
          /\ UNCHANGED <<proc, core_en, txr>>
        BY <1>3 DEF Acked, Refused, ReceiveRXR, Reads, NoWrite, Goto, Return
    <2>2. AtRest /\ Complete /\ proc \in Procedures /\ k \in 1 .. Len(proc)
        BY <1>0, <2>1 DEF Rests, Judges, Places, Calling
    <2> QED
        BY <1>0, <2>1, <2>2, RestStays, Transfers
<1>4. CASE ReceiveRXR
    <2>1. pc = "receive" /\ pc' = "menu" /\ result' = [kind |-> "data", byte |-> sr]
        BY <1>4 DEF ReceiveRXR, Return
    <2>2. Transfer.cr.rd /\ Transfer = Receive /\ Transfer.cr.sto
        BY <1>0, <1>3, <1>4, <2>1, Transfers DEF Places
    <2>3. wire = Framed(Transfer, sr, "1")
        BY <1>0, <1>3, <1>4, <2>2, CompleteIsFramed, WidthAssumption DEF Complete, ByteAndAck, Places
    <2>4. ~held
        BY <1>3, <1>4, <2>2 DEF Complete
    <2>5. Returned'
        BY <1>3, <1>4, <2>1, <2>2, <2>3, <2>4 DEF Returned
    <2> QED
        BY <1>0, <1>3, <1>4, <2>1, <2>5 DEF ProgramStep, Places, Rests, Polls, Judges, InitPcs, Calling
<1>5. CASE Refused
    <2>1. pc = "acknowledge" /\ pc' = "abort refused" /\ k' = k
        BY <1>5 DEF Refused, Goto
    <2> QED
        BY <1>0, <1>3, <1>5, <2>1 DEF ProgramStep, Places, Rests, Polls, Judges, Returned, InitPcs,
                                      Calling
<1>6. CASE Acked
    <2>1. CASE k = Len(proc)
        <3>1. pc' = "menu" /\ result'.kind = "written"
            BY <1>6, <2>1 DEF Acked, Return, Code
        <3>2. ~held
            BY <1>3, <1>6, <2>1, Transfers DEF Complete
        <3>3. Returned'
            BY <1>3, <1>6, <3>1, <3>2 DEF Returned
        <3> QED
            BY <1>0, <1>3, <1>6, <3>1, <3>3 DEF ProgramStep, Places, Rests, Polls, Judges, InitPcs,
                                                Calling
    <2>2. CASE k # Len(proc)
        <3>1. k' = k + 1 /\ pc' = IF proc[k+1].loads THEN "load" ELSE "command"
            BY <1>6, <2>2 DEF Acked
        <3>2. k' \in 1 .. Len(proc') /\ Transfer' = proc[k+1]
            BY <1>3, <1>6, <2>2, <3>1 DEF Transfer, Procedures, readReg_24AA64, readReg_mcp23017,
                                          writeReg_mcp23017
        <3>3. Places'
            BY <1>0, <1>3, <1>6, <3>1, <3>2 DEF Places, InitPcs, Calling
        <3> QED
            BY <1>3, <1>6, <3>1, <3>3 DEF ProgramStep, Rests, Polls, Judges, Returned, InitPcs
    <2> QED
        BY <2>1, <2>2
<1> QED
    BY <1>1, <1>2, <1>4, <1>5, <1>6

LEMMA ProgramGoesOn == ASSUME Alone, ProgramInv, [Next]_vars PROVE ProgramInv'
<1>1. CASE Next
    <2>1. ProgramStep
        BY <1>1, WhileIdle, WhileInit, WhileCalling, WhilePolling, WhileJudging DEF Next, Access
    <2> QED
        BY <1>1, <2>1, CoreKept DEF ProgramStep, ProgramInv
<1>2. CASE UNCHANGED vars
    <2>1. CoreInv' /\ Driven'
        BY <1>2, CoreStutters DEF vars, coreVars, bitVars, byteVars, Driven, ProgramInv
    <2>2. UNCHANGED <<bitVars, byteVars, topVars, pc, proc, k, result, wire, held>>
        BY <1>2 DEF vars, coreVars, progVars
    <2>3. Transfer' = Transfer /\ start' = start /\ AtRest' = AtRest /\ Busy' = Busy
        BY <2>2 DEF Transfer, start, byteVars, topVars, AtRest, Go, Busy
    <2>4. Places' /\ Kinds' /\ Quiet' /\ Rests'
        BY <2>2, <2>3 DEF ProgramInv, Places, Kinds, Quiet, Rests, bitVars, byteVars, topVars
    <2>5. Complete' = Complete
        BY <2>2, <2>3 DEF byteVars, Complete, ByteAndAck, Sent
    <2>6. Judges' /\ Returned'
        BY <2>2, <2>3, <2>5 DEF ProgramInv, Judges, Returned, Stopping, bitVars, byteVars, topVars
    <2>7. Polls'
        BY <2>2, <2>3, <2>5
        DEF ProgramInv, Polls, Follows, Spelled, Before, InStart, InWrite, InRead, InAck, InStop, After,
            Sent, Received, ByteAndAck, Remaining, bitVars, byteVars, topVars
    <2> QED
        BY <2>1, <2>4, <2>6, <2>7 DEF ProgramInv
<1> QED
    BY <1>1, <1>2

-----------------------------------------------------------------------------
(* Theorems *)

\* The inductive invariant holds in every behaviour.
THEOREM ProgramInvariance == Alone => (Spec => []ProgramInv)
<1> SUFFICES ASSUME Alone PROVE Spec => []ProgramInv
    OBVIOUS
<1>1. ProgramInv /\ [Next]_vars => ProgramInv'
    BY ProgramGoesOn
<1> QED
    BY <1>1, StartsRight, PTL DEF Spec

\* A command is written to CR only when the one before is finished.
THEOREM CommandsAreTaken == Alone => (Spec => TakenWhenFinished)
<1> SUFFICES ASSUME Alone PROVE Spec => TakenWhenFinished
    OBVIOUS
<1>1. ProgramInv /\ [Next]_vars => [pc = "command" /\ pc' = "poll" => AtRest]_vars
    BY DEF ProgramInv, Rests
<1> QED
    BY <1>1, ProgramInvariance, PTL DEF Spec, TakenWhenFinished

\* waitTransfer succeeds only when the bus has carried exactly the transfer.
THEOREM SuccessIsReal == Alone => (Spec => SuccessMeansDone)
<1> SUFFICES ASSUME Alone PROVE Spec => SuccessMeansDone
    OBVIOUS
<1>1. ProgramInv /\ [Next]_vars =>
        [pc = "poll" /\ pc' \in {"acknowledge", "receive"} => OnTheBus(Transfer)]_vars
    <2> SUFFICES ASSUME ProgramInv, Next, pc = "poll", pc' \in {"acknowledge", "receive"}
                 PROVE  OnTheBus(Transfer)
        OBVIOUS
    <2>1. PollDone /\ ~tip /\ iack_o
        BY DEF Next, Access, Idle, progVars, Call, Rerun, InitCheck, InitDisable, InitPrescale,
               InitEnable, LoadTXR, Command, PollDone, PollAgain, PollTimeout, AbortTimeout, Acked,
               Refused, AbortRefused, ReceiveRXR, Goto, Return, Reads
    <2>2. Complete /\ wire \in Seq(Symbols) /\ Transfer.cr \in CommandRegister /\ sr \in Byte
        BY <2>1, WhilePolling, PollEnds, Transfers DEF Polling, CoreInv, CoreTypes
    <2>3. CASE Transfer.cr.rd
        <3>1. wire = Framed(Transfer, sr, "1")
            BY <2>2, <2>3, CompleteIsFramed, WidthAssumption DEF Complete, ByteAndAck
        <3> QED
            BY <2>2, <2>3, <3>1 DEF OnTheBus
    <2>4. CASE ~Transfer.cr.rd
        <3>1. wire = Framed(Transfer, Transfer.word, Digit(ack_out))
            BY <2>2, <2>4, CompleteIsFramed, WidthAssumption DEF Complete, ByteAndAck
        <3>2. Digit(ack_out) \in {"0", "1"}
            BY DEF Digit
        <3> QED
            BY <2>4, <3>1, <3>2 DEF OnTheBus
    <2> QED
        BY <2>3, <2>4
<1> QED
    BY <1>1, ProgramInvariance, PTL DEF Spec, SuccessMeansDone

\* waitAck answers with the acknowledge bit of the byte just sent.
THEOREM AnswersAreFresh == Alone => (Spec => AnswerIsFresh)
<1> SUFFICES ASSUME Alone PROVE Spec => AnswerIsFresh
    OBVIOUS
<1> DEFINE answer == wire[Len(wire) - One(Transfer.cr.sto)]
<1>1. ProgramInv /\ [Next]_vars =>
        [pc = "acknowledge" /\ pc' # pc => ((pc' = "abort refused") = (answer = "1"))]_vars
    <2> SUFFICES ASSUME ProgramInv, Next, pc = "acknowledge", pc' # pc
                 PROVE  (pc' = "abort refused") = (answer = "1")
        OBVIOUS
    <2>1. \/ rxack = 0 /\ pc' # "abort refused"
          \/ rxack = 1 /\ pc' = "abort refused"
        BY DEF Next, Access, Idle, progVars, Call, Rerun, InitCheck, InitDisable, InitPrescale,
               InitEnable, LoadTXR, Command, PollDone, PollAgain, PollTimeout, AbortTimeout, Acked,
               Refused, AbortRefused, ReceiveRXR, Goto, Return, InitPcs
    <2>2. Complete /\ rxack = ack_out /\ ~Transfer.cr.rd
        BY DEF ProgramInv, Judges, Rests, AtRest, Quiet, Places
    <2>3. Len(wire) - One(Transfer.cr.sto) = start + Width + 1
        BY <2>2, WidthAssumption DEF Complete, One, start
    <2>4. answer = wire[start + Width + 1]
        BY <2>3, Zenon
    <2>5. answer = Digit(rxack)
        BY <2>2, <2>4 DEF Complete, ByteAndAck
    <2> HIDE DEF answer
    <2>6. CASE rxack = 0 /\ pc' # "abort refused"
        <3>0. 0 # 1
            OBVIOUS
        <3>1. rxack # 1
            BY <2>6, <3>0, Zenon
        <3>2. answer = "0"
            BY <2>5, <3>1, Zenon DEF Digit
        <3> QED
            BY <2>6, <3>2
    <2>7. CASE rxack = 1 /\ pc' = "abort refused"
        <3>1. answer = "1"
            BY <2>5, <2>7 DEF Digit
        <3> QED
            BY <2>7, <3>1
    <2> QED
        BY <2>1, <2>6, <2>7
<1> QED
    BY <1>1, ProgramInvariance, PTL DEF Spec, AnswerIsFresh

\* A byte returned as data is the one the bus has carried, with NACK and STOP.
THEOREM DataGenuine == Alone => (Spec => []DataIsGenuine)
<1> SUFFICES ASSUME Alone PROVE Spec => []DataIsGenuine
    OBVIOUS
<1>1. ProgramInv => DataIsGenuine
    BY DEF ProgramInv, Returned, DataIsGenuine
<1> QED
    BY <1>1, ProgramInvariance, PTL

\* After success and after a refusal the bus is free when the core is at rest.
THEOREM BusIsReleased == Alone => (Spec => []BusReleased)
<1> SUFFICES ASSUME Alone PROVE Spec => []BusReleased
    OBVIOUS
<1>1. ProgramInv => BusReleased
    BY DEF ProgramInv, Kinds, Returned, Stopping, AtRest, Go, BusReleased
<1> QED
    BY <1>1, ProgramInvariance, PTL
=============================================================================
