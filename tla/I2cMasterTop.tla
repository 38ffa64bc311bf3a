---------------------------- MODULE I2cMasterTop ----------------------------
(***************************************************************************)
(* i2c_master_top: the Wishbone registers of the I2C core, with the byte   *)
(* controller and the bit controller below them.  One step is one rising   *)
(* edge of wb_clk_i, on which every process of the three entities moves.   *)
(* A Wishbone access takes effect in a clock in which iack_o is '1'.       *)
(***************************************************************************)
EXTENDS I2cByteCtrl

VARIABLES
    iack_o,         \* Wishbone acknowledge
    core_en, ien,   \* control register bits
    txr,            \* transmit register
    cr,             \* command register
    al, rxack, tip, irq_flag,   \* status register bits
    wb_inta_o,      \* interrupt request
    nbits           \* history: bit commands completed for this byte command

topVars == <<iack_o, core_en, ien, txr, cr, al, rxack, tip, irq_flag, wb_inta_o>>
coreVars == <<bitVars, byteVars, topVars, nbits>>

CommandRegister ==
    [sta : BOOLEAN, sto : BOOLEAN, rd : BOOLEAN, wr : BOOLEAN, ack : Bit, iack : BOOLEAN]

NoCommand == [sta |-> FALSE, sto |-> FALSE, rd |-> FALSE, wr |-> FALSE, ack |-> 0, iack |-> FALSE]

NoBits == [c \in Cmds |-> 0]

TopInit ==
    /\ iack_o = FALSE
    /\ core_en = FALSE /\ ien = FALSE
    /\ txr = Zeros
    /\ cr = NoCommand
    /\ al = FALSE /\ rxack = 0 /\ tip = FALSE /\ irq_flag = FALSE
    /\ wb_inta_o = FALSE

CoreInit == BitInit /\ ByteInit /\ TopInit /\ nbits = NoBits

-----------------------------------------------------------------------------
ClearedCommand ==
    [cr EXCEPT !.sta = FALSE, !.sto = FALSE, !.rd = FALSE, !.wr = FALSE, !.iack = FALSE]

\* Mutant: the command is cleared when one of its bits is acknowledged.
Settled_OnBit == IF core_ack \/ i2c_al THEN ClearedCommand ELSE [cr EXCEPT !.iack = FALSE]

\* Mutant: only a lost arbitration clears the command.
Settled_Kept == IF i2c_al THEN ClearedCommand ELSE [cr EXCEPT !.iack = FALSE]

\* gen_cr without a write access: a finished or lost command is cleared.
Settled == IF host_ack \/ i2c_al THEN ClearedCommand ELSE [cr EXCEPT !.iack = FALSE]

\* Nothing is written: iack_o is '0', or the access is a read.
NoWrite == cr' = Settled /\ UNCHANGED <<core_en, ien, txr>>

\* Any write blocks the clearing of cr; a command is taken when the core is enabled.
WriteCR(command) ==
    /\ iack_o
    /\ cr' = IF core_en THEN command ELSE cr
    /\ UNCHANGED <<core_en, ien, txr>>

WriteTXR(word) == iack_o /\ txr' = word /\ UNCHANGED <<cr, core_en, ien>>

WriteCTR(en, i) == iack_o /\ core_en' = en /\ ien' = i /\ UNCHANGED <<cr, txr>>

WritePRER == iack_o /\ UNCHANGED <<cr, txr, core_en, ien>>

\* Mutant: TIP does not cover writes.
StatusBits_ReadsOnly ==
    /\ al' = (i2c_al \/ (al /\ ~cr.sta))
    /\ rxack' = ack_out
    /\ tip' = cr.rd
    /\ irq_flag' = ((host_ack \/ i2c_al \/ irq_flag) /\ ~cr.iack)
    /\ wb_inta_o' = (irq_flag /\ ien)

\* gen_sr_bits and gen_irq
StatusBits ==
    /\ al' = (i2c_al \/ (al /\ ~cr.sta))
    /\ rxack' = ack_out
    /\ tip' = (cr.rd \/ cr.wr)
    /\ irq_flag' = ((host_ack \/ i2c_al \/ irq_flag) /\ ~cr.iack)
    /\ wb_inta_o' = (irq_flag /\ ien)

\* gen_ack_o: stb is the host's strobe.
Acknowledge == \E stb \in BOOLEAN : iack_o' = (stb /\ ~iack_o)

\* History: what the bus has done for the byte command in progress.
CountBits ==
    nbits' = IF i2c_al \/ (c_state = "idle" /\ c_state' # "idle") THEN NoBits
             ELSE IF core_ack' THEN [nbits EXCEPT ![bit_cmd] = @ + 1]
             ELSE nbits

\* One clock edge for the core, whatever the host does with the registers.
Clock ==
    /\ BitClk
    /\ ByteClk(cr, txr)
    /\ StatusBits
    /\ Acknowledge
    /\ CountBits

\* wb_rst_i; the acknowledge has no reset.
CoreReset ==
    /\ Acknowledge
    /\ bit_cmd' = "NOP" /\ stage' = 0 /\ core_ack' = FALSE /\ i2c_al' = FALSE /\ core_rxd' = 0
    /\ c_state' = "idle" /\ core_cmd' = "NOP" /\ core_txd' = 0
    /\ shift' = FALSE /\ ld' = FALSE /\ host_ack' = FALSE /\ ack_out' = 0
    /\ sr' = Zeros /\ dcnt' = 0
    /\ core_en' = FALSE /\ ien' = FALSE /\ txr' = Zeros /\ cr' = NoCommand
    /\ al' = FALSE /\ rxack' = 0 /\ tip' = FALSE /\ irq_flag' = FALSE /\ wb_inta_o' = FALSE
    /\ nbits' = NoBits

One(b) == IF b THEN 1 ELSE 0

\* No command is being executed or about to be.
AtRest == c_state = "idle" /\ ~Go(cr) /\ ~host_ack
-----------------------------------------------------------------------------
(* What holds in every clock, whoever writes the registers *)

\* Every register keeps to its range.
CoreTypes ==
    /\ bit_cmd \in Cmds /\ stage \in 0 .. 2 /\ core_cmd \in Cmds
    /\ core_ack \in BOOLEAN /\ i2c_al \in BOOLEAN /\ core_rxd \in Bit
    /\ c_state \in States /\ core_txd \in Bit /\ ack_out \in Bit
    /\ shift \in BOOLEAN /\ ld \in BOOLEAN /\ host_ack \in BOOLEAN
    /\ sr \in Byte /\ dcnt \in 0 .. Width-1
    /\ iack_o \in BOOLEAN /\ core_en \in BOOLEAN /\ ien \in BOOLEAN
    /\ txr \in Byte /\ cr \in CommandRegister
    /\ al \in BOOLEAN /\ rxack \in Bit /\ tip \in BOOLEAN
    /\ irq_flag \in BOOLEAN /\ wb_inta_o \in BOOLEAN
    /\ nbits \in [Cmds -> Nat]

\* While the bit controller executes a bit command, the byte controller keeps
\* asking for that same command, whatever a host does to CR meanwhile.
CmdHeld == bit_cmd # "NOP" => core_cmd = bit_cmd

\* What the bus has carried for the byte command in progress.
Carried(start, write, read, stop) ==
    /\ nbits["START"] = start /\ nbits["STOP"] = stop
    /\ nbits["WRITE"] = write /\ nbits["READ"] = read
    /\ nbits["NOP"] = 0

\* cmd_ack is raised only when the bus has carried a whole frame: a byte and
\* its acknowledge in the opposite direction, with or without START and STOP,
\* or a STOP alone.  No bit is dropped or sent twice, even if CR and TXR are
\* overwritten meanwhile.
WholeFrames ==
    host_ack => \/ \E start, stop \in 0 .. 1 : \/ Carried(start, Width, 1, stop)
                                             \/ Carried(start, 1, Width, stop)
                \/ Carried(0, 0, 0, 1)

\* The inductive invariant behind CmdHeld and WholeFrames: Handshake and Counting.

\* The two state machines agree on what is being done: a command is changed
\* only in the clock of its acknowledge, and the strobes come right after it.
Handshake ==
    /\ CmdHeld
    /\ core_ack => bit_cmd = "NOP" /\ c_state # "idle"
    /\ ld \/ shift => bit_cmd = "NOP" /\ ~core_ack
    /\ host_ack => c_state = "idle"
    /\ c_state = "idle"  <=> core_cmd = "NOP"
    /\ c_state = "start" <=> core_cmd = "START"
    /\ c_state = "stop"  <=> core_cmd = "STOP"
    /\ c_state = "write" => core_cmd = "WRITE"
    /\ c_state = "read"  => core_cmd = "READ"

\* The value of dcnt once the strobes of this clock have been obeyed.
Remaining == IF ld THEN Width - 1 ELSE IF shift THEN dcnt - 1 ELSE dcnt

\* The counter tells how many bits of the byte the bus has carried, one more
\* in the clock in which the last of them is acknowledged.
Counting ==
    /\ c_state = "start" => Carried(One(core_ack), 0, 0, 0)
    /\ c_state \in {"write", "read"} => Remaining \in 0 .. Width-1
    /\ c_state = "write" =>
         \E start \in 0 .. 1 : Carried(start, Width - 1 - Remaining + One(core_ack), 0, 0)
    /\ c_state = "read" =>
         \E start \in 0 .. 1 : Carried(start, 0, Width - 1 - Remaining + One(core_ack), 0)
    /\ c_state = "ack" =>
         \E start \in 0 .. 1 : \/ core_cmd = "READ" /\ Carried(start, Width, One(core_ack), 0)
                               \/ core_cmd = "WRITE" /\ Carried(start, One(core_ack), Width, 0)
    /\ c_state = "stop" =>
         \/ \E start \in 0 .. 1 : \/ Carried(start, Width, 1, One(core_ack))
                                  \/ Carried(start, 1, Width, One(core_ack))
         \/ Carried(0, 0, 0, One(core_ack))

CoreInv == CoreTypes /\ Handshake /\ Counting /\ WholeFrames
=============================================================================
