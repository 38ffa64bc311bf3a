----------------------------- MODULE I2cByteCtrl -----------------------------
(***************************************************************************)
(* i2c_master_byte_ctrl: the state machine that turns one byte command     *)
(* into bit commands, with its shift register and bit counter.  Every      *)
(* action is one clock edge; sr, dcnt and the state machine are registers  *)
(* that all change on it.  The command inputs start, stop, read, write and *)
(* ack_in arrive as the fields sta, sto, rd, wr and ack of the record cmd. *)
(***************************************************************************)
EXTENDS I2cBitPromise

CONSTANT Width   \* bits of a byte: 8 in the source

ASSUME WidthAssumption == Width \in Nat \ {0}

VARIABLES
    c_state,    \* state machine
    core_txd,   \* bit to transmit
    shift, ld,  \* shift register strobes
    host_ack,   \* cmd_ack: byte command done, one clock wide
    ack_out,    \* acknowledge bit read from the slave
    sr,         \* shift register, sr[Width-1] leaves first
    dcnt        \* data counter

byteVars == <<c_state, core_cmd, core_txd, shift, ld, host_ack, ack_out, sr, dcnt>>

Byte   == [0 .. Width-1 -> Bit]
Zeros  == [i \in 0 .. Width-1 |-> 0]
States == {"idle", "start", "read", "write", "ack", "stop"}

ByteInit ==
    /\ c_state = "idle" /\ core_cmd = "NOP"
    /\ core_txd = 0
    /\ shift = FALSE /\ ld = FALSE /\ host_ack = FALSE
    /\ ack_out = 0
    /\ sr = Zeros
    /\ dcnt = 0

-----------------------------------------------------------------------------
\* Mutant: go not masked by the acknowledge of the previous command.
Go_Unmasked(cmd) == cmd.rd \/ cmd.wr \/ cmd.sto

Go(cmd) == (cmd.rd \/ cmd.wr \/ cmd.sto) /\ ~host_ack

\* Mutant: the counter is compared with one instead of zero.
CntDone_Early == dcnt = 1

CntDone == dcnt = 0

Enter(state, command) == c_state' = state /\ core_cmd' = command

\* Mutant: the shift strobe is not reset between two states.
Strobes_Sticky(s, l, h) == shift' = (s \/ shift) /\ ld' = l /\ host_ack' = h

\* The one-clock outputs: reset on every edge unless the state raises them.
Strobes(s, l, h) == shift' = s /\ ld' = l /\ host_ack' = h

ByteAbort ==
    /\ i2c_al
    /\ Enter("idle", "NOP")
    /\ Strobes(FALSE, FALSE, FALSE)
    /\ core_txd' = 0
    /\ ack_out' = 0

\* Mutant: start loses against read and write.
ByteTake_NoStart(cmd) ==
    /\ ~i2c_al
    /\ c_state = "idle" /\ Go(cmd)
    /\ \/ cmd.rd /\ Enter("read", "READ")
       \/ ~cmd.rd /\ cmd.wr /\ Enter("write", "WRITE")
       \/ ~cmd.rd /\ ~cmd.wr /\ Enter("stop", "STOP")
    /\ Strobes(FALSE, TRUE, FALSE)
    /\ core_txd' = sr[Width-1]
    /\ UNCHANGED ack_out

ByteTake(cmd) ==
    /\ ~i2c_al
    /\ c_state = "idle" /\ Go(cmd)
    /\ \/ cmd.sta /\ Enter("start", "START")
       \/ ~cmd.sta /\ cmd.rd /\ Enter("read", "READ")
       \/ ~cmd.sta /\ ~cmd.rd /\ cmd.wr /\ Enter("write", "WRITE")
       \/ ~cmd.sta /\ ~cmd.rd /\ ~cmd.wr /\ Enter("stop", "STOP")
    /\ Strobes(FALSE, TRUE, FALSE)
    /\ core_txd' = sr[Width-1]
    /\ UNCHANGED ack_out

ByteWait(cmd) ==
    /\ ~i2c_al
    /\ IF c_state = "idle" THEN ~Go(cmd) ELSE ~core_ack
    /\ UNCHANGED <<c_state, core_cmd, ack_out>>
    /\ Strobes(FALSE, FALSE, FALSE)
    /\ core_txd' = IF c_state = "ack" THEN cmd.ack ELSE sr[Width-1]

\* Mutant: the data phase is entered without waiting for the START.
ByteStarted_NoWait(cmd) ==
    /\ ~i2c_al
    /\ c_state = "start"
    /\ IF cmd.rd THEN Enter("read", "READ") ELSE Enter("write", "WRITE")
    /\ Strobes(FALSE, TRUE, FALSE)
    /\ core_txd' = sr[Width-1]
    /\ UNCHANGED ack_out

ByteStarted(cmd) ==
    /\ ~i2c_al
    /\ c_state = "start" /\ core_ack
    /\ IF cmd.rd THEN Enter("read", "READ") ELSE Enter("write", "WRITE")
    /\ Strobes(FALSE, TRUE, FALSE)
    /\ core_txd' = sr[Width-1]
    /\ UNCHANGED ack_out

ByteWrote ==
    /\ ~i2c_al
    /\ c_state = "write" /\ core_ack
    /\ IF CntDone THEN Enter("ack", "READ") ELSE Enter("write", "WRITE")
    /\ Strobes(~CntDone, FALSE, FALSE)
    /\ core_txd' = sr[Width-1]
    /\ UNCHANGED ack_out

ByteRead(cmd) ==
    /\ ~i2c_al
    /\ c_state = "read" /\ core_ack
    /\ IF CntDone THEN Enter("ack", "WRITE") ELSE Enter("read", "READ")
    /\ Strobes(TRUE, FALSE, FALSE)
    /\ core_txd' = cmd.ack
    /\ UNCHANGED ack_out

\* Mutant: the acknowledge bit of the slave is kept only when a STOP follows.
ByteAcked_Stale(cmd) ==
    /\ ~i2c_al
    /\ c_state = "ack" /\ core_ack
    /\ IF cmd.sto THEN Enter("stop", "STOP") ELSE Enter("idle", "NOP")
    /\ Strobes(FALSE, FALSE, ~cmd.sto)
    /\ ack_out' = IF cmd.sto THEN core_rxd ELSE ack_out
    /\ core_txd' = 1

ByteAcked(cmd) ==
    /\ ~i2c_al
    /\ c_state = "ack" /\ core_ack
    /\ IF cmd.sto THEN Enter("stop", "STOP") ELSE Enter("idle", "NOP")
    /\ Strobes(FALSE, FALSE, ~cmd.sto)
    /\ ack_out' = core_rxd
    /\ core_txd' = 1

ByteStopped ==
    /\ ~i2c_al
    /\ c_state = "stop" /\ core_ack
    /\ Enter("idle", "NOP")
    /\ Strobes(FALSE, FALSE, TRUE)
    /\ core_txd' = sr[Width-1]
    /\ UNCHANGED ack_out

\* Mutant: the counter does not wrap.
ByteShift_NoWrap(din) ==
    /\ sr' = IF ld THEN din
             ELSE IF shift THEN [i \in 0 .. Width-1 |-> IF i = 0 THEN core_rxd ELSE sr[i-1]]
             ELSE sr
    /\ dcnt' = IF ld THEN Width - 1 ELSE IF shift THEN dcnt - 1 ELSE dcnt

\* shift_register and data_cnt, driven by the strobes of the previous clock.
ByteShift(din) ==
    /\ sr' = IF ld THEN din
             ELSE IF shift THEN [i \in 0 .. Width-1 |-> IF i = 0 THEN core_rxd ELSE sr[i-1]]
             ELSE sr
    /\ dcnt' = IF ld \/ (shift /\ dcnt = 0) THEN Width - 1
               ELSE IF shift THEN dcnt - 1
               ELSE dcnt

ByteClk(cmd, din) ==
    /\ \/ ByteAbort
       \/ ByteTake(cmd)
       \/ ByteWait(cmd)
       \/ ByteStarted(cmd)
       \/ ByteWrote
       \/ ByteRead(cmd)
       \/ ByteAcked(cmd)
       \/ ByteStopped
    /\ ByteShift(din)
=============================================================================
