------------------------- MODULE I2cMasterTop_proofs -------------------------
(***************************************************************************)
(* Lemmas about the core, whoever writes its registers: what one clock     *)
(* edge, or a reset, does to the inductive invariant CoreInv.  They serve  *)
(* the theorems about the core under any host and about the program.       *)
(***************************************************************************)
EXTENDS I2cMasterTop, TLAPS

-----------------------------------------------------------------------------
(* Types, one lemma per entity. *)

BitTypes ==
    /\ bit_cmd \in Cmds /\ stage \in 0 .. 2
    /\ core_ack \in BOOLEAN /\ i2c_al \in BOOLEAN /\ core_rxd \in Bit

ByteTypes ==
    /\ c_state \in States /\ core_cmd \in Cmds /\ core_txd \in Bit /\ ack_out \in Bit
    /\ shift \in BOOLEAN /\ ld \in BOOLEAN /\ host_ack \in BOOLEAN
    /\ sr \in Byte /\ dcnt \in 0 .. Width-1

TopTypes ==
    /\ iack_o \in BOOLEAN /\ core_en \in BOOLEAN /\ ien \in BOOLEAN
    /\ txr \in Byte /\ cr \in CommandRegister
    /\ al \in BOOLEAN /\ rxack \in Bit /\ tip \in BOOLEAN
    /\ irq_flag \in BOOLEAN /\ wb_inta_o \in BOOLEAN
    /\ nbits \in [Cmds -> Nat]

LEMMA TypeParts == CoreTypes <=> BitTypes /\ ByteTypes /\ TopTypes
BY DEF CoreTypes, BitTypes, ByteTypes, TopTypes

\* An edge of the bit controller keeps its registers in range.
LEMMA BitTyped == ASSUME BitTypes, core_cmd \in Cmds, BitClk PROVE BitTypes'
<1>1. i2c_al' \in BOOLEAN
    BY DEF BitClk, Arbitrate
<1>2. core_ack' \in BOOLEAN
    BY Zenon DEF BitClk, BitIdle, BitAccept, BitWork, BitFinish, BitLost
<1>3. bit_cmd' \in Cmds
    BY DEF BitTypes, Cmds, BitClk, BitIdle, BitAccept, BitWork, BitFinish, BitLost
<1>4. stage' \in 0 .. 2
    BY DEF BitTypes, BitClk, BitIdle, BitAccept, BitWork, BitFinish, BitLost
<1>5. core_rxd' \in Bit
    BY DEF BitTypes, BitClk, Sample
<1> QED
    BY <1>1, <1>2, <1>3, <1>4, <1>5 DEF BitTypes

\* The shift register and the counter stay in range: the counter wraps.
LEMMA ShiftTyped ==
    ASSUME ByteTypes, NEW din \in Byte, core_rxd \in Bit, ByteShift(din)
    PROVE  sr' \in Byte /\ dcnt' \in 0 .. Width-1
<1>1. Width \in Nat \ {0}
    BY WidthAssumption
<1>2. sr' \in Byte
    BY <1>1 DEF ByteTypes, ByteShift, Byte
<1>3. dcnt' \in 0 .. Width-1
    BY <1>1 DEF ByteTypes, ByteShift
<1> QED
    BY <1>2, <1>3

\* An edge of the byte controller keeps its registers in range.
LEMMA ByteTyped ==
    ASSUME ByteTypes, core_rxd \in Bit, cr \in CommandRegister, txr \in Byte,
           ByteClk(cr, txr)
    PROVE  ByteTypes'
<1> USE DEF ByteTypes, Cmds, States, Bit, Enter, Strobes
<1>0. sr' \in Byte /\ dcnt' \in 0 .. Width-1
    BY ShiftTyped DEF ByteClk
<1>a. sr[Width-1] \in Bit /\ cr.ack \in Bit /\ cr.sto \in BOOLEAN
    BY WidthAssumption DEF Byte, CommandRegister
<1>1. CASE ByteAbort
    BY <1>0, <1>1 DEF ByteAbort
<1>2. CASE ByteTake(cr)
    BY <1>0, <1>a, <1>2 DEF ByteTake
<1>3. CASE ByteWait(cr)
    BY <1>0, <1>a, <1>3 DEF ByteWait
<1>4. CASE ByteStarted(cr)
    BY <1>0, <1>a, <1>4 DEF ByteStarted
<1>5. CASE ByteWrote
    BY <1>0, <1>a, <1>5 DEF ByteWrote, CntDone
<1>6. CASE ByteRead(cr)
    BY <1>0, <1>a, <1>6 DEF ByteRead
<1>7. CASE ByteAcked(cr)
    BY <1>0, <1>a, <1>7 DEF ByteAcked
<1>8. CASE ByteStopped
    BY <1>0, <1>a, <1>8 DEF ByteStopped
<1> QED
    BY <1>1, <1>2, <1>3, <1>4, <1>5, <1>6, <1>7, <1>8 DEF ByteClk

\* The register file keeps its registers in range on an edge of the core.
LEMMA StatusTyped ==
    ASSUME CoreTypes, Clock
    PROVE  /\ iack_o' \in BOOLEAN
           /\ al' \in BOOLEAN /\ rxack' \in Bit /\ tip' \in BOOLEAN
           /\ irq_flag' \in BOOLEAN /\ wb_inta_o' \in BOOLEAN
           /\ nbits' \in [Cmds -> Nat]
<1>1. iack_o' \in BOOLEAN
    BY DEF Clock, Acknowledge
<1>2. al' \in BOOLEAN /\ tip' \in BOOLEAN /\ irq_flag' \in BOOLEAN /\ wb_inta_o' \in BOOLEAN
    BY Zenon DEF Clock, StatusBits
<1>3. rxack' \in Bit
    BY DEF CoreTypes, Clock, StatusBits
<1>4. nbits' \in [Cmds -> Nat]
    BY DEF CoreTypes, Clock, CountBits, NoBits
<1> QED
    BY <1>1, <1>2, <1>3, <1>4

LEMMA ClearedTyped ==
    ASSUME cr \in CommandRegister
    PROVE  Settled \in CommandRegister
BY DEF CommandRegister, Settled, ClearedCommand

LEMMA InitTyped == CoreInit => CoreTypes
<1> SUFFICES ASSUME CoreInit PROVE CoreTypes
    OBVIOUS
<1>b. /\ core_ack \in BOOLEAN /\ i2c_al \in BOOLEAN
      /\ shift \in BOOLEAN /\ ld \in BOOLEAN /\ host_ack \in BOOLEAN
    BY Zenon DEF CoreInit, BitInit, ByteInit
<1>1. BitTypes
    BY <1>b DEF CoreInit, BitInit, BitTypes, Cmds, Bit
<1>2. ByteTypes
    BY <1>b, WidthAssumption DEF CoreInit, ByteInit, ByteTypes, Cmds, States, Bit, Byte, Zeros
<1>3. TopTypes
    BY DEF CoreInit, TopInit, TopTypes, Bit, Byte, Zeros, NoCommand, CommandRegister, NoBits
<1> QED
    BY <1>1, <1>2, <1>3, TypeParts

\* One edge of the core, whatever the host writes, given that what it writes
\* is a register value.
LEMMA ClockTyped ==
    ASSUME CoreTypes, Clock,
           core_en' \in BOOLEAN, ien' \in BOOLEAN, txr' \in Byte, cr' \in CommandRegister
    PROVE  CoreTypes'
<1>1. BitTypes'
    BY BitTyped, TypeParts DEF Clock, ByteTypes
<1>2. ByteTypes'
    BY ByteTyped, TypeParts DEF Clock, BitTypes, TopTypes
<1>3. TopTypes'
    BY StatusTyped DEF TopTypes
<1> QED
    BY <1>1, <1>2, <1>3 DEF CoreTypes, BitTypes, ByteTypes, TopTypes

\* A reset leaves every register in range.
LEMMA ResetTyped == CoreReset => CoreTypes'
<1> SUFFICES ASSUME CoreReset PROVE CoreTypes'
    OBVIOUS
<1>b. /\ (core_ack \in BOOLEAN)' /\ (i2c_al \in BOOLEAN)'
      /\ (shift \in BOOLEAN)' /\ (ld \in BOOLEAN)' /\ (host_ack \in BOOLEAN)'
    BY Zenon DEF CoreReset
<1>1. BitTypes'
    BY <1>b DEF CoreReset, BitTypes, Cmds, Bit
<1>2. ByteTypes'
    BY <1>b, WidthAssumption DEF CoreReset, ByteTypes, Cmds, States, Bit, Byte, Zeros
<1>3. TopTypes'
    BY DEF CoreReset, Acknowledge, TopTypes, Bit, Byte, Zeros, NoCommand, CommandRegister, NoBits
<1> QED
    BY <1>1, <1>2, <1>3 DEF CoreTypes, BitTypes, ByteTypes, TopTypes

-----------------------------------------------------------------------------
(* The handshake of the two state machines. *)

\* What one edge does to the bit controller, said without its stages: it
\* stays, accepts, or is through, and it is through only while a command runs.
LEMMA BitSteps ==
    ASSUME BitClk, core_ack \in BOOLEAN
    PROVE  \/ bit_cmd = "NOP" /\ bit_cmd' = "NOP" /\ ~core_ack' /\ ~i2c_al
           \/ bit_cmd = "NOP" /\ core_cmd # "NOP" /\ ~core_ack
                /\ bit_cmd' = core_cmd /\ ~core_ack' /\ ~i2c_al
           \/ bit_cmd # "NOP" /\ bit_cmd' = bit_cmd /\ ~core_ack' /\ ~i2c_al
           \/ bit_cmd # "NOP" /\ bit_cmd' = "NOP" /\ core_ack' /\ ~i2c_al
           \/ i2c_al /\ bit_cmd' = "NOP" /\ ~core_ack'
BY Zenon DEF BitClk, BitIdle, BitAccept, BitWork, BitFinish, BitLost

\* An edge of both controllers keeps the handshake.
LEMMA HandshakeKept ==
    ASSUME CoreTypes, Handshake, BitClk, ByteClk(cr, txr)
    PROVE  Handshake'
<1> USE DEF Handshake, CmdHeld, Enter, Strobes
<1>0. core_ack \in BOOLEAN /\ c_state \in States
    BY DEF CoreTypes
<1>1. CASE ByteAbort
    BY <1>0, <1>1, BitSteps DEF ByteAbort
<1>2. CASE ByteTake(cr)
    BY <1>0, <1>2, BitSteps DEF ByteTake
<1>3. CASE ByteWait(cr)
    BY <1>0, <1>3, BitSteps DEF ByteWait
<1>4. CASE ByteStarted(cr)
    BY <1>0, <1>4, BitSteps DEF ByteStarted
<1>5. CASE ByteWrote
    BY <1>0, <1>5, BitSteps DEF ByteWrote
<1>6. CASE ByteRead(cr)
    BY <1>0, <1>6, BitSteps DEF ByteRead
<1>7. CASE ByteAcked(cr)
    BY <1>0, <1>7, BitSteps DEF ByteAcked
<1>8. CASE ByteStopped
    BY <1>0, <1>8, BitSteps DEF ByteStopped
<1> QED
    BY <1>1, <1>2, <1>3, <1>4, <1>5, <1>6, <1>7, <1>8 DEF ByteClk

-----------------------------------------------------------------------------
(* The bit count. *)

\* In the edges on which the byte controller follows an acknowledge, the
\* bit controller is idle, so nothing is counted and none is outstanding.
LEMMA FollowsAck ==
    ASSUME CoreTypes, Handshake, BitClk, CountBits, ~i2c_al, core_ack
    PROVE  ~core_ack' /\ nbits' = nbits
<1>1. bit_cmd = "NOP" /\ c_state # "idle" /\ core_ack \in BOOLEAN
    BY DEF Handshake, CoreTypes
<1>2. ~core_ack'
    BY <1>1, BitSteps
<1> QED
    BY <1>1, <1>2 DEF CountBits

\* While the byte controller waits, the only change is a bit that completes.
LEMMA WhileWaiting ==
    ASSUME CoreTypes, Handshake, BitClk, ByteWait(cr), CountBits, c_state # "idle"
    PROVE  \/ ~core_ack' /\ nbits' = nbits
           \/ core_ack' /\ ~ld /\ ~shift /\ nbits' = [nbits EXCEPT ![core_cmd] = @ + 1]
<1>1. ~i2c_al /\ ~core_ack /\ c_state' = c_state /\ core_ack \in BOOLEAN
    BY DEF ByteWait, CoreTypes
<1>2. CASE ~core_ack'
    BY <1>1, <1>2 DEF CountBits
<1>3. CASE core_ack'
    <2>1. bit_cmd # "NOP"
        BY <1>1, <1>3, BitSteps
    <2>2. core_cmd = bit_cmd /\ ~ld /\ ~shift
        BY <2>1 DEF Handshake, CmdHeld
    <2> QED
        BY <1>1, <1>3, <2>2 DEF CountBits
<1> QED
    BY <1>2, <1>3

\* The strobes of this clock turn Remaining into the value of dcnt.
LEMMA CountLatched ==
    ASSUME CoreTypes, ByteShift(txr), Remaining \in 0 .. Width-1
    PROVE  dcnt' = Remaining
BY WidthAssumption DEF CoreTypes, ByteShift, Remaining

LEMMA CountingKept ==
    ASSUME CoreTypes, Handshake, Counting, BitClk, ByteClk(cr, txr), CountBits
    PROVE  Counting' /\ WholeFrames'
<1> USE DEF Enter, Strobes, Carried, One
<1>0. /\ core_ack \in BOOLEAN /\ c_state \in States /\ nbits \in [Cmds -> Nat]
      /\ Width \in Nat \ {0} /\ dcnt \in 0 .. Width-1
    BY WidthAssumption DEF CoreTypes
<1>s. ByteShift(txr)
    BY DEF ByteClk
<1>1. CASE ByteAbort
    BY <1>1 DEF ByteAbort, Counting, WholeFrames
<1>2. CASE ByteTake(cr)
    <2>1. bit_cmd = "NOP" /\ core_cmd = "NOP"
        BY <1>2 DEF ByteTake, Handshake, CmdHeld
    <2>2. ~core_ack'
        BY <1>0, <2>1, BitSteps
    <2>3. nbits' = NoBits /\ c_state' \in {"start", "read", "write", "stop"}
          /\ ld' /\ ~host_ack'
        BY <1>2 DEF ByteTake, CountBits
    <2> QED
        BY <1>0, <2>2, <2>3 DEF Counting, WholeFrames, Remaining, NoBits, Cmds
<1>3. CASE ByteWait(cr)
    <2>1. /\ c_state' = c_state /\ core_cmd' = core_cmd
          /\ ~ld' /\ ~shift' /\ ~host_ack'
        BY <1>3 DEF ByteWait
    <2>2. CASE c_state = "idle"
        BY <2>1, <2>2 DEF Counting, WholeFrames
    <2>3. CASE c_state # "idle"
        <3>1. ~core_ack
            BY <1>3, <2>3 DEF ByteWait
        <3>2. c_state \in {"write", "read"} => Remaining' = Remaining /\ Remaining \in 0 .. Width-1
            BY <1>s, <2>1, CountLatched DEF Counting, Remaining
        <3>3. CASE ~core_ack' /\ nbits' = nbits
            BY <2>1, <2>3, <3>1, <3>2, <3>3 DEF Counting, WholeFrames
        <3>4. CASE core_ack' /\ nbits' = [nbits EXCEPT ![core_cmd] = @ + 1]
            BY <1>0, <2>1, <2>3, <3>1, <3>2, <3>4
            DEF Counting, WholeFrames, Handshake, States, Cmds
        <3> QED
            BY <1>3, <2>3, <3>3, <3>4, WhileWaiting
    <2> QED
        BY <2>2, <2>3
<1>4. CASE ByteStarted(cr)
    <2>1. ~core_ack' /\ nbits' = nbits /\ ld' /\ ~host_ack' /\ core_ack
          /\ c_state = "start" /\ c_state' \in {"read", "write"}
        BY <1>4, FollowsAck DEF ByteStarted
    <2> QED
        BY <1>0, <2>1 DEF Counting, WholeFrames, Remaining
<1>5. CASE ByteWrote
    <2>1. ~core_ack' /\ nbits' = nbits /\ ~ld' /\ ~host_ack' /\ core_ack /\ c_state = "write"
        BY <1>5, FollowsAck DEF ByteWrote
    <2>2. ~ld /\ ~shift /\ Remaining = dcnt /\ dcnt' = dcnt
        BY <1>s, <2>1, CountLatched DEF Handshake, Counting, Remaining
    <2>3. CASE dcnt = 0
        <3>1. c_state' = "ack" /\ core_cmd' = "READ"
            BY <1>5, <2>3 DEF ByteWrote, CntDone
        <3> QED
            BY <1>0, <2>1, <2>2, <2>3, <3>1 DEF Counting, WholeFrames
    <2>4. CASE dcnt # 0
        <3>1. c_state' = "write" /\ shift'
            BY <1>5, <2>4 DEF ByteWrote, CntDone
        <3> QED
            BY <1>0, <2>1, <2>2, <2>4, <3>1 DEF Counting, WholeFrames, Remaining
    <2> QED
        BY <2>3, <2>4
<1>6. CASE ByteRead(cr)
    <2>1. ~core_ack' /\ nbits' = nbits /\ ~ld' /\ ~host_ack' /\ core_ack /\ c_state = "read"
          /\ shift'
        BY <1>6, FollowsAck DEF ByteRead
    <2>2. ~ld /\ ~shift /\ Remaining = dcnt /\ dcnt' = dcnt
        BY <1>s, <2>1, CountLatched DEF Handshake, Counting, Remaining
    <2>3. CASE dcnt = 0
        <3>1. c_state' = "ack" /\ core_cmd' = "WRITE"
            BY <1>6, <2>3 DEF ByteRead, CntDone
        <3> QED
            BY <1>0, <2>1, <2>2, <2>3, <3>1 DEF Counting, WholeFrames
    <2>4. CASE dcnt # 0
        <3>1. c_state' = "read"
            BY <1>6, <2>4 DEF ByteRead, CntDone
        <3> QED
            BY <1>0, <2>1, <2>2, <2>4, <3>1 DEF Counting, WholeFrames, Remaining
    <2> QED
        BY <2>3, <2>4
<1>7. CASE ByteAcked(cr)
    <2>1. ~core_ack' /\ nbits' = nbits /\ core_ack /\ c_state = "ack"
          /\ \/ c_state' = "stop" /\ ~host_ack'
             \/ c_state' = "idle"
        BY <1>7, FollowsAck DEF ByteAcked
    <2> QED
        BY <1>0, <2>1 DEF Counting, WholeFrames
<1>8. CASE ByteStopped
    <2>1. ~core_ack' /\ nbits' = nbits /\ core_ack /\ c_state = "stop" /\ c_state' = "idle"
        BY <1>8, FollowsAck DEF ByteStopped
    <2> QED
        BY <1>0, <2>1 DEF Counting, WholeFrames
<1> QED
    BY <1>1, <1>2, <1>3, <1>4, <1>5, <1>6, <1>7, <1>8 DEF ByteClk

-----------------------------------------------------------------------------
(* The inductive invariant of the core. *)

LEMMA CoreStarts == CoreInit => CoreInv
<1> SUFFICES ASSUME CoreInit PROVE CoreInv
    OBVIOUS
<1>1. CoreTypes
    BY InitTyped
<1>2. Handshake /\ Counting /\ WholeFrames
    BY DEF CoreInit, BitInit, ByteInit, Handshake, CmdHeld, Counting, WholeFrames
<1> QED
    BY <1>1, <1>2 DEF CoreInv

\* One edge of the core keeps it, whatever the host writes.
LEMMA CoreGoesOn ==
    ASSUME CoreInv, Clock,
           core_en' \in BOOLEAN, ien' \in BOOLEAN, txr' \in Byte, cr' \in CommandRegister
    PROVE  CoreInv'
<1>1. CoreTypes /\ Handshake /\ Counting /\ WholeFrames
    BY DEF CoreInv
<1>2. BitClk /\ ByteClk(cr, txr) /\ CountBits
    BY DEF Clock
<1> QED
    BY <1>1, <1>2, ClockTyped, HandshakeKept, CountingKept DEF CoreInv

LEMMA CoreIsReset == CoreReset => CoreInv'
BY ResetTyped DEF CoreReset, CoreInv, Handshake, CmdHeld, Counting, WholeFrames

LEMMA CoreStutters == CoreInv /\ UNCHANGED coreVars => CoreInv'
BY DEF coreVars, bitVars, byteVars, topVars, CoreInv, CoreTypes, Handshake, CmdHeld, Counting,
       WholeFrames, Carried, Remaining

-----------------------------------------------------------------------------
\* There is a byte command in CR: TIP in the next clock.
Busy == cr.rd \/ cr.wr

-----------------------------------------------------------------------------
(* The bit on SDA. *)

\* Once a data bit is under way, core_txd is the top of the shift register.
Driven ==
    bit_cmd = "WRITE" /\ c_state = "write" /\ stage > 0 => core_txd = sr[Width-1]

LEMMA DrivenKept ==
    ASSUME CoreInv, BitClk, ByteClk(cr, txr)
    PROVE  /\ Driven'
           /\ bit_cmd = "WRITE" /\ bit_cmd' = "WRITE" /\ c_state = "write"
                => core_txd' = sr[Width-1]
<1>1. CoreTypes /\ Handshake
    BY DEF CoreInv
<1>2. CASE bit_cmd' # "WRITE"
    BY <1>2 DEF Driven
<1>3. CASE bit_cmd' = "WRITE" /\ bit_cmd = "NOP"
    <2>1. stage' = 0
        BY <1>3 DEF BitClk, BitIdle, BitAccept, BitWork, BitFinish, BitLost
    <2> QED
        BY <1>3, <2>1 DEF Driven
<1>4. CASE bit_cmd' = "WRITE" /\ bit_cmd # "NOP"
    <2>1. ~i2c_al /\ ~core_ack /\ ~ld /\ ~shift /\ c_state # "idle"
        BY <1>1, <1>4 DEF Handshake, CmdHeld, BitClk, BitIdle, BitAccept, BitWork, BitFinish, BitLost
    <2>2. ByteWait(cr) /\ ByteShift(txr)
        BY <2>1 DEF ByteClk, ByteAbort, ByteTake, ByteStarted, ByteWrote, ByteRead, ByteAcked,
                    ByteStopped
    <2>3. sr' = sr
        BY <2>1, <2>2 DEF ByteShift
    <2> QED
        BY <2>2, <2>3 DEF Driven, ByteWait
<1> QED
    BY <1>2, <1>3, <1>4
=============================================================================
