---------------------------- MODULE I2cCore_proofs ----------------------------
(***************************************************************************)
(* Theorems about I2cCore, for every byte width, every set of bytes        *)
(* and commands, and hosts that look at TIP as well as hosts that do not.  *)
(***************************************************************************)
EXTENDS I2cCore, I2cMasterTop_proofs

-----------------------------------------------------------------------------
(* Any host *)

LEMMA Starts == Init => CoreInv /\ TypeOK
BY CoreStarts DEF Init, CoreInv, TypeOK

\* What a host writes is a register value.
LEMMA HostTyped ==
    ASSUME CoreTypes, ran \in BOOLEAN, Tick \/ HostCommands \/ HostLoads \/ HostControls
    PROVE  /\ core_en' \in BOOLEAN /\ ien' \in BOOLEAN /\ txr' \in Byte
           /\ cr' \in CommandRegister /\ ran' \in BOOLEAN
<1>0. core_en \in BOOLEAN /\ ien \in BOOLEAN /\ txr \in Byte /\ cr \in CommandRegister
      /\ ran \in BOOLEAN /\ host_ack \in BOOLEAN
    BY DEF CoreTypes
<1>1. ran' \in BOOLEAN
    BY <1>0, Zenon DEF Tick, HostCommands, HostLoads, HostControls
<1>2. CASE Tick
    BY <1>0, <1>1, <1>2, ClearedTyped DEF Tick, NoWrite
<1>3. CASE HostCommands
    BY <1>0, <1>1, <1>3, HostAssumption DEF HostCommands, WriteCR
<1>4. CASE HostLoads
    BY <1>0, <1>1, <1>4, HostAssumption DEF HostLoads, WriteTXR
<1>5. CASE HostControls
    BY <1>0, <1>1, <1>5 DEF HostControls, WriteCTR, WritePRER
<1> QED
    BY <1>2, <1>3, <1>4, <1>5

\* A host does not change its manners.
LEMMA PoliteStays == [Next]_vars => polite' = polite
BY DEF Next, Tick, HostCommands, HostLoads, HostControls, Reset, vars

LEMMA NextInv == CoreInv /\ TypeOK /\ [Next]_vars => CoreInv' /\ TypeOK'
<1> SUFFICES ASSUME CoreInv, TypeOK, [Next]_vars PROVE CoreInv' /\ ran' \in BOOLEAN
    BY PoliteStays DEF TypeOK, CoreInv
<1>1. CASE Tick \/ HostCommands \/ HostLoads \/ HostControls
    <2>1. Clock
        BY <1>1 DEF Tick, HostCommands, HostLoads, HostControls
    <2> QED
        BY <1>1, <2>1, HostTyped, CoreGoesOn DEF TypeOK
<1>2. CASE Reset
    BY <1>2, CoreIsReset DEF Reset
<1>3. CASE UNCHANGED vars
    BY <1>3, CoreStutters DEF vars, TypeOK
<1> QED
    BY <1>1, <1>2, <1>3 DEF Next

\* CoreInv holds in every behaviour.
THEOREM Invariance == Spec => []CoreInv
<1>1. Spec => [](CoreInv /\ TypeOK)
    BY Starts, NextInv, PTL DEF Spec
<1> QED
    BY <1>1, PTL

\* The registers of the core stay in range in every behaviour.
THEOREM TypeCorrect == Spec => []TypeOK
BY Starts, NextInv, PTL DEF Spec

\* The command a bit controller executes is never taken away from it.
THEOREM CommandsHeld == Spec => []CmdHeld
<1>1. CoreInv => CmdHeld
    BY DEF CoreInv, Handshake
<1> QED
    BY <1>1, Invariance, PTL

\* Every byte command that is acknowledged has put a whole frame on the bus,
\* for every byte width and whatever the host writes meanwhile.
THEOREM FramesAreWhole == Spec => []WholeFrames
<1>1. CoreInv => WholeFrames
    BY DEF CoreInv
<1> QED
    BY <1>1, Invariance, PTL

-----------------------------------------------------------------------------
(* The bit on SDA *)

LEMMA NextDriven == CoreInv /\ Driven /\ [Next]_vars => Driven'
<1> SUFFICES ASSUME CoreInv, Driven, [Next]_vars PROVE Driven'
    OBVIOUS
<1>1. CASE Clock
    BY <1>1, DrivenKept DEF Clock
<1>2. CASE Reset
    BY <1>2 DEF Reset, CoreReset, Driven
<1>3. CASE UNCHANGED vars
    BY <1>3 DEF vars, coreVars, bitVars, byteVars, Driven
<1> QED
    BY <1>1, <1>2, <1>3 DEF Next, Tick, HostCommands, HostLoads, HostControls

\* SDA does not change under a data bit that is being sent.
THEOREM DataIsHeld == Spec => DataHeld
<1>1. Init => Driven
    BY DEF Init, CoreInit, BitInit, Driven
<1>2. CoreInv /\ Driven /\ [Next]_vars =>
        [bit_cmd = "WRITE" /\ bit_cmd' = "WRITE" /\ stage > 0 /\ c_state = "write"
            => core_txd' = core_txd]_vars
    <2> SUFFICES ASSUME CoreInv, Driven, Next,
                        bit_cmd = "WRITE", bit_cmd' = "WRITE", stage > 0, c_state = "write"
                 PROVE  core_txd' = core_txd
        OBVIOUS
    <2>1. Clock
        BY DEF Next, Tick, HostCommands, HostLoads, HostControls, Reset, CoreReset
    <2> QED
        BY <2>1, DrivenKept DEF Clock, Driven
<1> QED
    BY <1>1, <1>2, NextDriven, Invariance, PTL DEF Spec, DataHeld

-----------------------------------------------------------------------------
(* Hosts that wait for TIP = 0 *)

\* CR and TIP tell what the byte controller does, but for the clock after the
\* write, in which the bus acknowledge is down; a command that has run is gone.
Told ==
    /\ cr.sto => Busy
    /\ Busy /\ ~tip => ~iack_o
    /\ c_state # "idle" \/ host_ack => Busy /\ tip
    /\ ran => ~Busy

\* The state machine is where the command in CR leads it, and has sent its START.
OnCourse ==
    /\ c_state = "start" => cr.sta
    /\ c_state = "write" => ~cr.rd
    /\ c_state = "read"  => cr.rd
    /\ c_state = "ack"   => (cr.rd <=> core_cmd = "WRITE")
    /\ c_state \in {"write", "read", "ack"} => nbits["START"] = One(cr.sta)
    /\ c_state = "stop"  =>
         /\ cr.sto
         /\ IF cr.rd THEN Carried(One(cr.sta), 1, Width, One(core_ack))
            ELSE Carried(One(cr.sta), Width, 1, One(core_ack))

PoliteInv == Told /\ OnCourse /\ FrameAsCommanded

\* While a command is in CR such a host leaves the registers alone.
LEMMA Undisturbed ==
    ASSUME polite, CoreTypes, Told, Busy, Tick \/ HostCommands \/ HostLoads \/ HostControls
    PROVE  cr' = Settled /\ ran' = (ran \/ host_ack)
<1>1. host_ack \in BOOLEAN /\ cr \in CommandRegister
    BY DEF CoreTypes
<1>2. ~HostCommands /\ ~HostLoads
    BY DEF Told, HostCommands, HostLoads, MayCommand, MayWrite, WriteCR, WriteTXR
<1>3. ~HostControls
    BY DEF Busy, HostControls, AtRest, Go
<1> QED
    BY <1>2, <1>3 DEF Tick, NoWrite

\* Without one the byte controller does not start.
LEMMA StaysIdle ==
    ASSUME CoreTypes, Handshake, Told, ~Busy, ByteClk(cr, txr)
    PROVE  c_state' = "idle" /\ ~host_ack'
<1>1. c_state = "idle" /\ ~Go(cr) /\ ~host_ack
    BY DEF Told, Busy, Go
<1>2. ByteAbort \/ ByteWait(cr)
    BY <1>1 DEF ByteClk, ByteTake, ByteStarted, ByteWrote, ByteRead, ByteAcked, ByteStopped
<1> QED
    BY <1>1, <1>2 DEF ByteAbort, ByteWait, Enter, Strobes

LEMMA ToldKept ==
    ASSUME polite, CoreInv, TypeOK, Told, Tick \/ HostCommands \/ HostLoads \/ HostControls
    PROVE  Told'
<1>1. CoreTypes /\ Handshake /\ Clock /\ ByteClk(cr, txr)
    BY DEF CoreInv, Tick, HostCommands, HostLoads, HostControls, Clock
<1>2. /\ tip' = Busy /\ (iack_o => ~iack_o')
    BY <1>1 DEF Clock, StatusBits, Acknowledge, Busy
<1>3. /\ cr \in CommandRegister /\ host_ack \in BOOLEAN /\ ran \in BOOLEAN /\ iack_o \in BOOLEAN
      /\ i2c_al \in BOOLEAN
    BY <1>1 DEF CoreTypes, TypeOK
<1>4. CASE Busy
    <2>1. cr' = Settled /\ ran' = (ran \/ host_ack) /\ tip'
        BY <1>1, <1>2, <1>4, Undisturbed
    <2>2. CASE host_ack \/ i2c_al
        <3>1. ~cr'.rd /\ ~cr'.wr /\ ~cr'.sto
            BY <1>3, <2>1, <2>2 DEF Settled, ClearedCommand, CommandRegister
        <3>2. c_state' = "idle" /\ ~host_ack'
            BY <1>1, <2>2 DEF Handshake, ByteClk, ByteAbort, ByteTake, Go, ByteWait, ByteStarted,
                    ByteWrote, ByteRead, ByteAcked, ByteStopped, Enter, Strobes
        <3> QED
            BY <3>1, <3>2 DEF Told, Busy
    <2>3. CASE ~(host_ack \/ i2c_al)
        <3>1. cr'.rd = cr.rd /\ cr'.wr = cr.wr /\ cr'.sto = cr.sto
            BY <1>3, <2>1, <2>3 DEF Settled, CommandRegister
        <3> QED
            BY <1>3, <1>4, <2>1, <2>3, <3>1 DEF Told, Busy
    <2> QED
        BY <2>2, <2>3
<1>5. CASE ~Busy
    <2>1. c_state' = "idle" /\ ~host_ack'
        BY <1>1, <1>5, StaysIdle
    <2>2. ~tip' /\ ~host_ack /\ ~cr.sto
        BY <1>2, <1>5 DEF Told
    <2>3. CASE Tick
        <3>1. ~cr'.rd /\ ~cr'.wr /\ ~cr'.sto
            BY <1>3, <1>5, <2>2, <2>3 DEF Tick, NoWrite, Settled, ClearedCommand, CommandRegister, Busy
        <3> QED
            BY <2>1, <3>1 DEF Told, Busy
    <2>4. CASE HostCommands
        <3>1. PICK command \in Commands : MayCommand(command) /\ WriteCR(command)
            BY <2>4 DEF HostCommands
        <3>2. ran' = (~core_en /\ ran) /\ ~iack_o'
            BY <1>2, <2>2, <2>4, <3>1 DEF HostCommands, WriteCR
        <3>3. CASE core_en
            <4>1. ~ran' /\ cr' = command /\ (command.rd \/ command.wr)
                BY <3>1, <3>2, <3>3 DEF WriteCR, MayCommand
            <4> QED
                BY <2>1, <3>2, <4>1 DEF Told, Busy
        <3>4. CASE ~core_en
            BY <1>5, <2>1, <2>2, <3>1, <3>2, <3>4 DEF Told, Busy, WriteCR
        <3> QED
            BY <3>3, <3>4
    <2>5. CASE HostLoads \/ HostControls
        <3>1. cr' = cr
            BY <2>5 DEF HostLoads, HostControls, WriteTXR, WriteCTR, WritePRER
        <3> QED
            BY <1>5, <2>1, <2>2, <3>1 DEF Told, Busy
    <2> QED
        BY <2>3, <2>4, <2>5
<1> QED
    BY <1>4, <1>5

\* The fields of CR that guide the state machine stay while it works.
LEMMA SameCourse ==
    ASSUME polite, CoreTypes, Told, Tick \/ HostCommands \/ HostLoads \/ HostControls,
           Busy, ~host_ack, ~i2c_al
    PROVE  /\ cr'.sta = cr.sta /\ cr'.rd = cr.rd /\ cr'.wr = cr.wr /\ cr'.sto = cr.sto
           /\ cr'.ack = cr.ack
BY Undisturbed DEF CoreTypes, Settled, CommandRegister

LEMMA OnCourseKept ==
    ASSUME polite, CoreInv, PoliteInv, Tick \/ HostCommands \/ HostLoads \/ HostControls
    PROVE  OnCourse' /\ FrameAsCommanded'
<1> USE DEF Enter, Strobes, Carried, One
<1>0. /\ CoreTypes /\ Handshake /\ Counting /\ Told /\ OnCourse
      /\ BitClk /\ ByteClk(cr, txr) /\ CountBits
    BY DEF CoreInv, PoliteInv, Tick, HostCommands, HostLoads, HostControls, Clock
<1>a. /\ core_ack \in BOOLEAN /\ c_state \in States /\ nbits \in [Cmds -> Nat]
      /\ cr \in CommandRegister /\ Width \in Nat \ {0}
    BY <1>0, WidthAssumption DEF CoreTypes
<1>b. c_state # "idle" => Busy /\ ~host_ack
    BY <1>0 DEF Told, Handshake
<1>1. CASE ByteAbort
    BY <1>1 DEF ByteAbort, OnCourse, FrameAsCommanded
<1>2. CASE ByteTake(cr)
    <2>1. Busy /\ ~host_ack /\ ~i2c_al
        BY <1>0, <1>2 DEF ByteTake, Go, Told, Busy
    <2>2. cr'.sta = cr.sta /\ cr'.rd = cr.rd /\ cr'.wr = cr.wr
        BY <1>0, <2>1, SameCourse
    <2>3. \/ cr.sta /\ c_state' = "start"
          \/ ~cr.sta /\ cr.rd /\ c_state' = "read"
          \/ ~cr.sta /\ ~cr.rd /\ c_state' = "write"
        BY <1>2, <2>1 DEF ByteTake, Busy
    <2>4. ~host_ack' /\ nbits' = NoBits
        BY <1>0, <1>2, <2>3 DEF ByteTake, CountBits
    <2>5. nbits'["START"] = 0
        BY <2>4 DEF NoBits, Cmds
    <2> QED
        BY <2>2, <2>3, <2>4, <2>5 DEF OnCourse, FrameAsCommanded
<1>3. CASE ByteWait(cr)
    <2>1. /\ c_state' = c_state /\ core_cmd' = core_cmd /\ ~host_ack' /\ ~i2c_al
        BY <1>3 DEF ByteWait
    <2>2. CASE c_state = "idle"
        BY <2>1, <2>2 DEF OnCourse, FrameAsCommanded
    <2>3. CASE c_state # "idle"
        <3>1. ~core_ack
            BY <1>3, <2>3 DEF ByteWait
        <3>2. cr'.sta = cr.sta /\ cr'.rd = cr.rd /\ cr'.wr = cr.wr /\ cr'.sto = cr.sto
            BY <1>0, <1>b, <2>1, <2>3, SameCourse
        <3>3. CASE ~core_ack' /\ nbits' = nbits
            BY <1>0, <2>1, <2>3, <3>1, <3>2, <3>3 DEF OnCourse, FrameAsCommanded
        <3>4. CASE core_ack' /\ nbits' = [nbits EXCEPT ![core_cmd] = @ + 1]
            BY <1>0, <1>a, <2>1, <2>3, <3>1, <3>2, <3>4
            DEF OnCourse, FrameAsCommanded, Handshake, States, Cmds
        <3> QED
            BY <1>0, <1>3, <2>3, <3>3, <3>4, WhileWaiting
    <2> QED
        BY <2>2, <2>3
<1>4. ASSUME c_state # "idle", core_ack, ~i2c_al
      PROVE  /\ ~core_ack' /\ nbits' = nbits
             /\ cr'.sta = cr.sta /\ cr'.rd = cr.rd /\ cr'.wr = cr.wr /\ cr'.sto = cr.sto
    BY <1>0, <1>b, <1>4, FollowsAck, SameCourse
<1>5. CASE ByteStarted(cr)
    BY <1>0, <1>4, <1>5 DEF ByteStarted, OnCourse, FrameAsCommanded, Counting
<1>6. CASE ByteWrote
    BY <1>0, <1>4, <1>6 DEF ByteWrote, OnCourse, FrameAsCommanded
<1>7. CASE ByteRead(cr)
    BY <1>0, <1>4, <1>7 DEF ByteRead, OnCourse, FrameAsCommanded
<1>8. CASE ByteAcked(cr)
    <2>1. IF cr.rd THEN Carried(One(cr.sta), 1, Width, 0) ELSE Carried(One(cr.sta), Width, 1, 0)
        BY <1>0, <1>8 DEF ByteAcked, OnCourse, Counting
    <2>2. CASE cr.sto
        BY <1>4, <1>8, <2>1, <2>2 DEF ByteAcked, OnCourse, FrameAsCommanded
    <2>3. CASE ~cr.sto
        <3>1. cr'.wr \/ cr'.rd
            BY <1>0, <1>4, <1>8 DEF ByteAcked, Told, Busy
        <3> QED
            BY <1>4, <1>8, <2>1, <2>3, <3>1 DEF ByteAcked, OnCourse, FrameAsCommanded
    <2> QED
        BY <2>2, <2>3
<1>9. CASE ByteStopped
    <2>1. cr'.wr \/ cr'.rd
        BY <1>0, <1>4, <1>9 DEF ByteStopped, Told, Busy
    <2> QED
        BY <1>0, <1>4, <1>9, <2>1 DEF ByteStopped, OnCourse, FrameAsCommanded
<1> QED
    BY <1>0, <1>1, <1>2, <1>3, <1>5, <1>6, <1>7, <1>8, <1>9 DEF ByteClk

LEMMA PoliteStep ==
    ASSUME polite, CoreInv, TypeOK, PoliteInv, [Next]_vars
    PROVE  PoliteInv'
<1>1. CASE Tick \/ HostCommands \/ HostLoads \/ HostControls
    BY <1>1, ToldKept, OnCourseKept DEF PoliteInv
<1>2. CASE Reset
    BY <1>2 DEF Reset, CoreReset, NoCommand, PoliteInv, Told, Busy, OnCourse, FrameAsCommanded
<1>3. CASE UNCHANGED vars
    BY <1>3 DEF vars, coreVars, bitVars, byteVars, topVars, PoliteInv, Told, Busy, OnCourse,
                FrameAsCommanded, Carried
<1> QED
    BY <1>1, <1>2, <1>3 DEF Next

\* The inductive invariant for a host that waits for TIP = 0.
THEOREM PoliteInvariance == Spec => [](polite => PoliteInv)
<1>1. Init => PoliteInv
    BY DEF Init, CoreInit, BitInit, ByteInit, TopInit, NoCommand, PoliteInv, Told, Busy, OnCourse,
           FrameAsCommanded
<1>2. CoreInv /\ TypeOK /\ (polite => PoliteInv) /\ [Next]_vars => (polite => PoliteInv)'
    BY PoliteStays, PoliteStep
<1> QED
    BY <1>1, <1>2, Invariance, TypeCorrect, PTL DEF Spec

\* The frame on the bus is the one the command in CR asks for, bit for bit in
\* number and direction, for every width and every such host.
THEOREM FramesAsCommanded == Spec => []FrameAsCommanded
<1>1. (polite => PoliteInv) => FrameAsCommanded
    BY DEF PoliteInv, FrameAsCommanded
<1> QED
    BY <1>1, PoliteInvariance, PTL

\* A command written once is executed once: neither the acknowledge that has
\* still to clear it nor a write in that clock starts it again.
THEOREM CommandsRunOnce == Spec => RunsOnce
<1>1. CoreInv /\ TypeOK /\ (polite => PoliteInv) /\ [Next]_vars
        => [polite /\ c_state = "idle" /\ c_state' # "idle" => ~ran /\ ~host_ack]_vars
    <2> SUFFICES ASSUME CoreInv, TypeOK, polite, PoliteInv, Next, c_state = "idle", c_state' # "idle"
                 PROVE  ~ran /\ ~host_ack
        OBVIOUS
    <2>1. ByteClk(cr, txr)
        BY DEF Next, Tick, HostCommands, HostLoads, HostControls, Clock, Reset, CoreReset
    <2>2. Go(cr)
        BY <2>1 DEF ByteClk, ByteAbort, ByteTake, ByteWait, ByteStarted, ByteWrote, ByteRead,
                    ByteAcked, ByteStopped, Enter
    <2> QED
        BY <2>2 DEF Go, PoliteInv, Told, Busy
<1> QED
    BY <1>1, Invariance, TypeCorrect, PoliteInvariance, PTL DEF Spec, RunsOnce

\* TIP does not fall before the byte controller and the bit controller are through.
THEOREM TipFallsLate == Spec => TipFalls
<1>1. CoreInv /\ TypeOK /\ (polite => PoliteInv) /\ [Next]_vars
        => [polite /\ tip /\ ~tip' /\ core_en' => c_state = "idle" /\ bit_cmd = "NOP"]_vars
    <2> SUFFICES ASSUME CoreInv, PoliteInv, Next, tip, ~tip', core_en'
                 PROVE  c_state = "idle" /\ bit_cmd = "NOP"
        OBVIOUS
    <2>1. ~Busy
        BY DEF Next, Tick, HostCommands, HostLoads, HostControls, Clock, StatusBits, Reset,
               CoreReset, Busy
    <2> QED
        BY <2>1 DEF PoliteInv, Told, CoreInv, Handshake, CmdHeld
<1> QED
    BY <1>1, Invariance, TypeCorrect, PoliteInvariance, PTL DEF Spec, TipFalls

\* Once the acknowledge of a read is under way, core_txd is the one in CR.
AckDriven == bit_cmd = "WRITE" /\ c_state = "ack" /\ stage > 0 => core_txd = cr.ack

LEMMA AckDrivenKept ==
    ASSUME polite, CoreInv, TypeOK, PoliteInv, Next, AckDriven
    PROVE  /\ AckDriven'
           /\ bit_cmd = "WRITE" /\ bit_cmd' = "WRITE" /\ c_state = "ack" => core_txd' = cr.ack
<1>1. CASE bit_cmd' # "WRITE"
    BY <1>1 DEF AckDriven
<1>2. CASE bit_cmd' = "WRITE"
    <2>1. Tick \/ HostCommands \/ HostLoads \/ HostControls
        BY <1>2 DEF Next, Reset, CoreReset
    <2>2. BitClk /\ ByteClk(cr, txr) /\ Told /\ Handshake /\ CoreTypes
        BY <2>1 DEF Tick, HostCommands, HostLoads, HostControls, Clock, PoliteInv, CoreInv
    <2>3. CASE bit_cmd = "NOP"
        <3>1. stage' = 0
            BY <1>2, <2>2, <2>3 DEF BitClk, BitIdle, BitAccept, BitWork, BitFinish, BitLost
        <3> QED
            BY <2>3, <3>1 DEF AckDriven
    <2>4. CASE bit_cmd # "NOP"
        <3>1. ~i2c_al /\ ~core_ack /\ c_state # "idle" /\ ~host_ack
            BY <1>2, <2>2, <2>4 DEF Handshake, CmdHeld, BitClk, BitIdle, BitAccept, BitWork,
                                    BitFinish, BitLost
        <3>2. ByteWait(cr)
            BY <2>2, <3>1 DEF ByteClk, ByteAbort, ByteTake, ByteStarted, ByteWrote, ByteRead,
                              ByteAcked, ByteStopped
        <3>3. cr'.ack = cr.ack
            BY <2>1, <2>2, <3>1, SameCourse DEF Told
        <3> QED
            BY <3>2, <3>3 DEF AckDriven, ByteWait
    <2> QED
        BY <2>3, <2>4
<1> QED
    BY <1>1, <1>2

\* With such a host neither the data bits nor the acknowledge move on SDA once
\* the master has begun to drive them.
THEOREM BitsAreHeld == Spec => AckHeld
<1> DEFINE Inv == CoreInv /\ TypeOK /\ (polite => PoliteInv /\ AckDriven) /\ Driven
<1>1. Init => Driven /\ AckDriven
    BY DEF Init, CoreInit, BitInit, Driven, AckDriven
<1>2. CoreInv /\ TypeOK /\ (polite => PoliteInv) /\ (polite => AckDriven) /\ [Next]_vars
        => (polite => AckDriven)'
    BY PoliteStays, AckDrivenKept DEF vars, coreVars, bitVars, byteVars, topVars, AckDriven
<1>3. Inv /\ [Next]_vars
        => [polite /\ bit_cmd = "WRITE" /\ bit_cmd' = "WRITE" /\ stage > 0
                => core_txd' = core_txd]_vars
    <2> SUFFICES ASSUME Inv, polite, Next, bit_cmd = "WRITE", bit_cmd' = "WRITE", stage > 0
                 PROVE  core_txd' = core_txd
        OBVIOUS
    <2>1. Clock
        BY DEF Next, Tick, HostCommands, HostLoads, HostControls, Reset, CoreReset
    <2>2. c_state = "write" \/ c_state = "ack"
        BY DEF CoreInv, CoreTypes, States, Handshake, CmdHeld
    <2> QED
        BY <2>1, <2>2, DrivenKept, AckDrivenKept DEF Clock, Driven, AckDriven
<1> QED
    BY <1>1, <1>2, <1>3, NextDriven, Invariance, TypeCorrect, PoliteInvariance, PTL DEF Spec, AckHeld
=============================================================================
