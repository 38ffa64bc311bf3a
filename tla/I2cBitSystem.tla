---------------------------- MODULE I2cBitSystem ----------------------------
(***************************************************************************)
(* The bit controller between a byte controller that asks for bit commands *)
(* in any order and the devices of a bus with one master: slaves that      *)
(* answer READs and may stretch the low period of SCL.  What the bit       *)
(* controller then does is what I2cBitPromise says.                        *)
(***************************************************************************)
EXTENDS I2cBitCtrl

CONSTANTS
    FromReset,   \* start in the clock in which the reset is released?
    Others       \* the rest of the bus: "slaves", a "contender" for SDA, a "master"

ASSUME BusAssumption ==
    /\ FromReset \in BOOLEAN
    /\ Others \in {"slaves", "contender", "master"}

VARIABLES
    pulse,   \* history: SCL has been high since the last command was acknowledged
    level    \* history: SDA in the last clock in which SCL was high

vars == <<inputVars, machineVars, statusVars, pulse, level>>

\* The state the controller comes to when it stays disabled after a reset.
Quiet ==
    /\ c_state = "idle" /\ cmd_ack = FALSE
    /\ iscl_oen = TRUE /\ isda_oen = TRUE /\ sda_chk = FALSE
    /\ cnt = clk_cnt /\ clk_en = TRUE
    /\ dscl_oen = TRUE /\ slave_wait = FALSE
    /\ cSCL = <<TRUE, TRUE>> /\ cSDA = <<TRUE, TRUE>>
    /\ fSCL = <<TRUE, TRUE, TRUE>> /\ fSDA = <<TRUE, TRUE, TRUE>> /\ filter_cnt = 0
    /\ sSCL = TRUE /\ sSDA = TRUE /\ dSCL = TRUE /\ dSDA = TRUE
    /\ sta_condition = FALSE /\ sto_condition = FALSE /\ ibusy = FALSE
    /\ cmd_stop = FALSE /\ ial = FALSE
    /\ dout = TRUE

Init ==
    /\ IF FromReset THEN BitCtrlReset ELSE Quiet
    /\ ena = FALSE /\ cmd = "NOP" /\ din = FALSE
    /\ bus_scl = TRUE /\ bus_sda = TRUE
    /\ pulse = FALSE /\ level = TRUE

-----------------------------------------------------------------------------
(* The byte controller and the control register *)

Cmds == {"NOP", "START", "STOP", "READ", "WRITE"}

\* A command stays until its acknowledge, and is asked of an enabled core.
CommandClk ==
    cmd' \in (IF ial \/ ~ena THEN {"NOP"} ELSE IF cmd = "NOP" \/ cmd_ack THEN Cmds ELSE {cmd})

\* The bit to send is settled when the first phase of a WRITE ends.
DataClk == din' \in (IF c_state \in {"idle", "wr_a"} THEN BOOLEAN ELSE {din})

\* The core is enabled, and disabled when it is idle and past its last STOP.
EnableClk ==
    ena' \in (IF cmd' = "NOP" /\ cmd = "NOP" /\ c_state = "idle" /\ ~cmd_ack /\ ~cmd_stop
              THEN BOOLEAN ELSE {ena})

-----------------------------------------------------------------------------
(* The slaves *)

\* Slaves hold SCL down, but never pull it down while it is high.
StretchClk == bus_scl' \in (IF scl_i /\ Others # "master" THEN {TRUE} ELSE BOOLEAN)

\* A slave changes SDA while SCL is low, drives it during READ, and lets go of
\* it before SCL rises for anything else.  A contender may change SDA at any
\* time, at most once per sample of the filter (a bound of the model).
AnswerClk ==
    bus_sda' \in IF Others = "contender" THEN (IF filter_cnt = 0 THEN BOOLEAN ELSE {bus_sda})
                 ELSE IF scl_i \/ scl_i' THEN {bus_sda}
                 ELSE IF c_state \in {"rd_b", "rd_c"} THEN BOOLEAN
                 ELSE IF c_state \in {"idle", "start_a", "stop_a", "rd_a", "wr_a"} THEN {bus_sda, TRUE}
                 ELSE {TRUE}

Observe ==
    /\ pulse' = (scl_i' \/ (pulse /\ ~cmd_ack))
    /\ level' = IF scl_i THEN sda_i ELSE level

Next == BitCtrlClk /\ CommandClk /\ DataClk /\ EnableClk /\ StretchClk /\ AnswerClk /\ Observe

Spec == Init /\ [][Next]_vars

\* The clock runs, and a slave releases SCL in the end.
FairSpec == Spec /\ WF_vars(Next) /\ WF_vars(Next /\ bus_scl')

-----------------------------------------------------------------------------
(* Properties *)

\* The command and the stage that the byte controller may think of.
Command ==
    CASE c_state \in {"start_a", "start_b", "start_c", "start_d", "start_e"} -> "START"
      [] c_state \in {"stop_a", "stop_b", "stop_c", "stop_d"} -> "STOP"
      [] c_state \in {"rd_a", "rd_b", "rd_c", "rd_d"} -> "READ"
      [] c_state \in {"wr_a", "wr_b", "wr_c", "wr_d"} -> "WRITE"
      [] OTHER -> "NOP"

Stage ==
    IF c_state \in {"idle", "start_a", "stop_a", "rd_a", "wr_a"} THEN 0
    ELSE IF c_state \in {"start_b", "stop_b", "rd_b", "wr_b"} THEN 1
    ELSE 2

Promise == INSTANCE I2cBitPromise WITH
    MultiMaster <- Others # "slaves",
    core_cmd <- cmd,
    bit_cmd <- Command,
    stage <- Stage,
    core_ack <- cmd_ack,
    i2c_al <- ial,
    core_rxd <- IF dout THEN 1 ELSE 0

\* The bit controller keeps the promise that the byte controller relies on.
KeepsPromise == [][Promise!BitClk]_vars

\* Without a second master arbitration is never lost (the comment at gen_al:
\* "1) master drives SDA high, but the i2c bus is low 2) stop detected while
\* not requested").
ArbitrationKept == ~ial

\* A bit is acknowledged only after a clock pulse on the line, however long
\* the slave has held SCL.
PulsePerBit == cmd_ack => pulse

\* A READ answers with the level that SDA had during its clock pulse.
ReadsTheLine == [][cmd_ack /\ cmd = "READ" => dout = level]_vars

\* SDA moves under a high SCL only for START and STOP.
OnlyStartStopMoveSDA ==
    [][scl_i /\ scl_i' /\ sda_i # sda_i' => c_state \in {"start_c", "stop_d"}]_vars

\* Every command is acknowledged, if the slave lets go of SCL.
CommandsEnd == (cmd # "NOP") ~> cmd_ack
=============================================================================
