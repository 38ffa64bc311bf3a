---------------------------- MODULE I2cBitPromise ----------------------------
(***************************************************************************)
(* What i2c_master_bit_ctrl promises to the byte controller above it: one  *)
(* bit command at a time is accepted from core_cmd, takes its quarter      *)
(* phases, and ends with one cmd_ack cycle, unless arbitration is lost.    *)
(* Every action is one clock edge.  The clock divider is abstracted: an    *)
(* edge with clk_en = '0' is an idle or a waiting step.  The quarter       *)
(* phases a, b and c/d/e of a command are stages 0, 1 and 2.               *)
(***************************************************************************)
EXTENDS Integers

CONSTANT MultiMaster   \* can another device fight for the bus?

ASSUME MultiMasterAssumption == MultiMaster \in BOOLEAN

VARIABLES
    core_cmd,   \* input: the command the byte controller asks for
    bit_cmd,    \* the command being executed, "NOP" in state idle
    stage,      \* how far that command is
    core_ack,   \* cmd_ack: command completed, one clock wide
    i2c_al,     \* ial: arbitration lost
    core_rxd    \* dout: SDA at the last rising edge of SCL

bitVars == <<bit_cmd, stage, core_ack, i2c_al, core_rxd>>

Bit  == {0, 1}
Cmds == {"NOP", "START", "STOP", "READ", "WRITE"}

BitInit ==
    /\ bit_cmd = "NOP"
    /\ stage = 0
    /\ core_ack = FALSE
    /\ i2c_al = FALSE
    /\ core_rxd = 0

-----------------------------------------------------------------------------
(* gen_al: SDA is compared with what is driven in the last phases of a     *)
(* write; a STOP nobody asked for counts while no command runs.            *)
Contended == MultiMaster /\ (bit_cmd = "NOP" \/ (bit_cmd = "WRITE" /\ stage = 2))

Arbitrate == i2c_al' \in (IF Contended THEN BOOLEAN ELSE {FALSE})

\* No enabled clock, or nothing to do.
BitIdle ==
    /\ ~i2c_al
    /\ bit_cmd = "NOP"
    /\ core_ack' = FALSE
    /\ UNCHANGED <<bit_cmd, stage>>

\* The clock after an acknowledge is never an enabled one (prescale >= 1).
BitAccept ==
    /\ ~i2c_al
    /\ bit_cmd = "NOP" /\ core_cmd # "NOP" /\ ~core_ack
    /\ bit_cmd' = core_cmd
    /\ stage' = 0
    /\ core_ack' = FALSE

\* A slave may stretch SCL, so a phase has no upper bound.
BitWork ==
    /\ ~i2c_al
    /\ bit_cmd # "NOP"
    /\ stage' \in {stage, IF stage = 2 THEN 2 ELSE stage + 1}
    /\ core_ack' = FALSE
    /\ UNCHANGED bit_cmd

BitFinish ==
    /\ ~i2c_al
    /\ bit_cmd # "NOP" /\ stage = 2
    /\ bit_cmd' = "NOP"
    /\ stage' = 0
    /\ core_ack' = TRUE

BitLost ==
    /\ i2c_al
    /\ bit_cmd' = "NOP"
    /\ stage' = 0
    /\ core_ack' = FALSE

\* gen_dout: SDA is sampled when SCL rises, which another master may cause.
Sample ==
    core_rxd' \in (IF MultiMaster \/ (stage = 2 /\ bit_cmd' # "NOP") THEN Bit ELSE {core_rxd})

BitClk ==
    /\ BitIdle \/ BitAccept \/ BitWork \/ BitFinish \/ BitLost
    /\ Arbitrate
    /\ Sample
=============================================================================
