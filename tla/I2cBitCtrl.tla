----------------------------- MODULE I2cBitCtrl -----------------------------
(***************************************************************************)
(* i2c_master_bit_ctrl, clock by clock: the divider with its wait for a    *)
(* stretching slave, the input filters, the bus status, and the state      *)
(* machine that drives SCL and SDA.  One step is one rising edge of clk,   *)
(* one conjunct of BitCtrlClk is one process.  TRUE is a high line.        *)
(* The inputs cmd, din and ena are driven by the byte controller and the   *)
(* control register; the other devices release or pull down the open-drain *)
(* lines.                                                                  *)
(***************************************************************************)
EXTENDS Integers

CONSTANT clk_cnt   \* the prescale register

ASSUME PrescaleAssumption == clk_cnt \in 0 .. 65535

VARIABLES
    ena, cmd, din,                   \* inputs
    bus_scl, bus_sda,                \* the lines as all other devices leave them
    c_state, cmd_ack,                \* state machine
    iscl_oen, isda_oen, sda_chk,     \* drive the lines (FALSE: pull low), check SDA
    cnt, clk_en,                     \* clock divider
    dscl_oen, slave_wait,            \* clock stretching
    cSCL, cSDA,                      \* captured inputs, newest first
    fSCL, fSDA, filter_cnt,          \* samples of the filter, newest first
    sSCL, sSDA, dSCL, dSDA,          \* filtered inputs, and those of the clock before
    sta_condition, sto_condition, ibusy,   \* bus status
    cmd_stop, ial,                   \* arbitration
    dout                             \* bit read

inputVars == <<ena, cmd, din, bus_scl, bus_sda>>
machineVars == <<c_state, cmd_ack, iscl_oen, isda_oen, sda_chk>>
statusVars == <<cnt, clk_en, dscl_oen, slave_wait, cSCL, cSDA, fSCL, fSDA, filter_cnt,
                sSCL, sSDA, dSCL, dSDA, sta_condition, sto_condition, ibusy,
                cmd_stop, ial, dout>>

\* nReset.  The captured inputs are reset to low, the filtered ones to high.
BitCtrlReset ==
    /\ c_state = "idle" /\ cmd_ack = FALSE
    /\ iscl_oen = TRUE /\ isda_oen = TRUE /\ sda_chk = FALSE
    /\ cnt = 0 /\ clk_en = TRUE
    /\ dscl_oen = FALSE /\ slave_wait = FALSE
    /\ cSCL = <<FALSE, FALSE>> /\ cSDA = <<FALSE, FALSE>>
    /\ fSCL = <<TRUE, TRUE, TRUE>> /\ fSDA = <<TRUE, TRUE, TRUE>> /\ filter_cnt = 0
    /\ sSCL = TRUE /\ sSDA = TRUE /\ dSCL = TRUE /\ dSDA = TRUE
    /\ sta_condition = FALSE /\ sto_condition = FALSE /\ ibusy = FALSE
    /\ cmd_stop = FALSE /\ ial = FALSE
    /\ dout = FALSE

-----------------------------------------------------------------------------
\* The pads: a line is high when nobody pulls it down.
scl_i == iscl_oen /\ bus_scl
sda_i == isda_oen /\ bus_sda

\* Mutant: the wait is not ended by the rise of SCL.
stretching_Latched ==
    /\ dscl_oen' = iscl_oen
    /\ slave_wait' = (slave_wait \/ (iscl_oen /\ ~dscl_oen /\ ~sSCL))

\* The master releases SCL and does not see it rise, until it does.
stretching ==
    /\ dscl_oen' = iscl_oen
    /\ slave_wait' = (~sSCL /\ (slave_wait \/ (iscl_oen /\ ~dscl_oen)))

\* SCL falls although the master does not pull it.
scl_sync == dSCL /\ ~sSCL /\ iscl_oen

\* Mutant: the divider runs on while the slave holds SCL.
gen_clken_NoWait ==
    IF cnt = 0 \/ ~ena \/ scl_sync
    THEN cnt' = clk_cnt /\ clk_en' = TRUE
    ELSE cnt' = cnt - 1 /\ clk_en' = FALSE

gen_clken ==
    IF cnt = 0 \/ ~ena \/ scl_sync
    THEN cnt' = clk_cnt /\ clk_en' = TRUE
    ELSE cnt' = (IF slave_wait THEN cnt ELSE cnt - 1) /\ clk_en' = FALSE

capture_scl_sda ==
    /\ cSCL' = <<scl_i, cSCL[1]>>
    /\ cSDA' = <<sda_i, cSDA[1]>>

\* The filter samples four times per quarter phase.
filter_divider ==
    filter_cnt' = IF ~ena THEN 0 ELSE IF filter_cnt = 0 THEN clk_cnt \div 4 ELSE filter_cnt - 1

filter_scl_sda ==
    IF filter_cnt = 0
    THEN fSCL' = <<cSCL[2], fSCL[1], fSCL[2]>> /\ fSDA' = <<cSDA[2], fSDA[1], fSDA[2]>>
    ELSE UNCHANGED <<fSCL, fSDA>>

Majority(f) == (f[1] /\ f[2]) \/ (f[1] /\ f[3]) \/ (f[2] /\ f[3])

scl_sda ==
    /\ sSCL' = Majority(fSCL) /\ sSDA' = Majority(fSDA)
    /\ dSCL' = sSCL /\ dSDA' = sSDA

detect_sta_sto ==
    /\ sta_condition' = (sSCL /\ dSDA /\ ~sSDA)
    /\ sto_condition' = (sSCL /\ ~dSDA /\ sSDA)

gen_busy == ibusy' = ((sta_condition \/ ibusy) /\ ~sto_condition)

\* Mutant: the controller forgets that the STOP was its own.
gen_al_AnyStop ==
    /\ cmd_stop' = FALSE
    /\ ial' = \/ sda_chk /\ ~sSDA /\ isda_oen
              \/ c_state = "idle" /\ sto_condition

gen_al ==
    /\ cmd_stop' = (IF clk_en THEN cmd = "STOP" ELSE cmd_stop)
    /\ ial' = \/ sda_chk /\ ~sSDA /\ isda_oen
              \/ c_state = "idle" /\ sto_condition /\ ~cmd_stop

\* Mutant: the bit is taken when SCL falls.
gen_dout_Falling == dout' = IF ~sSCL /\ dSCL THEN sSDA ELSE dout

gen_dout == dout' = IF sSCL /\ ~dSCL THEN sSDA ELSE dout

-----------------------------------------------------------------------------
(* The state machine: where a phase leads and how it drives the lines. *)

Phase(next, scl, sda, check) == [next |-> next, scl |-> scl, sda |-> sda, check |-> check]

Phases ==
    [ start_a |-> Phase("start_b", iscl_oen, TRUE, FALSE),
      start_b |-> Phase("start_c", TRUE, TRUE, FALSE),
      start_c |-> Phase("start_d", TRUE, FALSE, FALSE),
      start_d |-> Phase("start_e", TRUE, FALSE, FALSE),
      start_e |-> Phase("idle", FALSE, FALSE, FALSE),
      stop_a  |-> Phase("stop_b", FALSE, FALSE, FALSE),
      stop_b  |-> Phase("stop_c", TRUE, FALSE, FALSE),
      stop_c  |-> Phase("stop_d", TRUE, FALSE, FALSE),
      stop_d  |-> Phase("idle", TRUE, TRUE, FALSE),
      rd_a    |-> Phase("rd_b", FALSE, TRUE, FALSE),
      rd_b    |-> Phase("rd_c", TRUE, TRUE, FALSE),
      rd_c    |-> Phase("rd_d", TRUE, TRUE, FALSE),
      rd_d    |-> Phase("idle", FALSE, TRUE, FALSE),
      wr_a    |-> Phase("wr_b", FALSE, din, FALSE),
      wr_b    |-> Phase("wr_c", TRUE, din, FALSE),
      wr_c    |-> Phase("wr_d", TRUE, din, TRUE),
      wr_d    |-> Phase("idle", FALSE, din, FALSE) ]

\* Mutant: a STOP begins with its second phase.
Entry_SkipA == [START |-> "start_a", STOP |-> "stop_b", READ |-> "rd_a", WRITE |-> "wr_a", NOP |-> "idle"]

\* The first phase of each command.
Entry == [START |-> "start_a", STOP |-> "stop_a", READ |-> "rd_a", WRITE |-> "wr_a", NOP |-> "idle"]

Abandon ==
    /\ ial
    /\ c_state' = "idle" /\ cmd_ack' = FALSE
    /\ iscl_oen' = TRUE /\ isda_oen' = TRUE /\ sda_chk' = FALSE

Hold ==
    /\ ~ial /\ ~clk_en
    /\ cmd_ack' = FALSE
    /\ UNCHANGED <<c_state, iscl_oen, isda_oen, sda_chk>>

Begin ==
    /\ ~ial /\ clk_en
    /\ c_state = "idle"
    /\ c_state' = Entry[cmd]
    /\ cmd_ack' = FALSE /\ sda_chk' = FALSE
    /\ UNCHANGED <<iscl_oen, isda_oen>>

Advance ==
    /\ ~ial /\ clk_en
    /\ c_state # "idle"
    /\ LET phase == Phases[c_state]
       IN  /\ c_state' = phase.next
           /\ cmd_ack' = (phase.next = "idle")
           /\ iscl_oen' = phase.scl /\ isda_oen' = phase.sda
           /\ sda_chk' = phase.check

nxt_state_decoder == Abandon \/ Hold \/ Begin \/ Advance

BitCtrlClk ==
    /\ stretching /\ gen_clken
    /\ capture_scl_sda /\ filter_divider /\ filter_scl_sda /\ scl_sda
    /\ detect_sta_sto /\ gen_busy /\ gen_al /\ gen_dout
    /\ nxt_state_decoder
=============================================================================
