---------------------------- MODULE FasecHwtest ----------------------------
(***************************************************************************)
(* The hardware test top, fasec_hwtest: the FMC sampling, which fills the  *)
(* input registers of the AXI4-Lite slave, and the LEDs.  Word 0 is zero   *)
(* and word 1 a word of FMC pins, of which one pin stands for all.  The    *)
(* LEDs have a clock of their own and share no signal with the rest, so a  *)
(* behaviour shows one of the two clocks and what it moves.                *)
(***************************************************************************)
EXTENDS Axi4LiteSlave, HwtestLeds

CONSTANT g_FMC   \* the mezzanine: "EDA-02327" or "EDA-0NONE"

ASSUME FmcAssumption == g_FMC \in {"EDA-02327", "EDA-0NONE"} /\ g_MAXREAD > 1

VARIABLES
    clock,        \* the clock that runs
    v_fmc_reg,    \* the copy of a pin in general_fmc
    data_o,       \* and the output of general_fmc
    pins,         \* history: what the pin was in the last two clocks
    window        \* history: the values that a read in progress may return

fmcVars == <<v_fmc_reg, data_o>>
vars == <<slaveVars, ledVars, fmcVars, clock, pins, window>>

-----------------------------------------------------------------------------
\* Mutant: a pin that has been high is not looked at again.
general_fmc_Frozen(FMC_LA_b) ==
    /\ v_fmc_reg' = IF v_fmc_reg = 0 THEN FMC_LA_b ELSE v_fmc_reg
    /\ data_o' = v_fmc_reg

\* The output takes the variable before the variable takes the pin.
general_fmc(FMC_LA_b) ==
    IF g_FMC = "EDA-02327"
    THEN v_fmc_reg' = FMC_LA_b /\ data_o' = v_fmc_reg
    ELSE data_o' = 0 /\ UNCHANGED v_fmc_reg

s_sAxi_dataR == [r \in Inputs |-> IF r = 1 THEN data_o ELSE 0]

\* A read may return what the pin was in the clock in which it begins, in the
\* one before, and while it lasts.
Observe(FMC_LA_b) ==
    /\ pins' = <<FMC_LA_b, pins[1]>>
    /\ window' = IF ~reading' THEN {} ELSE IF ~reading THEN {FMC_LA_b, pins[1]}
                 ELSE window \cup {FMC_LA_b}

AxiClk(bready, rready) ==
    /\ clock = "s00_axi_aclk"
    /\ MasterClk(bready, rready) /\ SlaveClk(s_sAxi_dataR, bready, rready)
    /\ \E FMC_LA_b \in Data : general_fmc(FMC_LA_b) /\ Observe(FMC_LA_b)
    /\ UNCHANGED <<clock, ledVars>>

\* s00_axi_aresetn is '0' in this clock: for the slave and the master, not for
\* general_fmc, which ignores its reset.
AxiReset ==
    /\ clock = "s00_axi_aclk"
    /\ SlaveReset /\ EndWrite /\ EndRead
    /\ \E FMC_LA_b \in Data : general_fmc(FMC_LA_b) /\ Observe(FMC_LA_b)
    /\ UNCHANGED <<clock, ledVars>>

PsClk ==
    /\ clock = "ps_clk_i"
    /\ LedClk
    /\ UNCHANGED <<clock, slaveVars, fmcVars, pins, window>>

Init ==
    /\ clock \in {"s00_axi_aclk", "ps_clk_i"}
    /\ MasterInit /\ SlaveInit
    /\ v_fmc_reg = 0 /\ data_o = 0 /\ pins = <<0, 0>> /\ window = {}
    /\ IF clock = "ps_clk_i" THEN LedInit /\ ~cut ELSE LedRest

Next == (\E bready, rready \in BOOLEAN : AxiClk(bready, rready)) \/ AxiReset \/ PsClk

Spec == Init /\ [][Next]_vars

\* Both clocks run, and the master raises its requests and takes its responses.
FairSpec ==
    /\ Spec /\ WF_vars(PsClk)
    /\ WF_vars(AxiClk(TRUE, TRUE) /\ aw' # "todo" /\ w' # "todo")

-----------------------------------------------------------------------------
(* Properties *)

\* The slave is the bank of registers that RegisterBank promises: whatever the
\* order of address and data, and with both directions in use at once, a
\* request takes effect once and as a whole before its response, an address
\* without a register is refused and harmless, inputs cannot be written, and a
\* reset leaves nothing behind.
Bank == INSTANCE RegisterBank WITH
    Top <- c_MAXMEM,
    mem <- s_axi_dataW,
    write <- IF writing
             THEN [op |-> "write", adr |-> AWADDR, dat |-> WDATA, strb |-> WSTRB]
             ELSE [op |-> "none"],
    wdone <- IF axi_bvalid THEN [resp |-> axi_bresp, dat |-> 0] ELSE [op |-> "none"],
    read <- IF reading THEN [op |-> "read", adr |-> ARADDR] ELSE [op |-> "none"],
    rdone <- IF axi_rvalid THEN [resp |-> axi_rresp, dat |-> axi_rdata] ELSE [op |-> "none"]

KeepsBank == Bank!Spec

\* A read of the pins returns a value they had at most one clock before the
\* read began: three registers lie between a pin and RDATA, and a stale copy in
\* any of them would look like a level on the pin.
PinDataIsFresh == axi_rvalid /\ loc_addr(ARADDR) = 1 => axi_rdata \in window

\* The slave answers everything, unless it is reset.
EveryAccessIsAnswered == (writing ~> ~writing) /\ (reading ~> ~reading)
=============================================================================
