--------------------------- MODULE Axi4LiteSlave ---------------------------
(***************************************************************************)
(* axi4lite_slave: one operator per clocked process, and the master that   *)
(* drives it, which has at most one write and one read in progress ("this  *)
(* design expects no outstanding transactions") and may raise address and  *)
(* data of a write in any order.  An address counts words; a byte lane is  *)
(* a register of its own, so one lane with its strobe stands for all four. *)
(***************************************************************************)
EXTENDS Naturals, MyPackage

CONSTANTS
    g_MAXREAD, g_MAXWRITE,   \* registers to read, and after them those to write
    Addr,                    \* the addresses the master uses
    Data                     \* the values of a byte

c_MAXMEM == g_MAXREAD + g_MAXWRITE
OPT_MEM_ADDR_BITS == clogb2(c_MAXMEM)
AllOnes == 2^(OPT_MEM_ADDR_BITS + 1) - 1
Inputs == 0 .. g_MAXREAD - 1
Registers == g_MAXREAD .. c_MAXMEM - 1

ASSUME SlaveAssumption ==
    /\ g_MAXREAD \in Nat \ {0} /\ g_MAXWRITE \in Nat \ {0}
    /\ Addr \subseteq 0 .. AllOnes /\ 0 \in Data

VARIABLES
    aw, w, AWADDR, WDATA, WSTRB,   \* the master's write channels
    ar, ARADDR,                    \* and its read channels
    axi_awready, axi_wready, axi_awaddr, axi_bvalid, axi_bresp,
    axi_arready, axi_araddr, axi_rvalid, axi_rresp, axi_rdata,
    s_dataR,       \* the inputs, clocked in
    s_axi_dataW,   \* the registers
    cut            \* does this build cut loc_addr to its declared range?

masterVars == <<aw, w, AWADDR, WDATA, WSTRB, ar, ARADDR>>
writeVars == <<axi_awready, axi_wready, axi_awaddr, axi_bvalid, axi_bresp, s_axi_dataW>>
readVars == <<axi_arready, axi_araddr, axi_rvalid, axi_rresp, axi_rdata, s_dataR>>
slaveVars == <<masterVars, writeVars, readVars, cut>>

AWVALID == aw = "valid"
WVALID  == w = "valid"
ARVALID == ar = "valid"

-----------------------------------------------------------------------------
\* loc_addr is declared 0 .. c_MAXMEM and given one bit more: a value above the
\* range is undefined, and synthesis may keep it or drop the bit.
loc_addr(a) == IF cut THEN a % 2^OPT_MEM_ADDR_BITS ELSE a

\* Ready for one clock when both address and data are there, with the address kept.
p_axi_awready ==
    LET take == ~axi_awready /\ AWVALID /\ WVALID
    IN  /\ axi_awready' = take /\ axi_wready' = (~axi_wready /\ AWVALID /\ WVALID)
        /\ axi_awaddr' = IF take THEN AWADDR ELSE axi_awaddr

slv_reg_wren == axi_wready /\ WVALID /\ axi_awready /\ AWVALID

\* Mutant: the lower bound of the registers is forgotten.
Writable_NoLower(a) == a < c_MAXMEM

Writable(a) == a > g_MAXREAD - 1 /\ a < c_MAXMEM

p_axi_write ==
    LET a == loc_addr(axi_awaddr)
    IN  s_axi_dataW' = IF slv_reg_wren /\ Writable(a) /\ WSTRB
                       THEN [r \in DOMAIN s_axi_dataW |-> IF r = a THEN WDATA ELSE s_axi_dataW[r]]
                       ELSE s_axi_dataW

\* Mutant: the response is given up when the master is not ready at once.
p_axi_bvalid_Pulse(bready) ==
    /\ axi_bvalid' = (slv_reg_wren /\ ~axi_bvalid)
    /\ axi_bresp' = IF slv_reg_wren /\ ~Writable(loc_addr(axi_awaddr)) THEN "SLVERR" ELSE "OKAY"

p_axi_bvalid(bready) ==
    LET answer == slv_reg_wren /\ ~axi_bvalid
    IN  /\ axi_bvalid' = (answer \/ (axi_bvalid /\ ~bready))
        /\ axi_bresp' =
             IF answer THEN IF Writable(loc_addr(axi_awaddr)) THEN "OKAY" ELSE "SLVERR"
             ELSE IF axi_bvalid /\ bready THEN "OKAY" ELSE axi_bresp

p_axi_arready ==
    LET take == ~axi_arready /\ ARVALID
    IN  /\ axi_arready' = take
        /\ axi_araddr' = IF take THEN ARADDR ELSE axi_araddr

slv_reg_rden == axi_arready /\ ARVALID /\ ~axi_rvalid

\* This one compares all the bits of the address.
p_axi_rresponse(rready) ==
    /\ axi_rvalid' = (slv_reg_rden \/ (axi_rvalid /\ ~rready))
    /\ axi_rresp' = IF slv_reg_rden THEN IF axi_araddr < c_MAXMEM THEN "OKAY" ELSE "SLVERR"
                    ELSE IF axi_rvalid /\ rready THEN "OKAY" ELSE axi_rresp

reg_data_out ==
    LET a == loc_addr(axi_araddr)
    IN  IF a \in Inputs THEN s_dataR[a] ELSE IF a \in Registers THEN s_axi_dataW[a] ELSE 0

p_rdata == axi_rdata' = IF slv_reg_rden THEN reg_data_out ELSE axi_rdata

p_dataRBuffer(dataR) == s_dataR' = dataR

\* What changes with the clock only: dataR, from the module above, and whether
\* the master is ready for a response.
SlaveClk(dataR, bready, rready) ==
    /\ p_axi_awready /\ p_axi_write /\ p_axi_bvalid(bready)
    /\ p_axi_arready /\ p_axi_rresponse(rready) /\ p_rdata /\ p_dataRBuffer(dataR)
    /\ UNCHANGED cut

\* S_AXI_ARESETN = '0' in a clock; it starts this way.
SlaveInit ==
    /\ axi_awready = FALSE /\ axi_wready = FALSE /\ axi_awaddr = 0
    /\ axi_bvalid = FALSE /\ axi_bresp = "OKAY"
    /\ axi_arready = FALSE /\ axi_araddr = AllOnes
    /\ axi_rvalid = FALSE /\ axi_rresp = "OKAY" /\ axi_rdata = 0
    /\ s_dataR = [r \in Inputs |-> 0] /\ s_axi_dataW = [r \in Registers |-> 0]
    /\ cut \in BOOLEAN

\* Mutant: the response in progress survives the reset.
SlaveReset_KeepsResponse ==
    /\ axi_awready' = FALSE /\ axi_wready' = FALSE /\ axi_awaddr' = 0
    /\ axi_arready' = FALSE /\ axi_araddr' = AllOnes
    /\ axi_rvalid' = FALSE /\ axi_rresp' = "OKAY" /\ axi_rdata' = 0
    /\ s_dataR' = [r \in Inputs |-> 0] /\ s_axi_dataW' = [r \in Registers |-> 0]
    /\ UNCHANGED <<cut, axi_bvalid, axi_bresp>>

SlaveReset ==
    /\ axi_awready' = FALSE /\ axi_wready' = FALSE /\ axi_awaddr' = 0
    /\ axi_bvalid' = FALSE /\ axi_bresp' = "OKAY"
    /\ axi_arready' = FALSE /\ axi_araddr' = AllOnes
    /\ axi_rvalid' = FALSE /\ axi_rresp' = "OKAY" /\ axi_rdata' = 0
    /\ s_dataR' = [r \in Inputs |-> 0] /\ s_axi_dataW' = [r \in Registers |-> 0]
    /\ UNCHANGED cut

-----------------------------------------------------------------------------
(* The AXI4-Lite master: a payload without its request is zero. *)

writing == aw # "idle"
reading == ar # "idle"

MasterInit ==
    /\ aw = "idle" /\ w = "idle" /\ AWADDR = 0 /\ WDATA = 0 /\ WSTRB = FALSE
    /\ ar = "idle" /\ ARADDR = 0

EndWrite == aw' = "idle" /\ w' = "idle" /\ AWADDR' = 0 /\ WDATA' = 0 /\ WSTRB' = FALSE
EndRead  == ar' = "idle" /\ ARADDR' = 0

StartWrite ==
    /\ ~writing
    /\ aw' \in {"todo", "valid"} /\ w' \in {"todo", "valid"} /\ "valid" \in {aw', w'}
    /\ AWADDR' \in Addr /\ WSTRB' \in BOOLEAN
    /\ WDATA' \in (IF WSTRB' THEN Data ELSE {0})

\* A channel that is waiting may be raised; one that is raised stays until ready.
Onward(state, ready) ==
    CASE state = "todo"  -> {"todo", "valid"}
      [] state = "valid" -> {IF ready THEN "done" ELSE "valid"}
      [] OTHER           -> {state}

GoOnWriting(bready) ==
    IF axi_bvalid /\ bready
    THEN EndWrite
    ELSE /\ aw' \in Onward(aw, axi_awready) /\ w' \in Onward(w, axi_wready)
         /\ UNCHANGED <<AWADDR, WDATA, WSTRB>>

StartRead == ~reading /\ ar' = "valid" /\ ARADDR' \in Addr

GoOnReading(rready) ==
    IF axi_rvalid /\ rready
    THEN EndRead
    ELSE ar' \in Onward(ar, axi_arready) /\ UNCHANGED ARADDR

MasterClk(bready, rready) ==
    /\ StartWrite \/ GoOnWriting(bready)
    /\ StartRead \/ GoOnReading(rready)
=============================================================================
