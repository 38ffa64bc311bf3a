----------------------------- MODULE AxiWbBridge -----------------------------
(***************************************************************************)
(* axis_wbm_bridge: an AXI4-Lite slave that is a Wishbone master.  One     *)
(* action per clocked process; a step of the bridge is all four of them.   *)
(* The AXI inputs are variables of the master, the Wishbone inputs         *)
(* wb_ack_i and wb_dat_i are variables of the Wishbone slave.  wb_err_i    *)
(* and wb_rty_i are tied to '0' by axis_to_i2c_wbs_v1_0, so both response  *)
(* codes are always OKAY and are left out; s_wdata and wb_sel_o have no    *)
(* reader.                                                                 *)
(***************************************************************************)
EXTENDS Naturals

CONSTANTS Addr, Data   \* register addresses and values, 0 among them

VARIABLES
    axi_awvalid, axi_awaddr, axi_wvalid, axi_wdata, axi_bready,   \* AXI inputs
    axi_arvalid, axi_araddr, axi_rready,
    wb_ack, wb_dat,                                               \* Wishbone inputs
    s_we_r, s_stb_r, s_addr,      \* Wishbone outputs
    s_arready, s_rvalid, s_rdata, \* read channels
    s_awready, s_wready, s_bvalid \* write channels

axiVars == <<axi_awvalid, axi_awaddr, axi_wvalid, axi_wdata, axi_bready,
             axi_arvalid, axi_araddr, axi_rready>>
bridgeVars == <<s_we_r, s_stb_r, s_addr, s_arready, s_rvalid, s_rdata, s_awready, s_wready, s_bvalid>>

BridgeInit ==
    /\ s_we_r = FALSE /\ s_stb_r = FALSE
    /\ s_addr = 0 /\ s_rdata = 0
    /\ s_arready = FALSE /\ s_rvalid = FALSE
    /\ s_awready = FALSE /\ s_wready = FALSE /\ s_bvalid = FALSE

-----------------------------------------------------------------------------
axi_rvalid == s_rvalid /\ ~s_we_r
axi_bvalid == s_bvalid /\ s_we_r

\* Only an address-valid switches the direction, and a read wins.
p_wb_we == s_we_r' = (~axi_arvalid /\ (axi_awvalid \/ s_we_r))

\* Mutant: the strobe survives the acknowledge.
p_stb_we_Stuck ==
    /\ s_stb_r' = (axi_arvalid \/ axi_awvalid \/ s_stb_r)
    /\ s_addr' = IF axi_arvalid THEN axi_araddr ELSE IF axi_awvalid THEN axi_awaddr ELSE s_addr

p_stb_we ==
    /\ s_stb_r' = (axi_arvalid \/ axi_awvalid \/ (s_stb_r /\ ~wb_ack))
    /\ s_addr' = IF axi_arvalid THEN axi_araddr ELSE IF axi_awvalid THEN axi_awaddr ELSE s_addr

p_mux_read ==
    /\ IF wb_ack /\ ~s_we_r
       THEN s_rdata' = wb_dat /\ s_rvalid' = TRUE
       ELSE s_rdata' = s_rdata /\ s_rvalid' = (s_rvalid /\ ~axi_rready)
    /\ s_arready' = (axi_arvalid /\ ~s_arready)

\* Mutant: the write response is given up after one clock.
p_mux_write_Pulse ==
    /\ s_awready' = (axi_awvalid /\ axi_wvalid /\ ~s_awready)
    /\ s_wready' = (axi_awvalid /\ axi_wvalid /\ ~s_wready)
    /\ s_bvalid' = (s_we_r /\ wb_ack /\ ~s_bvalid)

p_mux_write ==
    /\ s_awready' = (axi_awvalid /\ axi_wvalid /\ ~s_awready)
    /\ s_wready' = (axi_awvalid /\ axi_wvalid /\ ~s_wready)
    /\ s_bvalid' = IF s_we_r /\ wb_ack /\ ~s_bvalid THEN TRUE ELSE s_bvalid /\ ~axi_bready

BridgeClk == p_wb_we /\ p_stb_we /\ p_mux_read /\ p_mux_write
=============================================================================
