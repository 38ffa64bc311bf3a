---------------------------- MODULE BridgeSystem ----------------------------
(***************************************************************************)
(* The bridge between the interconnect and the Wishbone side of            *)
(* i2c_master_top (its acknowledge and its registered read multiplexer, on *)
(* registers that only keep what is written).  One step is one clock.      *)
(*                                                                         *)
(* The interconnect is the crossbar of the block design: one slave slot,   *)
(* shared address, one transaction at a time.  An arbiter grants the next  *)
(* transaction, its splitter opens the channels the transaction needs and  *)
(* closes each after its own handshake.  WVALID, WDATA, BREADY and RREADY  *)
(* come from the processor's port, through the crossbar, in the same       *)
(* clock: the data of a write may be offered after its address, they hold  *)
(* until WREADY has taken them, and they are anything at all other times.  *)
(***************************************************************************)
EXTENDS AxiWbBridge

ASSUME RegisterAssumption == 0 \in Addr /\ 0 \in Data

VARIABLES
    grant, open,        \* the arbiter's grant; the splitter's channels still to complete
    mem,                \* the registers
    req,                \* history: the last request, as RegisterAccess knows it
    handed,             \* history: the data last taken by WREADY
    effects,            \* history: Wishbone accesses for the last request
    got, answer         \* history: value last read by an access, and by the interconnect

sysVars == <<grant, open, mem, req, handed, effects, got, answer>>
vars == <<axiVars, bridgeVars, wb_ack, wb_dat, sysVars>>

Init ==
    /\ BridgeInit
    /\ axi_awvalid = FALSE /\ axi_wvalid = FALSE /\ axi_arvalid = FALSE
    /\ axi_bready = FALSE /\ axi_rready = FALSE
    /\ axi_awaddr = 0 /\ axi_araddr = 0 /\ axi_wdata = 0
    /\ wb_ack = FALSE /\ wb_dat = 0
    /\ grant = "none" /\ open = {}
    /\ mem = [a \in Addr |-> 0]
    /\ req = [op |-> "none"] /\ handed = 0 /\ effects = 0 /\ got = 0 /\ answer = 0

-----------------------------------------------------------------------------
(* The Wishbone slave *)

\* gen_ack_o, wb_wacc and assign_dato of i2c_master_top.
WishboneClk ==
    /\ wb_ack' = (s_stb_r /\ ~wb_ack)
    /\ wb_dat' = mem[s_addr]
    /\ mem' = IF wb_ack /\ s_we_r THEN [mem EXCEPT ![s_addr] = axi_wdata] ELSE mem

-----------------------------------------------------------------------------
(* The crossbar *)

ChannelsOf(g) == IF g = "write" THEN {"aw", "w", "b"} ELSE {"ar", "r"}

WTaken   == axi_wvalid /\ s_wready
Answered == axi_rvalid /\ axi_rready

\* The channels whose handshake is in this clock.
Taken ==
    {c \in open : \/ c = "aw" /\ s_awready
                  \/ c = "w" /\ WTaken
                  \/ c = "b" /\ axi_bvalid /\ axi_bready
                  \/ c = "ar" /\ s_arready
                  \/ c = "r" /\ Answered}

\* The address is latched until the grant.
Grant ==
    /\ grant = "none"
    /\ grant' \in {"none", "read", "write"}
    /\ open' = {}
    /\ axi_awaddr' \in Addr /\ axi_araddr' = axi_awaddr'

Open ==
    /\ grant # "none" /\ open = {}
    /\ open' = ChannelsOf(grant)
    /\ UNCHANGED <<grant, axi_awaddr, axi_araddr>>

Transfer ==
    /\ grant # "none" /\ open # {}
    /\ open' = open \ Taken
    /\ grant' = IF open' = {} THEN "none" ELSE grant
    /\ UNCHANGED <<axi_awaddr, axi_araddr>>

\* The W channel from the processor's port: an offer stays until it is taken.
WriteData ==
    IF axi_wvalid /\ ~s_wready THEN UNCHANGED <<axi_wvalid, axi_wdata>>
    ELSE axi_wvalid' \in {FALSE, "w" \in open'} /\ axi_wdata' \in Data

CrossbarClk ==
    /\ Grant \/ Open \/ Transfer
    /\ axi_awvalid' = ("aw" \in open') /\ axi_arvalid' = ("ar" \in open')
    /\ WriteData
    /\ axi_bready' \in {FALSE, "b" \in open'}
    /\ axi_rready' \in BOOLEAN

-----------------------------------------------------------------------------
(* History *)

\* A write is loose unless its data come with its address and stay until they
\* are used.
Asked ==
    IF grant = "read" THEN [op |-> "read", adr |-> axi_araddr]
    ELSE IF axi_wvalid' THEN [op |-> "write", adr |-> axi_awaddr, dat |-> axi_wdata']
    ELSE [op |-> "loose", adr |-> axi_awaddr]

Changed == req.op = "write" /\ effects = 0 /\ ~wb_ack /\ axi_wdata' # req.dat

Observe ==
    /\ req' = IF Open THEN Asked
              ELSE IF Changed THEN [op |-> "loose", adr |-> req.adr]
              ELSE req
    /\ handed' = IF WTaken THEN axi_wdata ELSE handed
    /\ effects' = IF Open THEN 0
                  ELSE IF wb_ack /\ effects < 2 THEN effects + 1
                  ELSE effects
    /\ got' = IF wb_ack THEN mem[s_addr] ELSE got
    /\ answer' = IF "r" \in open /\ Answered THEN s_rdata ELSE answer

Next == CrossbarClk /\ BridgeClk /\ WishboneClk /\ Observe

Spec == Init /\ [][Next]_vars

\* The clock runs; the processor's port offers the data of a write in the end,
\* and does not refuse a response for ever.
FairSpec ==
    /\ Spec /\ WF_vars(Next)
    /\ WF_vars(Next /\ axi_wvalid')
    /\ WF_vars(Next /\ axi_bready') /\ WF_vars(Next /\ axi_rready')

-----------------------------------------------------------------------------
(* Properties *)

\* Through the bridge a register access is what RegisterAccess says: a read has
\* one effect, between its start and its answer; a write whose data hold has
\* one effect, before the next access; and no access touches a register that
\* is not its own.
Registers == INSTANCE RegisterAccess WITH busy <- open # {}

AccessesKeepToThemselves == Registers!Spec

\* A response that the interconnect waits for stays until it is taken (the
\* comment at s_bvalid: "needs to stay asserted until master ack. with
\* bready"), and the data of a read do not change: read and write responses
\* hang on s_we_r, which the next transaction changes.
ResponsesStay ==
    [][/\ "b" \in open /\ axi_bvalid /\ ~axi_bready => axi_bvalid'
       /\ "r" \in open /\ axi_rvalid /\ ~axi_rready => axi_rvalid' /\ s_rdata' = s_rdata]_vars

\* Every transaction ends: its channels are all taken in the end, the write
\* response among them, however late the data of the write come.
EveryAccessIsAnswered == grant # "none" ~> grant = "none"

\* What the ports' comments say of a write ("Write ready. This signal indicates
\* that the slave can accept the write data"): once a write is over and the
\* Wishbone side at rest, the register holds the data that WREADY took.
WritesLand ==
    grant = "none" /\ ~s_stb_r /\ ~wb_ack /\ req.op \in {"write", "loose"}
        => mem[req.adr] = handed
=============================================================================
