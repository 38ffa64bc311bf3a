------------------------- MODULE BridgeSystem_proofs -------------------------
(***************************************************************************)
(* For any registers and values: behind the crossbar the bridge implements *)
(* RegisterAccess, and no response that is waited for is withdrawn.        *)
(***************************************************************************)
EXTENDS BridgeSystem, TLAPS

Values ==
    /\ mem \in [Addr -> Data]
    /\ axi_awaddr \in Addr /\ axi_araddr = axi_awaddr /\ s_addr \in Addr
    /\ axi_wdata \in Data /\ wb_dat \in Data /\ s_rdata \in Data
    /\ got \in Data /\ answer \in Data /\ effects \in {0, 1, 2}
    /\ axi_wvalid \in BOOLEAN /\ axi_bready \in BOOLEAN /\ axi_rready \in BOOLEAN
    /\ s_we_r \in BOOLEAN /\ s_stb_r \in BOOLEAN /\ wb_ack \in BOOLEAN /\ s_bvalid \in BOOLEAN

Requests == {Registers!None} \cup Registers!Reads \cup Registers!Writes \cup Registers!LooseWrites

-----------------------------------------------------------------------------
\* The handshake lines of the address and data channels.
WriteLines(valid, ready) ==
    axi_awvalid = valid /\ s_awready = ready /\ s_wready = ready

ReadLines(valid, ready, response) ==
    axi_arvalid = valid /\ s_arready = ready /\ s_rvalid = response

Bus(strobe, acknowledge) == s_stb_r = strobe /\ wb_ack = acknowledge

\* The life of a write: its address is put on the bus, stays until the data are
\* offered too, and the strobe outlives the address until an acknowledge.
ForWrite ==
    /\ req \in Registers!Writes \cup Registers!LooseWrites
    /\ ReadLines(FALSE, FALSE, FALSE)

\* What a write that is not loose still has before it.
Holds == axi_wdata = req.dat /\ effects = 0

WriteAsked ==
    /\ ForWrite /\ grant = "write" /\ open = {"aw", "w", "b"}
    /\ WriteLines(TRUE, FALSE) /\ Bus(FALSE, FALSE) /\ req.adr = axi_awaddr
    /\ req.op = "write" => axi_wvalid /\ Holds

WriteStrobes ==
    /\ ForWrite /\ grant = "write" /\ open \in {{"aw", "w", "b"}, {"aw", "w"}}
    /\ s_we_r = TRUE /\ s_addr = req.adr /\ req.adr = axi_awaddr /\ s_stb_r = TRUE

WriteWaits == WriteStrobes /\ WriteLines(TRUE, FALSE) /\ req.op = "loose"

WriteTaken ==
    /\ WriteStrobes /\ WriteLines(TRUE, TRUE) /\ axi_wvalid = TRUE
    /\ req.op = "write" => Holds /\ wb_ack = FALSE

WriteTail ==
    /\ ForWrite /\ open \in {{"b"}, {}} /\ (open = {"b"} => grant = "write")
    /\ WriteLines(FALSE, FALSE) /\ axi_wvalid = FALSE
    /\ s_we_r = TRUE /\ s_addr = req.adr /\ s_stb_r = TRUE
    /\ req.op = "write" => Holds /\ wb_ack = TRUE /\ (open = {} => grant = "none")
    /\ open = {} /\ grant # "none" => wb_ack = TRUE

\* Nothing is under way on the Wishbone side; a response may be.
Rest ==
    /\ req \in Requests /\ open \in {{"b"}, {}}
    /\ open = {"b"} => grant = "write" /\ s_we_r = TRUE /\ req.op \in {"write", "loose"}
    /\ req.op = "write" => effects = 1
    /\ WriteLines(FALSE, FALSE) /\ axi_wvalid = FALSE
    /\ ReadLines(FALSE, FALSE, FALSE) /\ Bus(FALSE, FALSE)

\* The life of a read.
ForRead(channels) ==
    /\ req \in Registers!Reads /\ req.adr = axi_araddr
    /\ grant = "read" /\ open = channels
    /\ WriteLines(FALSE, FALSE) /\ axi_wvalid = FALSE

ReadAsked ==
    /\ ForRead({"ar", "r"}) /\ effects = 0
    /\ ReadLines(TRUE, FALSE, FALSE) /\ Bus(FALSE, FALSE)
ReadTaken ==
    /\ ForRead({"ar", "r"}) /\ effects = 0
    /\ ReadLines(TRUE, TRUE, FALSE) /\ Bus(TRUE, FALSE)
    /\ s_we_r = FALSE /\ s_addr = req.adr
ReadAcked ==
    /\ ForRead({"r"}) /\ effects = 0
    /\ ReadLines(FALSE, FALSE, FALSE) /\ Bus(TRUE, TRUE)
    /\ s_we_r = FALSE /\ s_addr = req.adr /\ wb_dat = mem[req.adr]
ReadDone ==
    /\ ForRead({"r"}) /\ effects = 1
    /\ ReadLines(FALSE, FALSE, TRUE) /\ Bus(FALSE, FALSE)
    /\ s_we_r = FALSE /\ s_rdata = got

Writing == WriteAsked \/ WriteWaits \/ WriteTaken \/ WriteTail
Reading == ReadAsked \/ ReadTaken \/ ReadAcked \/ ReadDone

BridgeInv ==
    /\ Values /\ grant \in {"none", "read", "write"}
    /\ Rest \/ Writing \/ Reading

\* What ResponsesStay says of a step.
Kept ==
    /\ "b" \in open /\ axi_bvalid /\ ~axi_bready => axi_bvalid'
    /\ "r" \in open /\ axi_rvalid /\ ~axi_rready => axi_rvalid' /\ s_rdata' = s_rdata

-----------------------------------------------------------------------------
LEMMA BridgeStart == Init => BridgeInv /\ Registers!Init
  <1> SUFFICES ASSUME Init PROVE BridgeInv /\ Registers!Init
    OBVIOUS
  <1> USE RegisterAssumption
  <1>1. Values
    BY DEF Init, BridgeInit, Values
  <1>2. Rest
    BY DEF Init, BridgeInit, Rest, Requests, Registers!None, WriteLines, ReadLines, Bus
  <1>3. Registers!Init
    BY <1>1 DEF Init, Registers!Init, Registers!None, Values
  <1> QED BY <1>1, <1>2, <1>3 DEF BridgeInv, Init

LEMMA ValuesKept ==
    ASSUME Values, Next
    PROVE  Values'
  <1> USE DEF Values
  <1>1. mem' \in [Addr -> Data] /\ wb_dat' \in Data /\ got' \in Data /\ answer' \in Data
    BY DEF Next, WishboneClk, Observe
  <1>2. axi_awaddr' \in Addr /\ axi_araddr' = axi_awaddr'
    BY DEF Next, CrossbarClk, Grant, Open, Transfer
  <1>3. axi_wdata' \in Data /\ axi_wvalid' \in BOOLEAN
    <2>1. CASE axi_wvalid /\ ~s_wready
      BY <2>1 DEF Next, CrossbarClk, WriteData
    <2>2. CASE ~(axi_wvalid /\ ~s_wready)
      <3>1. axi_wvalid' \in {FALSE, "w" \in open'} /\ axi_wdata' \in Data
        BY <2>2 DEF Next, CrossbarClk, WriteData
      <3>2. ("w" \in open') \in BOOLEAN
        OBVIOUS
      <3> QED BY <3>1, <3>2, Zenon
    <2> QED BY <2>1, <2>2
  <1>8. axi_bready' \in BOOLEAN /\ axi_rready' \in BOOLEAN
    <2>1. axi_bready' \in {FALSE, "b" \in open'} /\ axi_rready' \in BOOLEAN
      BY DEF Next, CrossbarClk
    <2>2. ("b" \in open') \in BOOLEAN
      OBVIOUS
    <2> QED BY <2>1, <2>2, Zenon
  <1>4. effects' \in {0, 1, 2}
    BY DEF Next, Observe
  <1>5. s_addr' \in Addr /\ s_rdata' \in Data
    BY DEF Next, BridgeClk, p_stb_we, p_mux_read
  <1>6. s_we_r' \in BOOLEAN /\ s_stb_r' \in BOOLEAN
    BY DEF Next, BridgeClk, p_wb_we, p_stb_we
  <1>7. s_bvalid' \in BOOLEAN /\ wb_ack' \in BOOLEAN
    BY DEF Next, BridgeClk, p_mux_write, WishboneClk
  <1> QED BY <1>1, <1>2, <1>3, <1>4, <1>5, <1>6, <1>7, <1>8

\* Where no transaction is opened, the last request stays what it was or, as
\* long as its data are not used, becomes loose.
LEMMA SameRequest ==
    ASSUME Next, open # {} \/ grant = "none"
    PROVE  /\ ~Open
           /\ req' = IF Changed THEN [op |-> "loose", adr |-> req.adr] ELSE req
           /\ effects' = IF wb_ack /\ effects < 2 THEN effects + 1 ELSE effects
  <1>1. ~Open
    BY DEF Open
  <1> QED BY <1>1 DEF Next, Observe

\* An acknowledge in a write writes WDATA, as it is then, to the register of
\* the request.
LEMMA WriteAccess ==
    ASSUME Values, Next, open # {} \/ grant = "none",
           req \in Registers!Writes \cup Registers!LooseWrites,
           req.op = "write" => Holds,
           s_we_r = TRUE, s_addr = req.adr, wb_ack = TRUE
    PROVE  /\ Registers!PerformWrite \/ Registers!Strike
           /\ req' = req
           /\ req.op = "write" => effects' = 1
  <1>1. req' = req /\ effects' = IF effects < 2 THEN effects + 1 ELSE effects
    BY SameRequest DEF Changed
  <1>2. got' = mem[req.adr] /\ mem' = [mem EXCEPT ![req.adr] = axi_wdata]
    BY DEF Next, Observe, WishboneClk
  <1>3. CASE req.op = "write"
    <2>1. effects = 0 /\ axi_wdata = req.dat
      BY <1>3 DEF Holds
    <2>2. effects' = 1
      BY <1>1, <2>1
    <2> QED BY <1>1, <1>2, <1>3, <2>1, <2>2 DEF Registers!PerformWrite
  <1>4. CASE req.op = "loose"
    <2>1. effects' \in {1, 2}
      BY <1>1 DEF Values
    <2>2. Registers!Struck
      BY <1>2, <1>4 DEF Values, Registers!Struck
    <2> QED BY <1>1, <1>4, <2>1, <2>2 DEF Registers!Strike
  <1> QED BY <1>3, <1>4 DEF Registers!Writes, Registers!LooseWrites

\* Without an acknowledge the registers keep their values.
LEMMA NoAccess ==
    ASSUME Next, wb_ack = FALSE
    PROVE  UNCHANGED <<mem, got>>
  <1> QED BY DEF Next, Observe, WishboneClk

LEMMA NoEffect ==
    ASSUME Values, Next, open # {} \/ grant = "none", wb_ack = FALSE
    PROVE  UNCHANGED <<mem, effects, got>>
  <1> QED BY NoAccess, SameRequest

\* The end of a transaction that reads nothing.
LEMMA WriteAnswer ==
    ASSUME Next, req.op # "read", "r" \notin open, open # {} \/ open' = {}
    PROVE  Registers!Respond \/ UNCHANGED <<open # {}, answer>>
  <1>1. answer' = answer
    BY DEF Next, Observe
  <1>2. CASE open # {} /\ open' = {}
    BY <1>1, <1>2 DEF Registers!Respond
  <1>3. CASE (open # {}) = (open' # {})
    BY <1>1, <1>3
  <1> QED BY <1>2, <1>3

\* An address is valid as long as its channel is open.
LEMMA AddressClk ==
    ASSUME Next
    PROVE  /\ "aw" \in open' => axi_awvalid' = TRUE
           /\ "aw" \notin open' => axi_awvalid' = FALSE
           /\ "ar" \in open' => axi_arvalid' = TRUE
           /\ "ar" \notin open' => axi_arvalid' = FALSE
  <1>1. axi_awvalid' = ("aw" \in open') /\ axi_arvalid' = ("ar" \in open')
    BY DEF Next, CrossbarClk
  <1>2. ("aw" \in open' => ("aw" \in open') = TRUE) /\ ("aw" \notin open' => ("aw" \in open') = FALSE)
    OBVIOUS
  <1>3. ("ar" \in open' => ("ar" \in open') = TRUE) /\ ("ar" \notin open' => ("ar" \in open') = FALSE)
    OBVIOUS
  <1> QED BY <1>1, <1>2, <1>3

\* What a clock does to the lines while nothing is read.
LEMMA WriteClk ==
    ASSUME Values, Next, ReadLines(FALSE, FALSE, FALSE)
    PROVE  /\ s_arready' = FALSE
           /\ s_we_r' = (axi_awvalid \/ s_we_r)
           /\ s_stb_r' = (axi_awvalid \/ (s_stb_r /\ ~wb_ack))
           /\ s_addr' = IF axi_awvalid THEN axi_awaddr ELSE s_addr
           /\ s_awready' = (axi_awvalid /\ axi_wvalid /\ ~s_awready)
           /\ s_wready' = (axi_awvalid /\ axi_wvalid /\ ~s_wready)
           /\ wb_ack' = (s_stb_r /\ ~wb_ack)
           /\ (wb_ack /\ ~s_we_r) \/ s_rvalid' = FALSE
  <1> QED BY DEF ReadLines, Values, Next, CrossbarClk, BridgeClk, p_wb_we, p_stb_we,
             p_mux_read, p_mux_write, WishboneClk

-----------------------------------------------------------------------------
\* The splitter: a channel stays open until its handshake.
LEMMA Splitter ==
    ASSUME Next, open # {}, grant # "none"
    PROVE  /\ open' = open \ Taken
           /\ grant' = IF open' = {} THEN "none" ELSE grant
           /\ UNCHANGED <<axi_awaddr, axi_araddr>>
  <1>1. ~Open /\ ~Grant
    BY DEF Open, Grant
  <1>2. Transfer
    BY <1>1 DEF Next, CrossbarClk
  <1> QED BY <1>2 DEF Transfer

\* The address and data channels of a write close together.
LEMMA WriteChannels ==
    ASSUME open \in {{"aw", "w", "b"}, {"aw", "w"}}, grant = "write", Next, s_wready = s_awready,
           s_awready \in BOOLEAN, s_awready => axi_wvalid
    PROVE  /\ s_awready = FALSE => open' \in {{"aw", "w", "b"}, {"aw", "w"}}
           /\ s_awready = TRUE => open' \in {{"b"}, {}}
  <1>1. open' = open \ Taken
    BY Splitter
  <1>2. CASE s_awready = FALSE
    <2>1. Taken \subseteq {"b"}
      BY <1>2 DEF Taken, WTaken
    <2> QED BY <1>1, <1>2, <2>1
  <1>3. CASE s_awready = TRUE
    <2>1. "aw" \in Taken /\ "w" \in Taken /\ Taken \subseteq open
      BY <1>3 DEF Taken, WTaken
    <2> QED BY <1>1, <1>3, <2>1
  <1> QED BY <1>2, <1>3

LEMMA ResponseChannel ==
    ASSUME open = {"b"}, grant = "write", Next
    PROVE  open' \in {{"b"}, {}}
  <1>1. open' = open \ Taken
    BY Splitter
  <1> QED BY <1>1

\* A write response is not withdrawn.
LEMMA WriteKept ==
    ASSUME Values, Next, ReadLines(FALSE, FALSE, FALSE), "r" \notin open
    PROVE  Kept
  <1>1. s_bvalid /\ s_we_r /\ ~axi_bready => s_bvalid' /\ s_we_r'
    BY DEF ReadLines, Values, Next, BridgeClk, p_wb_we, p_mux_write
  <1> QED BY <1>1 DEF Kept, axi_bvalid

LEMMA FromWriteAsked ==
    ASSUME Values, WriteAsked, Next
    PROVE  (WriteWaits \/ WriteTaken)' /\ UNCHANGED Registers!vars /\ Kept
  <1> USE DEF WriteAsked, ForWrite, WriteLines, Bus
  <1>1. /\ open' \in {{"aw", "w", "b"}, {"aw", "w"}} /\ grant' = "write"
        /\ UNCHANGED <<axi_awaddr, axi_araddr>>
    BY WriteChannels, Splitter
  <1>2. /\ ReadLines(FALSE, FALSE, FALSE)' /\ axi_awvalid' = TRUE
        /\ s_we_r' = TRUE /\ s_stb_r' = TRUE /\ s_addr' = axi_awaddr /\ wb_ack' = FALSE
        /\ s_awready' = axi_wvalid /\ s_wready' = axi_wvalid
    <2>1. "aw" \in open' /\ "ar" \notin open'
      BY <1>1
    <2>2. axi_awvalid' = TRUE /\ axi_arvalid' = FALSE
      BY <2>1, AddressClk
    <2>5. s_arready' = FALSE /\ s_rvalid' = FALSE
      BY WriteClk
    <2>3. s_we_r' = TRUE /\ s_stb_r' = TRUE /\ s_addr' = axi_awaddr /\ wb_ack' = FALSE
      BY WriteClk
    <2>4. s_awready' = axi_wvalid /\ s_wready' = axi_wvalid
      BY WriteClk DEF Values
    <2> QED BY <2>2, <2>3, <2>4, <2>5 DEF ReadLines
  <1>3. axi_wvalid => axi_wvalid' /\ axi_wdata' = axi_wdata
    BY DEF Next, CrossbarClk, WriteData
  <1>4. UNCHANGED <<mem, effects, got>> /\ req' = req
    BY <1>3, NoEffect, SameRequest DEF Changed, Holds
  <1>5. UNCHANGED answer
    BY DEF Next, Observe
  <1>6. UNCHANGED Registers!vars
    BY <1>1, <1>4, <1>5 DEF Registers!vars
  <1>7. WriteStrobes'
    BY <1>1, <1>2, <1>4 DEF WriteStrobes, ReadLines
  <1>8. (WriteWaits \/ WriteTaken)'
    <2>1. CASE axi_wvalid = TRUE
      <3>1. WriteLines(TRUE, TRUE)' /\ axi_wvalid' = TRUE
        BY <1>2, <1>3, <2>1, ValuesKept DEF Values
      <3>2. (req.op = "write" => Holds /\ wb_ack = FALSE)'
        BY <1>2, <1>3, <1>4, <2>1 DEF Holds
      <3> QED BY <1>7, <3>1, <3>2 DEF WriteTaken
    <2>2. CASE axi_wvalid = FALSE
      <3>1. WriteLines(TRUE, FALSE)'
        BY <1>2, <2>2
      <3>2. req'.op = "loose"
        BY <1>4, <2>2 DEF Registers!Writes, Registers!LooseWrites
      <3> QED BY <1>7, <3>1, <3>2 DEF WriteWaits
    <2> QED BY <2>1, <2>2 DEF Values
  <1> QED BY <1>6, <1>8, WriteKept

LEMMA FromWriteWaits ==
    ASSUME Values, WriteWaits, Next
    PROVE  /\ (WriteWaits \/ WriteTaken)' /\ Kept
           /\ Registers!Act /\ UNCHANGED <<open # {}, answer>>
  <1> USE DEF WriteWaits, WriteStrobes, ForWrite, WriteLines
  <1>1. /\ open' \in {{"aw", "w", "b"}, {"aw", "w"}} /\ grant' = "write"
        /\ UNCHANGED <<axi_awaddr, axi_araddr>>
    BY WriteChannels, Splitter
  <1>2. /\ ReadLines(FALSE, FALSE, FALSE)' /\ axi_awvalid' = TRUE
        /\ s_we_r' = TRUE /\ s_stb_r' = TRUE /\ s_addr' = axi_awaddr
        /\ s_awready' = axi_wvalid /\ s_wready' = axi_wvalid
    <2>1. "aw" \in open' /\ "ar" \notin open'
      BY <1>1
    <2>2. axi_awvalid' = TRUE /\ axi_arvalid' = FALSE
      BY <2>1, AddressClk
    <2>5. s_arready' = FALSE /\ s_rvalid' = FALSE
      BY WriteClk
    <2>3. s_we_r' = TRUE /\ s_stb_r' = TRUE /\ s_addr' = axi_awaddr
      BY WriteClk
    <2>4. s_awready' = axi_wvalid /\ s_wready' = axi_wvalid
      BY WriteClk DEF Values
    <2> QED BY <2>2, <2>3, <2>4, <2>5 DEF ReadLines
  <1>3. axi_wvalid => axi_wvalid'
    BY DEF Next, CrossbarClk, WriteData
  <1>4. req' = req /\ UNCHANGED answer
    BY SameRequest DEF Changed, Next, Observe
  <1>5. Registers!Act
    <2>1. CASE wb_ack = TRUE
      BY <2>1, WriteAccess DEF Registers!Act
    <2>2. CASE wb_ack = FALSE
      BY <2>2, <1>4, NoEffect DEF Registers!Act
    <2> QED BY <2>1, <2>2 DEF Values
  <1>6. WriteStrobes'
    BY <1>1, <1>2, <1>4 DEF ReadLines
  <1>7. (WriteWaits \/ WriteTaken)'
    <2>1. CASE axi_wvalid = TRUE
      BY <1>2, <1>3, <1>4, <1>6, <2>1, ValuesKept DEF Values, WriteTaken
    <2>2. CASE axi_wvalid = FALSE
      BY <1>2, <1>4, <1>6, <2>2
    <2> QED BY <2>1, <2>2 DEF Values
  <1>8. UNCHANGED <<open # {}, answer>>
    BY <1>1, <1>4
  <1> QED BY <1>5, <1>7, <1>8, WriteKept

\* WVALID falls, and no data are on offer, once the data channel is closed.
LEMMA DataClosed ==
    ASSUME Values, Next, "w" \notin open', axi_wvalid => s_wready
    PROVE  axi_wvalid' = FALSE
  <1>1. axi_wvalid' \in {FALSE, "w" \in open'}
    BY DEF Next, CrossbarClk, WriteData, Values
  <1>2. ("w" \in open') = FALSE
    OBVIOUS
  <1> QED BY <1>1, <1>2

\* The write's address is taken, its data too; their effect is still to come.
LEMMA FromWriteTaken ==
    ASSUME Values, WriteTaken, Next
    PROVE  /\ WriteTail' /\ Kept
           /\ Registers!Act /\ (Registers!Respond \/ UNCHANGED <<open # {}, answer>>)
  <1> USE DEF WriteTaken, WriteStrobes, ForWrite, WriteLines
  <1>1. /\ open' \in {{"b"}, {}} /\ grant' = IF open' = {} THEN "none" ELSE "write"
        /\ UNCHANGED <<axi_awaddr, axi_araddr>>
    BY WriteChannels, Splitter
  <1>2. /\ ReadLines(FALSE, FALSE, FALSE)' /\ WriteLines(FALSE, FALSE)' /\ axi_wvalid' = FALSE
        /\ s_we_r' = TRUE /\ s_stb_r' = TRUE /\ s_addr' = axi_awaddr
        /\ wb_ack = FALSE => wb_ack' = TRUE
    <2>1. "aw" \notin open' /\ "ar" \notin open' /\ "w" \notin open'
      BY <1>1
    <2>2. axi_awvalid' = FALSE /\ axi_arvalid' = FALSE
      BY <2>1, AddressClk
    <2>3. axi_wvalid' = FALSE
      BY <2>1, DataClosed
    <2>4. s_arready' = FALSE /\ s_rvalid' = FALSE /\ s_awready' = FALSE /\ s_wready' = FALSE
      BY WriteClk
    <2>5. s_we_r' = TRUE /\ s_stb_r' = TRUE /\ s_addr' = axi_awaddr
      BY WriteClk
    <2>6. wb_ack = FALSE => wb_ack' = TRUE
      BY WriteClk
    <2> QED BY <2>2, <2>3, <2>4, <2>5, <2>6 DEF ReadLines
  <1>3. "r" \notin open /\ open # {} /\ req.op # "read"
    BY DEF Registers!Writes, Registers!LooseWrites
  <1>4. Registers!Respond \/ UNCHANGED <<open # {}, answer>>
    BY <1>3, WriteAnswer
  <1>5. CASE wb_ack = TRUE
    <2>1. req.op = "loose"
      BY <1>5 DEF Registers!Writes, Registers!LooseWrites
    <2>2. Registers!Act /\ req' = req
      BY <1>3, <1>5, WriteAccess DEF Registers!Act
    <2>3. WriteTail'
      BY <1>1, <1>2, <2>1, <2>2 DEF WriteTail
    <2> QED BY <1>3, <1>4, <2>2, <2>3, WriteKept
  <1>6. CASE wb_ack = FALSE
    <2>1. UNCHANGED <<mem, effects, got>>
      BY <1>3, <1>6, NoEffect
    <2>2. CASE Changed
      <3>1. req' = [op |-> "loose", adr |-> req.adr] /\ req.op = "write" /\ effects = 0
        BY <1>3, <2>2, SameRequest DEF Changed
      <3>2. Registers!Act
        BY <2>1, <3>1 DEF Registers!Act, Registers!Loosen
      <3>3. req' \in Registers!LooseWrites /\ req'.op = "loose" /\ req'.adr = req.adr
        BY <3>1 DEF Registers!Writes, Registers!LooseWrites
      <3>4. WriteTail'
        BY <1>1, <1>2, <3>3 DEF WriteTail
      <3> QED BY <1>3, <1>4, <3>2, <3>4, WriteKept
    <2>3. CASE ~Changed
      <3>1. req' = req
        BY <1>3, <2>3, SameRequest
      <3>2. Registers!Act
        BY <2>1, <3>1 DEF Registers!Act
      <3>3. (req.op = "write" => Holds)'
        BY <1>6, <2>1, <2>3, <3>1 DEF Changed, Holds
      <3>4. WriteTail'
        BY <1>1, <1>2, <1>6, <3>1, <3>3 DEF WriteTail
      <3> QED BY <1>3, <1>4, <3>2, <3>4, WriteKept
    <2> QED BY <2>2, <2>3
  <1> QED BY <1>5, <1>6 DEF Values

\* The first clock of a transaction, the Wishbone side being at rest.
LEMMA Opens ==
    ASSUME Values, Next, open = {}, grant \in {"read", "write"},
           ReadLines(FALSE, FALSE, FALSE), WriteLines(FALSE, FALSE), axi_wvalid = FALSE,
           Bus(FALSE, FALSE)', wb_ack => s_we_r
    PROVE  /\ (WriteAsked \/ ReadAsked)' /\ answer' = answer
           /\ req' \in Registers!Reads \cup Registers!Writes \cup Registers!LooseWrites
           /\ (open # {})' /\ effects' = 0
  <1>1. Open
    BY DEF Next, CrossbarClk, Grant, Transfer
  <1>2. /\ open' = ChannelsOf(grant) /\ grant' = grant /\ UNCHANGED <<axi_awaddr, axi_araddr>>
        /\ req' = Asked /\ effects' = 0 /\ answer' = answer
    BY <1>1 DEF Open, Next, Observe
  <1>3. s_arready' = FALSE /\ s_rvalid' = FALSE /\ s_awready' = FALSE /\ s_wready' = FALSE
    BY WriteClk DEF WriteLines, Values
  <1>4. CASE grant = "read"
    <2>1. open' = {"ar", "r"}
      BY <1>2, <1>4 DEF ChannelsOf
    <2>2. axi_awvalid' = FALSE /\ axi_arvalid' = TRUE /\ axi_wvalid' = FALSE
      BY <2>1, AddressClk, DataClosed
    <2>3. req' \in Registers!Reads /\ req'.adr = axi_araddr'
      BY <1>2, <1>4 DEF Asked, Values, Registers!Reads
    <2>4. ReadAsked'
      BY <1>2, <1>3, <1>4, <2>1, <2>2, <2>3 DEF ReadAsked, ForRead, ReadLines, WriteLines
    <2> QED BY <1>2, <2>1, <2>3, <2>4
  <1>5. CASE grant = "write"
    <2>1. open' = {"aw", "w", "b"}
      BY <1>2, <1>5 DEF ChannelsOf
    <2>2. axi_awvalid' = TRUE /\ axi_arvalid' = FALSE
      BY <2>1, AddressClk
    <2>3. /\ req' \in Registers!Writes \cup Registers!LooseWrites /\ req'.adr = axi_awaddr'
          /\ req'.op = "write" => axi_wvalid' /\ axi_wdata' = req'.dat
      <3>1. axi_wdata' \in Data /\ axi_wvalid' \in BOOLEAN
        BY ValuesKept DEF Values
      <3>2. CASE axi_wvalid' = TRUE
        BY <1>2, <1>5, <3>1, <3>2 DEF Asked, Values, Registers!Writes
      <3>3. CASE axi_wvalid' = FALSE
        BY <1>2, <1>5, <3>3 DEF Asked, Values, Registers!LooseWrites
      <3> QED BY <3>1, <3>2, <3>3
    <2>4. WriteAsked'
      BY <1>2, <1>3, <1>5, <2>1, <2>2, <2>3 DEF WriteAsked, ForWrite, Holds, ReadLines, WriteLines
    <2> QED BY <1>2, <2>1, <2>3, <2>4
  <1> QED BY <1>4, <1>5

\* While no address is open the write side keeps its lines down, and a granted
\* transaction is not yet on the bus.
LEMMA ClosedClk ==
    ASSUME Values, Next, "aw" \notin open', "ar" \notin open', "w" \notin open',
           ReadLines(FALSE, FALSE, FALSE), WriteLines(FALSE, FALSE), axi_wvalid = FALSE,
           wb_ack => s_we_r
    PROVE  /\ ReadLines(FALSE, FALSE, FALSE)' /\ WriteLines(FALSE, FALSE)' /\ axi_wvalid' = FALSE
           /\ s_we_r' = s_we_r /\ s_addr' = s_addr
           /\ s_stb_r' = (s_stb_r /\ ~wb_ack) /\ wb_ack' = (s_stb_r /\ ~wb_ack)
  <1> USE DEF WriteLines
  <1>1. axi_awvalid' = FALSE /\ axi_arvalid' = FALSE /\ axi_wvalid' = FALSE
    BY AddressClk, DataClosed
  <1>2. s_arready' = FALSE /\ s_rvalid' = FALSE /\ s_awready' = FALSE /\ s_wready' = FALSE
    BY WriteClk DEF Values
  <1>3. /\ s_we_r' = s_we_r /\ s_addr' = s_addr
        /\ s_stb_r' = (s_stb_r /\ ~wb_ack) /\ wb_ack' = (s_stb_r /\ ~wb_ack)
    BY WriteClk DEF Values
  <1> QED BY <1>1, <1>2, <1>3 DEF ReadLines

\* With no address open: the response is waited for, or the arbiter is free, or
\* it has granted what the next clock opens.
LEMMA ClosedChannels ==
    ASSUME Next, open \in {{"b"}, {}}, open = {"b"} => grant = "write",
           grant \in {"none", "read", "write"}, open = {} => grant = "none"
    PROVE  /\ open' \in {{"b"}, {}} /\ grant' \in {"none", "read", "write"}
           /\ open = {} => open' = {}
           /\ open = {"b"} => grant' = IF open' = {} THEN "none" ELSE "write"
           /\ open # {} \/ grant = "none"
  <1>1. CASE open = {"b"}
    BY <1>1, ResponseChannel, Splitter
  <1>2. CASE open = {}
    <2>1. Grant
      BY <1>2 DEF Next, CrossbarClk, Open, Transfer
    <2> QED BY <1>2, <2>1 DEF Grant
  <1> QED BY <1>1, <1>2

\* The effect of a write, at the latest in the clock that opens the next access.
LEMMA FromWriteTail ==
    ASSUME Values, WriteTail, Next, grant \in {"none", "read", "write"}
    PROVE  /\ (WriteTail \/ Rest \/ WriteAsked \/ ReadAsked)' /\ Kept
           /\ grant' \in {"none", "read", "write"}
           /\ \/ Registers!Request
              \/ Registers!Act /\ (Registers!Respond \/ UNCHANGED <<open # {}, answer>>)
  <1> USE DEF WriteTail, ForWrite
  <1>1. Kept
    BY WriteKept
  <1>2. "r" \notin open /\ req.op # "read"
    BY DEF Registers!Writes, Registers!LooseWrites
  <1>3. CASE open = {} => grant = "none"
    <2>1. /\ open' \in {{"b"}, {}} /\ grant' \in {"none", "read", "write"}
          /\ open = {} => open' = {}
          /\ open = {"b"} => grant' = IF open' = {} THEN "none" ELSE "write"
          /\ open # {} \/ grant = "none"
      BY <1>3, ClosedChannels
    <2>2. /\ ReadLines(FALSE, FALSE, FALSE)' /\ WriteLines(FALSE, FALSE)' /\ axi_wvalid' = FALSE
          /\ s_we_r' = s_we_r /\ s_addr' = s_addr
          /\ s_stb_r' = (s_stb_r /\ ~wb_ack) /\ wb_ack' = (s_stb_r /\ ~wb_ack)
      BY <2>1, ClosedClk
    <2>3. Registers!Respond \/ UNCHANGED <<open # {}, answer>>
      BY <1>2, <2>1, WriteAnswer
    <2>4. open' = {"b"} => grant' = "write"
      BY <2>1
    <2>5. CASE wb_ack = TRUE
      <3>1. Registers!Act /\ req' = req /\ (req.op = "write" => effects' = 1)
        BY <2>1, <2>5, WriteAccess DEF Registers!Act
      <3>2. Bus(FALSE, FALSE)'
        BY <2>2, <2>5 DEF Bus
      <3>3. Rest'
        <4>1. req' \in Requests /\ req'.op \in {"write", "loose"} /\ (req'.op = "write" => effects' = 1)
          BY <3>1 DEF Requests, Registers!Writes, Registers!LooseWrites
        <4> QED BY <2>1, <2>2, <2>4, <3>2, <4>1 DEF Rest
      <3> QED BY <1>1, <2>1, <2>3, <3>1, <3>3
    <2>6. CASE wb_ack = FALSE
      <3>1. req.op = "loose"
        BY <2>6 DEF Registers!Writes, Registers!LooseWrites
      <3>2. req' = req
        BY <2>1, <3>1, SameRequest DEF Changed
      <3>3. Registers!Act
        BY <2>1, <2>6, <3>2, NoEffect DEF Registers!Act
      <3>4. s_stb_r' = TRUE /\ wb_ack' = TRUE
        BY <2>2, <2>6
      <3>5. WriteTail'
        BY <2>1, <2>2, <2>4, <3>1, <3>2, <3>4
      <3> QED BY <1>1, <2>1, <2>3, <3>3, <3>5
    <2> QED BY <2>5, <2>6 DEF Values
  <1>4. CASE open = {} /\ grant # "none"
    <2>1. wb_ack = TRUE /\ req.op = "loose" /\ grant \in {"read", "write"}
      BY <1>4 DEF Registers!Writes, Registers!LooseWrites
    <2>2. Bus(FALSE, FALSE)'
      BY <2>1, WriteClk DEF Bus, WriteLines
    <2>3. /\ (WriteAsked \/ ReadAsked)' /\ answer' = answer
          /\ req' \in Registers!Reads \cup Registers!Writes \cup Registers!LooseWrites
          /\ (open # {})' /\ effects' = 0
      BY <1>4, <2>1, <2>2, Opens
    <2>4. Registers!Struck
      BY <2>1 DEF Registers!Struck, Values, Next, Observe, WishboneClk
    <2>5. Registers!Request
      BY <1>4, <2>1, <2>3, <2>4 DEF Registers!Request
    <2>6. grant' \in {"none", "read", "write"}
      BY <2>3 DEF WriteAsked, ReadAsked, ForRead
    <2> QED BY <1>1, <2>3, <2>5, <2>6
  <1> QED BY <1>3, <1>4

LEMMA FromRest ==
    ASSUME Values, Rest, Next, grant \in {"none", "read", "write"}
    PROVE  /\ (Rest \/ WriteAsked \/ ReadAsked)' /\ Kept
           /\ grant' \in {"none", "read", "write"}
           /\ \/ Registers!Request
              \/ Registers!Act /\ (Registers!Respond \/ UNCHANGED <<open # {}, answer>>)
  <1> USE DEF Rest, Bus
  <1>1. Kept
    BY WriteKept
  <1>2. CASE open = {} => grant = "none"
    <2>1. /\ open' \in {{"b"}, {}} /\ grant' \in {"none", "read", "write"}
          /\ open = {} => open' = {}
          /\ open = {"b"} => grant' = IF open' = {} THEN "none" ELSE "write"
          /\ open # {} \/ grant = "none"
      BY <1>2, ClosedChannels
    <2>2. /\ ReadLines(FALSE, FALSE, FALSE)' /\ WriteLines(FALSE, FALSE)' /\ axi_wvalid' = FALSE
          /\ s_we_r' = s_we_r /\ Bus(FALSE, FALSE)'
      BY <2>1, ClosedClk
    <2>3. UNCHANGED <<mem, effects, got>>
      BY <2>1, NoEffect
    <2>4. req' = req
      BY <2>1, SameRequest DEF Changed
    <2>5. Rest'
      BY <2>1, <2>2, <2>3, <2>4
    <2>6. Registers!Act
      BY <2>3, <2>4 DEF Registers!Act
    <2>7. Registers!Respond \/ UNCHANGED <<open # {}, answer>>
      <3>1. CASE open = {"b"}
        BY <3>1, WriteAnswer
      <3>2. CASE open = {}
        BY <2>1, <3>2 DEF Next, Observe
      <3> QED BY <3>1, <3>2
    <2> QED BY <1>1, <2>1, <2>5, <2>6, <2>7
  <1>3. CASE open = {} /\ grant # "none"
    <2>1. Bus(FALSE, FALSE)'
      BY WriteClk DEF WriteLines
    <2>2. /\ (WriteAsked \/ ReadAsked)' /\ answer' = answer
          /\ req' \in Registers!Reads \cup Registers!Writes \cup Registers!LooseWrites
          /\ (open # {})' /\ effects' = 0
      BY <1>3, <2>1, Opens
    <2>3. UNCHANGED <<mem, got>>
      BY NoAccess
    <2>4. Registers!Request
      BY <1>3, <2>2, <2>3 DEF Registers!Request
    <2>5. grant' \in {"none", "read", "write"}
      BY <2>2 DEF WriteAsked, ReadAsked, ForRead
    <2> QED BY <1>1, <2>2, <2>4, <2>5
  <1> QED BY <1>2, <1>3

-----------------------------------------------------------------------------
\* What a clock does to the lines of a read.
LEMMA ReadClk ==
    ASSUME Values, Next, WriteLines(FALSE, FALSE), axi_wvalid = FALSE, "w" \notin open', "aw" \notin open',
           axi_arvalid \in BOOLEAN, s_arready \in BOOLEAN, s_rvalid \in BOOLEAN
    PROVE  /\ WriteLines(FALSE, FALSE)' /\ axi_wvalid' = FALSE
           /\ s_we_r' = (s_we_r /\ ~axi_arvalid)
           /\ s_stb_r' = (axi_arvalid \/ (s_stb_r /\ ~wb_ack))
           /\ s_addr' = IF axi_arvalid THEN axi_araddr ELSE s_addr
           /\ s_arready' = (axi_arvalid /\ ~s_arready)
           /\ wb_ack' = (s_stb_r /\ ~wb_ack) /\ wb_dat' = mem[s_addr]
           /\ wb_ack = FALSE => s_rdata' = s_rdata /\ s_rvalid' = (s_rvalid /\ ~axi_rready)
           /\ wb_ack = TRUE /\ s_we_r = FALSE => s_rdata' = wb_dat /\ s_rvalid' = TRUE
           /\ answer' = IF "r" \in open /\ s_rvalid /\ ~s_we_r /\ axi_rready THEN s_rdata ELSE answer
  <1> USE DEF WriteLines
  <1>1. axi_awvalid' = FALSE /\ axi_wvalid' = FALSE
    BY AddressClk, DataClosed
  <1>2. s_awready' = FALSE /\ s_wready' = FALSE
    BY DEF Next, BridgeClk, p_mux_write
  <1>3. /\ s_we_r' = (s_we_r /\ ~axi_arvalid)
        /\ s_stb_r' = (axi_arvalid \/ (s_stb_r /\ ~wb_ack))
        /\ s_addr' = IF axi_arvalid THEN axi_araddr ELSE s_addr
    BY DEF Values, Next, BridgeClk, p_wb_we, p_stb_we
  <1>4. /\ s_arready' = (axi_arvalid /\ ~s_arready)
        /\ wb_ack' = (s_stb_r /\ ~wb_ack) /\ wb_dat' = mem[s_addr]
        /\ wb_ack = FALSE => s_rdata' = s_rdata /\ s_rvalid' = (s_rvalid /\ ~axi_rready)
        /\ wb_ack = TRUE /\ s_we_r = FALSE => s_rdata' = wb_dat /\ s_rvalid' = TRUE
    BY DEF Values, Next, BridgeClk, p_mux_read, WishboneClk
  <1>5. answer' = IF "r" \in open /\ s_rvalid /\ ~s_we_r /\ axi_rready THEN s_rdata ELSE answer
    BY DEF Next, Observe, Answered, axi_rvalid
  <1> QED BY <1>1, <1>2, <1>3, <1>4, <1>5

\* The request of a read does not change.
LEMMA SameRead ==
    ASSUME Next, open # {}, req \in Registers!Reads
    PROVE  req' = req
  <1> QED BY SameRequest DEF Changed, Registers!Reads

LEMMA FromReadAsked ==
    ASSUME Values, ReadAsked, Next
    PROVE  ReadTaken' /\ UNCHANGED Registers!vars /\ Kept
  <1> USE DEF ReadAsked, ForRead, ReadLines, Bus
  <1>1. Taken = {}
    BY DEF Taken, Answered, axi_rvalid
  <1>2. open' = {"ar", "r"} /\ grant' = "read" /\ axi_araddr' = axi_araddr
    BY <1>1, Splitter
  <1>3. req' = req /\ UNCHANGED <<mem, effects, got>>
    BY SameRead, NoEffect
  <1>4. /\ WriteLines(FALSE, FALSE)' /\ axi_wvalid' = FALSE /\ answer' = answer
        /\ s_we_r' = FALSE /\ s_addr' = axi_araddr /\ Bus(TRUE, FALSE)'
        /\ s_arready' = TRUE /\ s_rvalid' = FALSE
    BY <1>2, ReadClk DEF Values
  <1>5. axi_arvalid' = TRUE
    BY <1>2, AddressClk
  <1>6. ReadTaken'
    BY <1>2, <1>3, <1>4, <1>5 DEF ReadTaken
  <1>7. UNCHANGED Registers!vars
    BY <1>2, <1>3, <1>4 DEF Registers!vars
  <1> QED BY <1>6, <1>7 DEF Kept, axi_rvalid

LEMMA FromReadTaken ==
    ASSUME Values, ReadTaken, Next
    PROVE  ReadAcked' /\ UNCHANGED Registers!vars /\ Kept
  <1> USE DEF ReadTaken, ForRead, ReadLines, Bus
  <1>1. Taken = {"ar"}
    BY DEF Taken, Answered, axi_rvalid
  <1>2. open' = {"r"} /\ grant' = "read" /\ axi_araddr' = axi_araddr
    BY <1>1, Splitter
  <1>3. req' = req /\ UNCHANGED <<mem, effects, got>>
    BY SameRead, NoEffect
  <1>4. /\ WriteLines(FALSE, FALSE)' /\ axi_wvalid' = FALSE /\ answer' = answer
        /\ s_we_r' = FALSE /\ s_addr' = axi_araddr /\ Bus(TRUE, TRUE)'
        /\ s_arready' = FALSE /\ s_rvalid' = FALSE /\ wb_dat' = mem[req.adr]
    BY <1>2, ReadClk DEF Values
  <1>5. axi_arvalid' = FALSE
    BY <1>2, AddressClk
  <1>6. ReadAcked'
    BY <1>2, <1>3, <1>4, <1>5 DEF ReadAcked
  <1>7. UNCHANGED Registers!vars
    BY <1>2, <1>3, <1>4 DEF Registers!vars
  <1> QED BY <1>6, <1>7 DEF Kept, axi_rvalid

LEMMA FromReadAcked ==
    ASSUME Values, ReadAcked, Next
    PROVE  ReadDone' /\ Registers!PerformRead /\ UNCHANGED <<open # {}, answer>> /\ Kept
  <1> USE DEF ReadAcked, ForRead, ReadLines, Bus
  <1>1. Taken = {}
    BY DEF Taken, Answered, axi_rvalid
  <1>2. open' = {"r"} /\ grant' = "read" /\ axi_araddr' = axi_araddr
    BY <1>1, Splitter
  <1>3. req' = req /\ effects' = 1
    BY SameRead, SameRequest
  <1>4. got' = mem[req.adr] /\ mem' = mem
    BY DEF Next, Observe, WishboneClk
  <1>5. /\ WriteLines(FALSE, FALSE)' /\ axi_wvalid' = FALSE /\ answer' = answer
        /\ s_we_r' = FALSE /\ Bus(FALSE, FALSE)'
        /\ s_arready' = FALSE /\ s_rvalid' = TRUE /\ s_rdata' = wb_dat
    BY <1>2, ReadClk DEF Values
  <1>6. axi_arvalid' = FALSE
    BY <1>2, AddressClk
  <1>7. ReadDone'
    BY <1>2, <1>3, <1>4, <1>5, <1>6 DEF ReadDone
  <1>8. Registers!PerformRead
    BY <1>3, <1>4 DEF Registers!PerformRead, Registers!Reads
  <1> QED BY <1>2, <1>5, <1>7, <1>8 DEF Kept, axi_rvalid

LEMMA FromReadDone ==
    ASSUME Values, ReadDone, Next
    PROVE  /\ (ReadDone \/ Rest)' /\ Kept /\ grant' \in {"none", "read"}
           /\ Registers!Act /\ (Registers!Respond \/ UNCHANGED <<open # {}, answer>>)
  <1> USE DEF ReadDone, ForRead, ReadLines, Bus
  <1>1. Taken = IF axi_rready THEN {"r"} ELSE {}
    BY DEF Taken, Answered, axi_rvalid
  <1>2. /\ open' = IF axi_rready THEN {} ELSE {"r"}
        /\ grant' = IF axi_rready THEN "none" ELSE "read"
        /\ axi_araddr' = axi_araddr
    BY <1>1, Splitter
  <1>3. req' = req /\ UNCHANGED <<mem, effects, got>>
    BY SameRead, NoEffect
  <1>4. Registers!Act
    BY <1>3 DEF Registers!Act
  <1>5. /\ WriteLines(FALSE, FALSE)' /\ axi_wvalid' = FALSE
        /\ answer' = IF axi_rready THEN got ELSE answer
        /\ s_we_r' = FALSE /\ Bus(FALSE, FALSE)'
        /\ s_arready' = FALSE /\ s_rvalid' = ~axi_rready /\ s_rdata' = s_rdata
    BY <1>2, ReadClk DEF Values
  <1>6. axi_arvalid' = FALSE
    BY <1>2, AddressClk
  <1>7. CASE axi_rready = TRUE
    <2>1. Rest'
      BY <1>2, <1>3, <1>5, <1>6, <1>7 DEF Rest, Requests, Registers!Reads
    <2>2. Registers!Respond
      BY <1>2, <1>3, <1>5, <1>7 DEF Registers!Respond, Registers!Reads
    <2> QED BY <1>2, <1>4, <1>7, <2>1, <2>2 DEF Kept, axi_rvalid
  <1>8. CASE axi_rready = FALSE
    <2>1. ReadDone'
      BY <1>2, <1>3, <1>5, <1>6, <1>8
    <2>2. UNCHANGED <<open # {}, answer>>
      BY <1>2, <1>5, <1>8
    <2>3. Kept
      BY <1>5, <1>8 DEF Kept, axi_rvalid
    <2> QED BY <1>2, <1>4, <1>8, <2>1, <2>2, <2>3
  <1> QED BY <1>7, <1>8 DEF Values

-----------------------------------------------------------------------------
LEMMA BridgeStep ==
    ASSUME BridgeInv, Next
    PROVE  BridgeInv' /\ [Registers!Next]_Registers!vars /\ Kept
  <1> USE DEF Registers!Next
  <1>1. Values /\ Values' /\ grant \in {"none", "read", "write"}
    BY ValuesKept DEF BridgeInv
  <1>2. CASE Rest
    BY <1>1, <1>2, FromRest DEF BridgeInv, Writing, Reading
  <1>3. CASE WriteAsked
    <2>1. grant' = "write"
      BY <1>1, <1>3, FromWriteAsked DEF WriteWaits, WriteTaken, WriteStrobes
    <2> QED BY <1>1, <1>3, <2>1, FromWriteAsked DEF BridgeInv, Writing
  <1>4. CASE WriteWaits
    <2>1. grant' = "write"
      BY <1>1, <1>4, FromWriteWaits DEF WriteWaits, WriteTaken, WriteStrobes
    <2> QED BY <1>1, <1>4, <2>1, FromWriteWaits DEF BridgeInv, Writing
  <1>5. CASE WriteTaken
    <2>1. grant' \in {"none", "write"}
      <3>1. open # {} /\ grant = "write"
        BY <1>5 DEF WriteTaken, WriteStrobes
      <3> QED BY <3>1, Splitter
    <2> QED BY <1>1, <1>5, <2>1, FromWriteTaken DEF BridgeInv, Writing
  <1>6. CASE WriteTail
    BY <1>1, <1>6, FromWriteTail DEF BridgeInv, Writing, Reading
  <1>7. CASE ReadAsked
    <2>1. grant' = "read"
      BY <1>1, <1>7, FromReadAsked DEF ReadTaken, ForRead
    <2> QED BY <1>1, <1>7, <2>1, FromReadAsked DEF BridgeInv, Reading
  <1>8. CASE ReadTaken
    <2>1. grant' = "read"
      BY <1>1, <1>8, FromReadTaken DEF ReadAcked, ForRead
    <2> QED BY <1>1, <1>8, <2>1, FromReadTaken DEF BridgeInv, Reading
  <1>9. CASE ReadAcked
    <2>1. grant' = "read"
      BY <1>1, <1>9, FromReadAcked DEF ReadDone, ForRead
    <2> QED BY <1>1, <1>9, <2>1, FromReadAcked DEF BridgeInv, Reading, Registers!Act
  <1>10. CASE ReadDone
    BY <1>1, <1>10, FromReadDone DEF BridgeInv, Reading
  <1> QED BY <1>2, <1>3, <1>4, <1>5, <1>6, <1>7, <1>8, <1>9, <1>10 DEF BridgeInv, Writing, Reading

LEMMA BridgeStutter ==
    ASSUME BridgeInv, UNCHANGED vars
    PROVE  BridgeInv' /\ UNCHANGED Registers!vars
  <1>1. UNCHANGED Registers!vars
    BY DEF vars, sysVars, Registers!vars
  <1>2. BridgeInv'
    BY DEF vars, axiVars, bridgeVars, sysVars, BridgeInv, Values, Rest, Writing, Reading,
       ForWrite, ForRead, Holds, WriteLines, ReadLines, Bus, WriteAsked, WriteStrobes, WriteWaits,
       WriteTaken, WriteTail, ReadAsked, ReadTaken, ReadAcked, ReadDone
  <1> QED BY <1>1, <1>2

\* The life of a transaction, for every clock: the bus is at rest when one is
\* opened, a write that is not loose holds its data up to its only effect, and
\* the strobe and the address on the Wishbone side belong to the last request.
THEOREM TransactionsInOrder == Spec => []BridgeInv
  <1>1. BridgeInv /\ [Next]_vars => BridgeInv'
    BY BridgeStep, BridgeStutter
  <1> QED BY <1>1, BridgeStart, PTL DEF Spec

\* The bridge implements RegisterAccess: a read takes effect once, between its
\* start and its answer, and answers with the value of that moment; a write
\* whose data hold takes effect once; and no access touches a register that is
\* not its own.
THEOREM BridgeImplements == Spec => AccessesKeepToThemselves
  <1>1. BridgeInv /\ [Next]_vars => [Registers!Next]_Registers!vars
    BY BridgeStep, BridgeStutter
  <1>2. Init => Registers!Init
    BY BridgeStart
  <1> QED BY <1>1, <1>2, TransactionsInOrder, PTL DEF Spec, AccessesKeepToThemselves, Registers!Spec

\* No response that the interconnect waits for is withdrawn, and no answer
\* changes before it is taken.
THEOREM ResponsesKept == Spec => ResponsesStay
  <1>1. BridgeInv /\ [Next]_vars =>
            [/\ "b" \in open /\ axi_bvalid /\ ~axi_bready => axi_bvalid'
             /\ "r" \in open /\ axi_rvalid /\ ~axi_rready => axi_rvalid' /\ s_rdata' = s_rdata]_vars
    BY BridgeStep DEF Kept
  <1> QED BY <1>1, TransactionsInOrder, PTL DEF Spec, ResponsesStay
=============================================================================
