------------------------- MODULE FasecHwtest_proofs -------------------------
(***************************************************************************)
(* For every tick length that is a multiple of 8, as the 40000000 of the   *)
(* real build is, the lamps light one by one; for every bank of registers  *)
(* a read of the FMC pins is fresh; and for every bank of up to 256 words  *)
(* the AXI4-Lite slave is the bank that RegisterBank promises.             *)
(***************************************************************************)
EXTENDS FasecHwtest, TLAPS

\* One bit of v_shift is '1': while the tick is high it is v_cntr places past
\* the one that was '1' when the tick rose.
OneBit ==
    /\ v_cntr \in 0 .. c_FLASH /\ s_tick \in BOOLEAN
    /\ \E a \in 0 .. 7 : \E b \in 0 .. 7 :
          shown = {a} /\ v_shift = {b} /\ (s_tick => b = (a + v_cntr) % 8)

-----------------------------------------------------------------------------
LEMMA TurnedOnce ==
    ASSUME NEW b \in 0 .. 7
    PROVE  Rotated({b}) = {(b + 1) % 8}
  BY DEF Rotated

LEMMA OneFurther ==
    ASSUME NEW a \in Nat, NEW n \in Nat
    PROVE  (((a + n) % 8) + 1) % 8 = (a + (n + 1)) % 8
  OBVIOUS

\* One bit lights one lamp, green or red.
LEMMA OneLamp ==
    ASSUME p_leds, NEW b \in 0 .. 7, v_shift' = {b}, v_pbreg'[3] = 1
    PROVE  Lamps' = {b}
  <1>1. CASE b < 4
    <2>1. Nibble({b}, 0) = {b}
      BY <1>1 DEF Nibble
    <2>2. led_line_en_pl_o' = 0 /\ led_col_pl_o' = {b}
      BY <2>1 DEF p_leds
    <2> QED BY <2>2 DEF Lamps
  <1>2. CASE ~ (b < 4)
    <2>1. Nibble({b}, 0) = {} /\ Nibble({b}, 4) = {b - 4} /\ b - 4 \in 0 .. 3
      BY <1>2 DEF Nibble
    <2>2. led_line_en_pl_o' = 1 /\ led_col_pl_o' = (0 .. 3) \ {b - 4}
      BY <2>1 DEF p_leds
    <2>3. (0 .. 3) \ led_col_pl_o' = {b - 4}
      BY <2>1, <2>2
    <2>4. Lamps' = {4 + c : c \in {b - 4}}
      BY <2>2, <2>3 DEF Lamps
    <2> QED BY <2>1, <2>4
  <1> QED BY <1>1, <1>2

LEMMA OneBitInit == Init => OneBit
  <1> SUFFICES ASSUME Init PROVE OneBit
    OBVIOUS
  <1>1. v_cntr = 0 /\ s_tick \in BOOLEAN /\ shown = {0} /\ v_shift = {0}
    BY DEF Init, LedInit, LedRest
  <1> QED BY <1>1, FlashAssumption DEF OneBit

\* In a clock the bit turns as p_leds does; when the tick ends, after
\* c_FLASH + 1 turns, it is one further than when the tick rose.
LEMMA OneBitStep ==
    ASSUME OneBit, LedClk
    PROVE  /\ OneBit'
           /\ s_tick /\ ~s_tick' => \E a \in 0 .. 7 : shown = {a} /\ v_shift' = {(a + 1) % 8}
  <1>1. PICK a \in 0 .. 7, b \in 0 .. 7 :
            shown = {a} /\ v_shift = {b} /\ (s_tick => b = (a + v_cntr) % 8)
    BY DEF OneBit
  <1>0. /\ v_shift' = IF s_tick THEN Rotated(v_shift) ELSE v_shift
        /\ shown' = IF ~s_tick /\ s_tick' THEN v_shift' ELSE shown
        /\ p_tick
    BY DEF LedClk, p_leds
  <1>2. v_cntr \in 0 .. c_FLASH /\ c_FLASH \in Nat /\ c_FLASH % 8 = 0 /\ s_tick \in BOOLEAN
    BY FlashAssumption DEF OneBit
  <1>3. CASE ~ s_tick
    <2>1. v_shift' = {b} /\ v_cntr' \in 0 .. c_FLASH /\ s_tick' \in BOOLEAN
      <3>1. v_shift' = {b} /\ s_tick' \in BOOLEAN
        BY <1>0, <1>1, <1>2, <1>3, Zenon DEF p_tick
      <3>2. v_cntr' \in 0 .. c_FLASH
        BY <1>0, <1>2 DEF p_tick
      <3> QED BY <3>1, <3>2
    <2>2. CASE s_tick'
      <3>1. v_cntr' = 0 /\ shown' = {b}
        BY <1>0, <1>2, <1>3, <2>1, <2>2 DEF p_tick
      <3> QED BY <1>3, <2>1, <3>1 DEF OneBit
    <2>3. CASE ~ s_tick'
      <3>1. shown' = {a}
        BY <1>0, <1>1, <2>3
      <3> QED BY <1>3, <2>1, <2>3, <3>1 DEF OneBit
    <2> QED BY <2>2, <2>3
  <1>4. CASE s_tick
    <2> DEFINE c == (b + 1) % 8
    <2>1. v_shift' = {c} /\ shown' = {a} /\ c \in 0 .. 7
      <3>1. v_shift' = Rotated({b}) /\ shown' = {a}
        BY <1>0, <1>1, <1>4, Zenon
      <3>2. c \in 0 .. 7
        BY <1>1
      <3> QED BY <3>1, <3>2, TurnedOnce
    <2>2. CASE v_cntr < c_FLASH
      <3>1. v_cntr' = v_cntr + 1 /\ s_tick'
        BY <1>0, <1>4, <2>2 DEF p_tick
      <3>2. c = (a + v_cntr') % 8
        BY <1>1, <1>2, <1>4, <3>1, OneFurther
      <3> QED BY <1>2, <2>1, <2>2, <3>1, <3>2 DEF OneBit
    <2>3. CASE ~ (v_cntr < c_FLASH)
      <3>1. v_cntr = c_FLASH
        BY <1>2, <2>3
      <3>2. v_cntr' = 0 /\ ~ s_tick' /\ s_tick' \in BOOLEAN
        BY <1>0, <1>4, <2>3, Zenon DEF p_tick
      <3>3. c = (a + 1) % 8
        BY <1>1, <1>2, <1>4, <3>1
      <3>4. OneBit'
        BY <1>2, <2>1, <3>2 DEF OneBit
      <3>5. shown = {a} /\ v_shift' = {(a + 1) % 8}
        BY <1>1, <2>1, <3>3
      <3> QED BY <3>4, <3>5
    <2> QED BY <2>2, <2>3
  <1> QED BY <1>2, <1>3, <1>4

\* The lamp lit while the tick is low is the one after the lamp lit the last time.
THEOREM LampsOneByOne == Spec => OneByOne
  <1>1. OneBit /\ [Next]_vars => OneBit'
    <2> SUFFICES ASSUME OneBit, [Next]_vars PROVE OneBit'
      OBVIOUS
    <2>1. CASE LedClk
      BY <2>1, OneBitStep
    <2>2. CASE UNCHANGED ledVars
      BY <2>2 DEF ledVars, OneBit
    <2> QED BY <2>1, <2>2 DEF Next, AxiClk, AxiReset, PsClk, vars
  <1>2. OneBit /\ [Next]_vars =>
            [s_tick /\ ~s_tick' /\ v_pbreg'[3] = 1 =>
                \E lamp \in 0 .. 7 : shown = {lamp} /\ Lamps' = {(lamp + 1) % 8}]_ledVars
    <2> SUFFICES ASSUME OneBit, [Next]_vars, s_tick /\ ~s_tick', v_pbreg'[3] = 1,
                        ledVars' # ledVars
                 PROVE  \E lamp \in 0 .. 7 : shown = {lamp} /\ Lamps' = {(lamp + 1) % 8}
      OBVIOUS
    <2>1. LedClk
      BY DEF Next, AxiClk, AxiReset, PsClk, vars
    <2>2. PICK lamp \in 0 .. 7 : shown = {lamp} /\ v_shift' = {(lamp + 1) % 8}
      BY <2>1, OneBitStep
    <2>3. Lamps' = {(lamp + 1) % 8}
      BY <2>1, <2>2, OneLamp DEF LedClk
    <2> QED BY <2>2, <2>3
  <1> QED BY <1>1, <1>2, OneBitInit, PTL DEF Spec, OneByOne

-----------------------------------------------------------------------------
\* Where a read is: its address is kept, and there is no response without it.
ReadInOrder ==
    /\ ar \in {"idle", "valid", "done"} /\ axi_arready \in BOOLEAN /\ axi_rvalid \in BOOLEAN
    /\ axi_arready => ar = "valid"
    /\ axi_rvalid => ar = "done"
    /\ axi_arready \/ axi_rvalid => axi_araddr = ARADDR

\* The registers between a pin and the bus hold what a read in progress may see:
\* the first two at once, the third when the address is taken, the fourth with
\* the response.
PipelineFresh ==
    /\ v_fmc_reg = pins[1] /\ data_o = pins[2]
    /\ reading => v_fmc_reg \in window /\ data_o \in window
    /\ axi_arready => s_dataR[1] \in window
    /\ axi_rvalid /\ loc_addr(axi_araddr) = 1 => axi_rdata \in window

FreshInv == ReadInOrder /\ PipelineFresh

LEMMA FreshInit == Init => FreshInv
  <1> SUFFICES ASSUME Init PROVE FreshInv
    OBVIOUS
  <1>1. ar = "idle" /\ axi_arready = FALSE /\ axi_rvalid = FALSE
    BY DEF Init, MasterInit, SlaveInit
  <1>2. v_fmc_reg = pins[1] /\ data_o = pins[2]
    BY DEF Init
  <1> QED BY <1>1, <1>2 DEF FreshInv, ReadInOrder, PipelineFresh, reading

\* One clock of the pins: the pipeline moves on, and the window of a read that
\* goes on keeps what it had.
LEMMA PinsClk ==
    ASSUME g_FMC = "EDA-02327", FreshInv, NEW FMC_LA_b, general_fmc(FMC_LA_b),
           Observe(FMC_LA_b)
    PROVE  /\ v_fmc_reg' = pins'[1] /\ data_o' = pins'[2]
           /\ reading' => v_fmc_reg' \in window' /\ data_o' \in window'
           /\ reading /\ reading' => window \subseteq window'
  <1>1. v_fmc_reg' = FMC_LA_b /\ data_o' = v_fmc_reg /\ pins' = <<FMC_LA_b, pins[1]>>
    BY DEF general_fmc, Observe
  <1>2. v_fmc_reg' = pins'[1] /\ data_o' = pins'[2] /\ pins[1] = v_fmc_reg
    BY <1>1 DEF FreshInv, PipelineFresh
  <1>3. window' = IF ~reading' THEN {} ELSE IF ~reading THEN {FMC_LA_b, pins[1]}
                  ELSE window \cup {FMC_LA_b}
    BY DEF Observe
  <1>4. reading => v_fmc_reg \in window
    BY DEF FreshInv, PipelineFresh
  <1> QED BY <1>1, <1>2, <1>3, <1>4

LEMMA FreshAxiClk ==
    ASSUME g_FMC = "EDA-02327", FreshInv, NEW bready \in BOOLEAN, NEW rready \in BOOLEAN,
           AxiClk(bready, rready)
    PROVE  FreshInv'
  <1>1. PICK FMC_LA_b : general_fmc(FMC_LA_b) /\ Observe(FMC_LA_b)
    BY DEF AxiClk
  <1>2. StartRead \/ GoOnReading(rready)
    BY DEF AxiClk, MasterClk
  <1>3. /\ p_axi_arready /\ p_axi_rresponse(rready) /\ p_rdata
        /\ p_dataRBuffer(s_sAxi_dataR) /\ cut' = cut
    BY DEF AxiClk, SlaveClk
  <1>4. ReadInOrder
    BY DEF FreshInv
  <1>5. ReadInOrder'
    BY <1>2, <1>3, <1>4 DEF StartRead, GoOnReading, EndRead, Onward, reading, ARVALID,
       p_axi_arready, p_axi_rresponse, slv_reg_rden, ReadInOrder
  <1>6. axi_arready' => reading /\ reading'
    BY <1>3, <1>5 DEF p_axi_arready, ARVALID, reading, ReadInOrder
  <1>7. axi_rvalid' => reading /\ reading'
    BY <1>3, <1>4, <1>5 DEF p_axi_rresponse, slv_reg_rden, ARVALID, reading, ReadInOrder
  <1>8. axi_arready' => s_dataR'[1] \in window'
    <2>1. 1 \in Inputs
      BY FmcAssumption, SlaveAssumption DEF Inputs
    <2>2. s_dataR'[1] = data_o
      BY <1>3, <2>1 DEF p_dataRBuffer, s_sAxi_dataR
    <2> QED BY <1>1, <1>6, <2>2, PinsClk DEF FreshInv, PipelineFresh
  <1>9. axi_rvalid' /\ loc_addr(axi_araddr)' = 1 => axi_rdata' \in window'
    <2> SUFFICES ASSUME axi_rvalid', loc_addr(axi_araddr)' = 1 PROVE axi_rdata' \in window'
      OBVIOUS
    <2>1. axi_araddr' = axi_araddr
      BY <1>3, <1>4 DEF p_axi_arready, p_axi_rresponse, slv_reg_rden, ARVALID, ReadInOrder
    <2>2. loc_addr(axi_araddr) = 1
      BY <1>3, <2>1 DEF loc_addr
    <2>3. window \subseteq window'
      BY <1>1, <1>7, PinsClk
    <2>4. CASE slv_reg_rden
      <3>1. axi_rdata' = s_dataR[1]
        BY <1>3, <2>2, <2>4, FmcAssumption, SlaveAssumption DEF p_rdata, reg_data_out, Inputs
      <3> QED BY <2>3, <2>4, <3>1 DEF slv_reg_rden, FreshInv, PipelineFresh
    <2>5. CASE ~ slv_reg_rden
      <3>1. axi_rdata' = axi_rdata /\ axi_rvalid
        BY <1>3, <2>5 DEF p_rdata, p_axi_rresponse
      <3> QED BY <2>2, <2>3, <3>1 DEF FreshInv, PipelineFresh
    <2> QED BY <2>4, <2>5
  <1> QED BY <1>1, <1>5, <1>8, <1>9, PinsClk DEF FreshInv, PipelineFresh

LEMMA FreshStep ==
    ASSUME g_FMC = "EDA-02327", FreshInv, [Next]_vars
    PROVE  FreshInv'
  <1>1. ASSUME NEW bready \in BOOLEAN, NEW rready \in BOOLEAN, AxiClk(bready, rready)
        PROVE  FreshInv'
    BY <1>1, FreshAxiClk
  <1>2. CASE AxiReset
    <2>1. PICK FMC_LA_b : general_fmc(FMC_LA_b) /\ Observe(FMC_LA_b)
      BY <1>2 DEF AxiReset
    <2>2. ar' = "idle" /\ axi_arready' = FALSE /\ axi_rvalid' = FALSE
      BY <1>2 DEF AxiReset, SlaveReset, EndRead
    <2>3. ~ reading'
      BY <2>2 DEF reading
    <2>4. v_fmc_reg' = pins'[1] /\ data_o' = pins'[2]
      BY <2>1, PinsClk
    <2> QED BY <2>2, <2>3, <2>4 DEF FreshInv, ReadInOrder, PipelineFresh
  <1>3. CASE PsClk \/ UNCHANGED vars
    <2>1. UNCHANGED <<slaveVars, fmcVars, pins, window>>
      BY <1>3 DEF PsClk, vars
    <2> QED BY <2>1 DEF slaveVars, masterVars, readVars, fmcVars, FreshInv, ReadInOrder,
                        PipelineFresh, reading, loc_addr
  <1> QED BY <1>1, <1>2, <1>3 DEF Next

\* A read of the pins of an EDA-02327 returns a value they had at most one clock
\* before the read began, through the four registers between pin and RDATA.
THEOREM PinDataFresh ==
    ASSUME g_FMC = "EDA-02327"
    PROVE  Spec => []PinDataIsFresh
  <1>1. FreshInv => PinDataIsFresh
    BY DEF FreshInv, ReadInOrder, PipelineFresh, PinDataIsFresh
  <1>2. Init => FreshInv
    BY FreshInit
  <1> QED BY <1>1, <1>2, FreshStep, PTL DEF Spec

-----------------------------------------------------------------------------
\* A bank that 8 address bits reach, and a master that may use every address
\* that one of its addresses is cut to.
AddressesFit ==
    /\ c_MAXMEM <= 256
    /\ \A a \in Addr : a % 2^OPT_MEM_ADDR_BITS \in Addr

\* What the master has asked for.
Asked ==
    /\ writing => AWADDR \in Addr /\ WDATA \in Data /\ WSTRB \in BOOLEAN
    /\ reading => ARADDR \in Addr

\* Where a write is: both channels are accepted in one clock, and the response
\* follows in the next.
WriteInOrder ==
    /\ aw \in {"idle", "todo", "valid", "done"} /\ w \in {"idle", "todo", "valid", "done"}
    /\ axi_awready \in BOOLEAN /\ axi_wready = axi_awready /\ axi_bvalid \in BOOLEAN
    /\ aw = "idle" <=> w = "idle"
    /\ axi_awready => aw = "valid" /\ w = "valid" /\ axi_awaddr = AWADDR
    /\ axi_bvalid <=> aw = "done"
    /\ axi_bvalid <=> w = "done"

\* What the registers may hold.
Stored ==
    /\ s_axi_dataW \in [Registers -> Data] /\ s_dataR \in [Inputs -> Data]
    /\ v_fmc_reg \in Data /\ data_o \in Data /\ cut \in BOOLEAN

BankInv == Asked /\ WriteInOrder /\ ReadInOrder /\ Stored

-----------------------------------------------------------------------------
LEMMA SmallModulo ==
    ASSUME NEW m \in Nat \ {0}, NEW a \in Nat
    PROVE  a % m \in 0 .. m - 1 /\ (a < m => a % m = a)
  OBVIOUS

\* An address in the declared range of loc_addr means itself, whatever the
\* build, and one above it another that the master may use.
LEMMA AddressMeans ==
    ASSUME AddressesFit, Stored, NEW a \in Addr
    PROVE  /\ a \in Nat /\ c_MAXMEM \in Nat /\ g_MAXREAD \in Nat \ {0} /\ g_MAXREAD < c_MAXMEM
           /\ loc_addr(a) \in Registers => loc_addr(a) \in Bank!Meant(a)
           /\ loc_addr(a) \notin Registers => a \notin Registers
           /\ a \in Bank!Meant(a)
           /\ Writable(loc_addr(a)) <=> loc_addr(a) \in Registers
           /\ a < c_MAXMEM => loc_addr(a) = a
           /\ a = c_MAXMEM => loc_addr(a) \notin Registers
           /\ loc_addr(a) \in Nat
  <1> DEFINE m == 2^OPT_MEM_ADDR_BITS
  <1>1. /\ g_MAXREAD \in Nat \ {0} /\ g_MAXWRITE \in Nat \ {0}
        /\ c_MAXMEM \in Nat /\ g_MAXREAD < c_MAXMEM /\ c_MAXMEM \in 1 .. 256 /\ a \in Nat
    <2>1. g_MAXREAD \in Nat \ {0} /\ g_MAXWRITE \in Nat \ {0} /\ a \in 0 .. AllOnes
      BY SlaveAssumption
    <2> QED BY <2>1 DEF c_MAXMEM, AddressesFit
  <1>2. m \in Nat \ {0} /\ c_MAXMEM <= m
    <2> DEFINE n == c_MAXMEM
    <2>1. 2^clogb2(n) \in n .. 2 * n
      <3> HIDE DEF n
      <3> QED BY <1>1, EnoughAddressBits DEF n
    <2>2. m = 2^clogb2(n)
      BY DEF OPT_MEM_ADDR_BITS
    <2> HIDE DEF m
    <2>3. m \in n .. 2 * n
      BY <2>1, <2>2, Zenon
    <2> QED BY <1>1, <2>3
  <1>3. loc_addr(a) = IF cut THEN a % m ELSE a
    BY DEF loc_addr
  <1>4. a % m \in Addr
    BY DEF AddressesFit
  <1> HIDE DEF m
  <1>5. a % m \in 0 .. m - 1 /\ (a < m => a % m = a)
    BY <1>1, <1>2, SmallModulo
  <1>6. loc_addr(a) \in Nat /\ loc_addr(a) \in Addr
    BY <1>1, <1>2, <1>3, <1>4, <1>5
  <1>7. a < c_MAXMEM => loc_addr(a) = a
    BY <1>1, <1>2, <1>3, <1>5
  <1>8. a = c_MAXMEM => loc_addr(a) \notin Registers
    <2>1. a < m \/ a = m \/ ~ a <= c_MAXMEM
      BY <1>1, <1>2
    <2>2. m % m = 0
      BY <1>2
    <2> QED BY <1>1, <1>2, <1>3, <1>5, <2>1, <2>2 DEF Registers
  <1>9. Writable(loc_addr(a)) <=> loc_addr(a) \in Registers
    BY <1>1, <1>6 DEF Writable, Registers
  <1>10. a \in Bank!Meant(a)
    BY DEF Bank!Meant
  <1>11. loc_addr(a) \in Registers => loc_addr(a) \in Bank!Meant(a)
    BY <1>1, <1>6, <1>7, <1>8 DEF Bank!Meant
  <1>12. loc_addr(a) \notin Registers => a \notin Registers
    BY <1>1, <1>7 DEF Registers
  <1> QED BY <1>1, <1>6, <1>7, <1>8, <1>9, <1>10, <1>11, <1>12, Zenon

LEMMA BankInit == Init => BankInv
  <1> SUFFICES ASSUME Init PROVE BankInv
    OBVIOUS
  <1>1. aw = "idle" /\ w = "idle" /\ ar = "idle" /\ axi_awready = FALSE /\ axi_wready = FALSE
        /\ axi_bvalid = FALSE /\ axi_arready = FALSE /\ axi_rvalid = FALSE
    BY DEF Init, MasterInit, SlaveInit
  <1>2. Stored
    BY SlaveAssumption DEF Init, SlaveInit, Stored
  <1> QED BY <1>1, <1>2 DEF BankInv, Asked, WriteInOrder, ReadInOrder, writing, reading

\* One clock of the write channels of the master and the slave.
LEMMA WriteClk ==
    ASSUME BankInv, NEW bready \in BOOLEAN, StartWrite \/ GoOnWriting(bready),
           p_axi_awready, p_axi_bvalid(bready)
    PROVE  WriteInOrder' /\ (writing' => AWADDR' \in Addr /\ WDATA' \in Data /\ WSTRB' \in BOOLEAN)
  <1> USE DEF BankInv
  <1>1. CASE StartWrite
    <2>1. aw = "idle" /\ w = "idle" /\ ~ axi_awready /\ ~ axi_bvalid
      BY <1>1 DEF StartWrite, writing, WriteInOrder
    <2>2. aw' \in {"todo", "valid"} /\ w' \in {"todo", "valid"}
      BY <1>1 DEF StartWrite
    <2>3. ~ axi_awready' /\ ~ axi_wready' /\ ~ axi_bvalid'
      BY <2>1 DEF p_axi_awready, p_axi_bvalid, slv_reg_wren, AWVALID, WriteInOrder
    <2>4. axi_awready' \in BOOLEAN /\ axi_bvalid' \in BOOLEAN /\ axi_wready' = axi_awready'
      BY DEF p_axi_awready, p_axi_bvalid, WriteInOrder
    <2>5. AWADDR' \in Addr /\ WDATA' \in Data /\ WSTRB' \in BOOLEAN
      BY <1>1, SlaveAssumption DEF StartWrite
    <2> QED BY <2>2, <2>3, <2>4, <2>5 DEF WriteInOrder
  <1>2. CASE GoOnWriting(bready)
    <2>1. axi_awready' = (~axi_awready /\ AWVALID /\ WVALID) /\ axi_wready' = axi_awready'
          /\ axi_bvalid' = ((slv_reg_wren /\ ~axi_bvalid) \/ (axi_bvalid /\ ~bready))
      BY DEF p_axi_awready, p_axi_bvalid, WriteInOrder
    <2>2. axi_awready' => axi_awaddr' = AWADDR
      BY DEF p_axi_awready
    <2>3. CASE axi_bvalid /\ bready
      <3>1. aw' = "idle" /\ w' = "idle"
        BY <1>2, <2>3 DEF GoOnWriting, EndWrite
      <3>2. ~ axi_awready /\ aw = "done"
        BY <2>3 DEF WriteInOrder
      <3>3. ~ axi_awready' /\ ~ axi_bvalid'
        BY <2>1, <2>3, <3>2 DEF AWVALID
      <3> QED BY <2>1, <3>1, <3>3 DEF WriteInOrder, writing
    <2>4. CASE ~ (axi_bvalid /\ bready)
      <3>1. aw' \in Onward(aw, axi_awready) /\ w' \in Onward(w, axi_wready)
            /\ UNCHANGED <<AWADDR, WDATA, WSTRB>>
        BY <1>2, <2>4 DEF GoOnWriting
      <3>2. writing' => writing
        BY <3>1 DEF Onward, writing, WriteInOrder
      <3>3. CASE axi_bvalid
        <4>1. aw = "done" /\ w = "done" /\ ~ axi_awready
          BY <3>3 DEF WriteInOrder
        <4>2. aw' = "done" /\ w' = "done" /\ axi_bvalid' /\ ~ axi_awready'
          BY <2>1, <2>4, <3>1, <3>3, <4>1 DEF Onward, AWVALID
        <4> QED BY <2>1, <3>1, <3>2, <4>2 DEF WriteInOrder, Asked
      <3>4. CASE axi_awready
        <4>1. aw = "valid" /\ w = "valid" /\ axi_wready /\ ~ axi_bvalid
          BY <3>4 DEF WriteInOrder
        <4>2. aw' = "done" /\ w' = "done" /\ axi_bvalid' /\ ~ axi_awready'
          BY <2>1, <3>1, <3>4, <4>1 DEF Onward, AWVALID, WVALID, slv_reg_wren
        <4> QED BY <2>1, <3>1, <3>2, <4>2 DEF WriteInOrder, Asked
      <3>5. CASE ~ axi_awready /\ ~ axi_bvalid
        <4>1. /\ aw \in {"idle", "todo", "valid"} /\ w \in {"idle", "todo", "valid"}
              /\ aw = "idle" <=> w = "idle"
          BY <3>5 DEF WriteInOrder
        <4>2. /\ aw' \in {"idle", "todo", "valid"} /\ w' \in {"idle", "todo", "valid"}
              /\ aw' = "idle" <=> aw = "idle"
              /\ w' = "idle" <=> w = "idle"
              /\ aw = "valid" => aw' = "valid"
              /\ w = "valid" => w' = "valid"
          BY <3>1, <3>5, <4>1 DEF Onward, WriteInOrder
        <4>3. ~ axi_bvalid'
          BY <2>1, <3>5 DEF slv_reg_wren
        <4>4. axi_awready' => aw' = "valid" /\ w' = "valid" /\ axi_awaddr' = AWADDR'
          BY <2>1, <2>2, <3>1, <4>2 DEF AWVALID, WVALID
        <4> QED BY <2>1, <3>1, <3>2, <4>1, <4>2, <4>3, <4>4 DEF WriteInOrder, Asked
      <3> QED BY <3>3, <3>4, <3>5
    <2> QED BY <2>3, <2>4
  <1> QED BY <1>1, <1>2

\* And of its read channels, where a read begins and ends.
LEMMA ReadClk ==
    ASSUME BankInv, NEW rready \in BOOLEAN, StartRead \/ GoOnReading(rready),
           p_axi_arready, p_axi_rresponse(rready)
    PROVE  ReadInOrder' /\ (reading' => ARADDR' \in Addr)
  <1> USE DEF BankInv
  <1>1. ReadInOrder'
    BY DEF StartRead, GoOnReading, EndRead, Onward, reading, ARVALID, p_axi_arready,
       p_axi_rresponse, slv_reg_rden, ReadInOrder
  <1>2. reading' => ARADDR' \in Addr
    BY DEF StartRead, GoOnReading, EndRead, Onward, reading, Asked, ReadInOrder
  <1> QED BY <1>1, <1>2

LEMMA StoredClk ==
    ASSUME BankInv, p_axi_write, NEW FMC_LA_b \in Data, general_fmc(FMC_LA_b),
           p_dataRBuffer(s_sAxi_dataR), cut' = cut
    PROVE  Stored'
  <1> USE DEF BankInv
  <1>1. 0 \in Data
    BY SlaveAssumption
  <1>2. s_dataR' \in [Inputs -> Data]
    BY <1>1 DEF p_dataRBuffer, s_sAxi_dataR, Stored
  <1>3. v_fmc_reg' \in Data /\ data_o' \in Data
    BY <1>1 DEF general_fmc, Stored
  <1>4. s_axi_dataW' \in [Registers -> Data]
    <2>1. CASE slv_reg_wren
      <3>1. WDATA \in Data
        BY <2>1 DEF slv_reg_wren, AWVALID, writing, Asked
      <3> QED BY <3>1 DEF p_axi_write, Stored
    <2>2. CASE ~ slv_reg_wren
      BY <2>2 DEF p_axi_write, Stored
    <2> QED BY <2>1, <2>2
  <1> QED BY <1>2, <1>3, <1>4 DEF Stored

LEMMA BankStep ==
    ASSUME BankInv, [Next]_vars
    PROVE  BankInv'
  <1>1. ASSUME NEW bready \in BOOLEAN, NEW rready \in BOOLEAN, AxiClk(bready, rready)
        PROVE  BankInv'
    <2>1. PICK FMC_LA_b \in Data : general_fmc(FMC_LA_b)
      BY <1>1 DEF AxiClk
    <2>2. /\ StartWrite \/ GoOnWriting(bready)
          /\ StartRead \/ GoOnReading(rready)
          /\ p_axi_awready /\ p_axi_write /\ p_axi_bvalid(bready)
          /\ p_axi_arready /\ p_axi_rresponse(rready)
          /\ p_dataRBuffer(s_sAxi_dataR) /\ cut' = cut
      BY <1>1 DEF AxiClk, MasterClk, SlaveClk
    <2>3. WriteInOrder' /\ ReadInOrder' /\ Asked'
      BY <2>2, WriteClk, ReadClk DEF Asked
    <2>4. Stored'
      BY <2>1, <2>2, StoredClk
    <2> QED BY <2>3, <2>4 DEF BankInv
  <1>2. CASE AxiReset
    <2>1. PICK FMC_LA_b \in Data : general_fmc(FMC_LA_b)
      BY <1>2 DEF AxiReset
    <2>2. aw' = "idle" /\ w' = "idle" /\ ar' = "idle" /\ axi_awready' = FALSE
          /\ axi_wready' = FALSE /\ axi_bvalid' = FALSE /\ axi_arready' = FALSE
          /\ axi_rvalid' = FALSE
      BY <1>2 DEF AxiReset, SlaveReset, EndWrite, EndRead
    <2>3. Stored'
      <3>1. v_fmc_reg' \in Data /\ data_o' \in Data
        BY <2>1, SlaveAssumption DEF general_fmc, BankInv, Stored
      <3> QED BY <1>2, <3>1, SlaveAssumption DEF AxiReset, SlaveReset, BankInv, Stored
    <2> QED BY <2>2, <2>3 DEF BankInv, Asked, WriteInOrder, ReadInOrder, writing, reading
  <1>3. CASE PsClk \/ UNCHANGED vars
    <2>1. UNCHANGED <<slaveVars, fmcVars>>
      BY <1>3 DEF PsClk, vars
    <2> QED BY <2>1 DEF slaveVars, masterVars, writeVars, readVars, fmcVars, BankInv, Asked,
                        WriteInOrder, ReadInOrder, Stored, writing, reading
  <1> QED BY <1>1, <1>2, <1>3 DEF Next

LEMMA RequestIsNotNone ==
    /\ \A a, d, s : [op |-> "write", adr |-> a, dat |-> d, strb |-> s] # [op |-> "none"]
    /\ \A a : [op |-> "read", adr |-> a] # [op |-> "none"]
    /\ \A r, d : [resp |-> r, dat |-> d] # [op |-> "none"]
  OBVIOUS

\* A clock of the write channels is a step of the write port.
LEMMA WritePort ==
    ASSUME AddressesFit, BankInv, NEW bready \in BOOLEAN, StartWrite \/ GoOnWriting(bready),
           p_axi_awready, p_axi_write, p_axi_bvalid(bready)
    PROVE  Bank!Quiet \/ Bank!Write \/ Bank!TakeEffect \/ Bank!Written
  <1>1. WriteInOrder /\ Stored /\ Asked
    BY DEF BankInv
  <1>2. axi_bvalid' = ((slv_reg_wren /\ ~axi_bvalid) \/ (axi_bvalid /\ ~bready))
    BY DEF p_axi_bvalid
  <1>3. slv_reg_wren => writing /\ ~axi_bvalid /\ axi_awaddr = AWADDR
    BY <1>1 DEF slv_reg_wren, AWVALID, writing, WriteInOrder
  <1>4. axi_bvalid => writing
    BY <1>1 DEF writing, WriteInOrder
  <1>5. CASE slv_reg_wren
    <2> DEFINE a == loc_addr(AWADDR)
    <2>1. AWADDR \in Addr /\ writing' /\ UNCHANGED <<AWADDR, WDATA, WSTRB>>
      BY <1>1, <1>3, <1>5 DEF StartWrite, GoOnWriting, Onward, writing, Asked, slv_reg_wren,
         WriteInOrder
    <2>2. axi_bvalid' /\ axi_bresp' = IF Writable(a) THEN "OKAY" ELSE "SLVERR"
      BY <1>2, <1>3, <1>5 DEF p_axi_bvalid
    <2>3. s_axi_dataW' = IF Writable(a) /\ WSTRB
                         THEN [r \in DOMAIN s_axi_dataW |-> IF r = a THEN WDATA
                                                            ELSE s_axi_dataW[r]]
                         ELSE s_axi_dataW
      BY <1>3, <1>5 DEF p_axi_write
    <2>4. s_axi_dataW \in [Registers -> Data]
      BY <1>1 DEF Stored
    <2>5. /\ a \in Registers => a \in Bank!Meant(AWADDR)
          /\ a \notin Registers => AWADDR \notin Registers
          /\ AWADDR \in Bank!Meant(AWADDR)
          /\ Writable(a) <=> a \in Registers
      BY <1>1, <2>1, AddressMeans
    <2> HIDE DEF a
    <2>6. CASE a \in Registers
      <3>1. s_axi_dataW' = IF WSTRB THEN [s_axi_dataW EXCEPT ![a] = WDATA] ELSE s_axi_dataW
        BY <2>3, <2>4, <2>5, <2>6
      <3>2. axi_bresp' = "OKAY"
        BY <2>2, <2>5, <2>6
      <3> QED BY <1>3, <1>5, <2>1, <2>2, <2>5, <2>6, <3>1, <3>2, RequestIsNotNone
              DEF Bank!TakeEffect, Bank!None, Bank!Okay
    <2>7. CASE a \notin Registers
      <3>1. s_axi_dataW' = s_axi_dataW /\ axi_bresp' = "SLVERR"
        BY <2>2, <2>3, <2>5, <2>7
      <3> QED BY <1>3, <1>5, <2>1, <2>2, <2>5, <2>7, <3>1, RequestIsNotNone
              DEF Bank!TakeEffect, Bank!None, Bank!Error
    <2> QED BY <2>6, <2>7
  <1>6. CASE ~ slv_reg_wren
    <2>1. s_axi_dataW' = s_axi_dataW
      BY <1>6 DEF p_axi_write
    <2>2. CASE axi_bvalid /\ bready
      <3>1. ~ writing' /\ ~ axi_bvalid'
        BY <1>2, <1>4, <1>6, <2>2 DEF StartWrite, GoOnWriting, EndWrite, writing
      <3> QED BY <1>4, <2>1, <2>2, <3>1, RequestIsNotNone DEF Bank!Written, Bank!None
    <2>3. CASE ~ (axi_bvalid /\ bready)
      <3>1. axi_bvalid' = axi_bvalid /\ (axi_bvalid => axi_bresp' = axi_bresp)
        BY <1>1, <1>2, <1>6, <2>3 DEF p_axi_bvalid, WriteInOrder
      <3>2. CASE StartWrite
        <4>1. ~ writing /\ writing' /\ AWADDR' \in Addr /\ WSTRB' \in BOOLEAN /\ WDATA' \in Data
          BY <3>2, SlaveAssumption DEF StartWrite, writing
        <4> QED BY <1>4, <2>1, <3>1, <4>1 DEF Bank!Write, Bank!None, Bank!Writes
      <3>3. CASE GoOnWriting(bready)
        <4>1. writing' = writing /\ UNCHANGED <<AWADDR, WDATA, WSTRB>>
          <5>1. aw \in {"idle", "todo", "valid", "done"} /\ aw' \in Onward(aw, axi_awready)
                /\ UNCHANGED <<AWADDR, WDATA, WSTRB>>
            BY <1>1, <2>3, <3>3 DEF GoOnWriting, WriteInOrder
          <5> QED BY <5>1 DEF Onward, writing
        <4> QED BY <2>1, <3>1, <4>1 DEF Bank!Quiet
      <3> QED BY <3>2, <3>3
    <2> QED BY <2>2, <2>3
  <1> QED BY <1>5, <1>6

\* What a read returns is what the bank may return.
LEMMA FetchedData ==
    ASSUME AddressesFit, BankInv, slv_reg_rden
    PROVE  /\ reg_data_out \in Data
           /\ ARADDR \in Registers => reg_data_out = s_axi_dataW[ARADDR]
           /\ ARADDR < c_MAXMEM => ARADDR \in Inputs \cup Registers
           /\ ARADDR \in Nat /\ c_MAXMEM \in Nat
           /\ c_MAXMEM \notin Inputs \cup Registers
           /\ axi_araddr = ARADDR
  <1>1. axi_araddr = ARADDR /\ ARADDR \in Addr /\ Stored
    BY DEF BankInv, ReadInOrder, Asked, slv_reg_rden, ARVALID, reading
  <1>2. /\ ARADDR \in Nat /\ c_MAXMEM \in Nat /\ g_MAXREAD \in Nat \ {0} /\ g_MAXREAD < c_MAXMEM
        /\ ARADDR < c_MAXMEM => loc_addr(ARADDR) = ARADDR
    BY <1>1, AddressMeans
  <1>3. reg_data_out \in Data
    <2>1. s_axi_dataW \in [Registers -> Data] /\ s_dataR \in [Inputs -> Data] /\ 0 \in Data
      BY <1>1, SlaveAssumption DEF Stored
    <2> QED BY <2>1 DEF reg_data_out
  <1>4. ARADDR < c_MAXMEM => ARADDR \in Inputs \cup Registers
    BY <1>2 DEF Inputs, Registers
  <1>5. c_MAXMEM \notin Inputs \cup Registers
    BY <1>2 DEF Inputs, Registers
  <1>6. ARADDR \in Registers => reg_data_out = s_axi_dataW[ARADDR]
    <2> SUFFICES ASSUME ARADDR \in Registers PROVE reg_data_out = s_axi_dataW[ARADDR]
      OBVIOUS
    <2>1. ARADDR < c_MAXMEM /\ ARADDR \notin Inputs
      BY <1>2 DEF Registers, Inputs
    <2> QED BY <1>1, <1>2, <2>1 DEF reg_data_out
  <1> QED BY <1>1, <1>2, <1>3, <1>4, <1>5, <1>6

\* A clock of the read channels is a step of the read port.
LEMMA ReadPort ==
    ASSUME AddressesFit, BankInv, NEW rready \in BOOLEAN, StartRead \/ GoOnReading(rready),
           p_axi_arready, p_axi_rresponse(rready), p_rdata
    PROVE  Bank!Still \/ Bank!Read \/ Bank!Fetch \/ Bank!Answered
  <1>1. ReadInOrder /\ Stored /\ Asked
    BY DEF BankInv
  <1>2. axi_rvalid' = (slv_reg_rden \/ (axi_rvalid /\ ~rready))
    BY DEF p_axi_rresponse
  <1>3. axi_rvalid => reading
    BY <1>1 DEF reading, ReadInOrder
  <1>4. CASE slv_reg_rden
    <2>1. ~ axi_rvalid /\ reading /\ axi_rvalid'
      BY <1>2, <1>4 DEF slv_reg_rden, ARVALID, reading
    <2>2. reading' /\ ARADDR' = ARADDR
      BY <1>4, <2>1 DEF StartRead, GoOnReading, Onward, reading, slv_reg_rden, ARVALID
    <2>3. /\ axi_rresp' = IF ARADDR < c_MAXMEM THEN "OKAY" ELSE "SLVERR"
          /\ axi_rdata' = reg_data_out
      BY <1>4, FetchedData DEF p_axi_rresponse, p_rdata
    <2> DEFINE d == reg_data_out
    <2>4. /\ d \in Data
          /\ ARADDR \in Registers => d = s_axi_dataW[ARADDR]
          /\ ARADDR < c_MAXMEM => ARADDR \in Inputs \cup Registers
          /\ ARADDR \in Nat /\ c_MAXMEM \in Nat
          /\ c_MAXMEM \notin Inputs \cup Registers
      BY <1>4, FetchedData
    <2>5. axi_rdata' = d
      BY <2>3
    <2> HIDE DEF d
    <2>6. CASE ARADDR < c_MAXMEM
      <3>1. ARADDR \in Bank!Meant(ARADDR) /\ axi_rresp' = "OKAY"
        BY <2>3, <2>4, <2>6 DEF Bank!Meant
      <3> QED BY <2>1, <2>2, <2>4, <2>5, <2>6, <3>1, RequestIsNotNone
              DEF Bank!Fetch, Bank!None, Bank!Okay
    <2>7. CASE ARADDR = c_MAXMEM
      <3>1. ARADDR \in Bank!Meant(ARADDR) /\ axi_rresp' = "SLVERR"
        BY <2>3, <2>4, <2>7 DEF Bank!Meant
      <3> QED BY <2>1, <2>2, <2>4, <2>5, <2>7, <3>1, RequestIsNotNone
              DEF Bank!Fetch, Bank!None, Bank!Error
    <2>8. CASE ARADDR > c_MAXMEM
      <3>1. axi_rresp' = "SLVERR"
        BY <2>3, <2>4, <2>8
      <3> QED BY <2>1, <2>2, <2>4, <2>5, <2>8, <3>1, RequestIsNotNone
              DEF Bank!Fetch, Bank!None, Bank!Error
    <2> QED BY <2>4, <2>6, <2>7, <2>8
  <1>5. CASE ~ slv_reg_rden
    <2>1. CASE axi_rvalid /\ rready
      <3>1. ~ reading' /\ ~ axi_rvalid'
        BY <1>2, <1>3, <1>5, <2>1 DEF StartRead, GoOnReading, EndRead, reading
      <3> QED BY <2>1, <3>1, RequestIsNotNone DEF Bank!Answered, Bank!None
    <2>2. CASE ~ (axi_rvalid /\ rready)
      <3>1. axi_rvalid' = axi_rvalid /\ axi_rresp' = axi_rresp /\ axi_rdata' = axi_rdata
        BY <1>1, <1>2, <1>5, <2>2 DEF p_axi_rresponse, p_rdata, ReadInOrder
      <3>2. CASE StartRead
        <4>1. ~ reading /\ reading' /\ ARADDR' \in Addr
          BY <3>2 DEF StartRead, reading
        <4> QED BY <1>3, <3>1, <4>1 DEF Bank!Read, Bank!None, Bank!Reads
      <3>3. CASE GoOnReading(rready)
        <4>1. reading' = reading /\ ARADDR' = ARADDR
          <5>1. ar \in {"idle", "valid", "done"} /\ ar' \in Onward(ar, axi_arready)
                /\ ARADDR' = ARADDR
            BY <1>1, <2>2, <3>3 DEF GoOnReading, ReadInOrder
          <5> QED BY <5>1 DEF Onward, reading
        <4> QED BY <3>1, <4>1 DEF Bank!Still
      <3> QED BY <3>2, <3>3
    <2> QED BY <2>1, <2>2
  <1> QED BY <1>4, <1>5

LEMMA StartsAsBank == Init => Bank!Init
  <1> SUFFICES ASSUME Init PROVE Bank!Init
    OBVIOUS
  <1>1. ~ writing /\ ~ reading /\ ~ axi_bvalid /\ ~ axi_rvalid
    BY DEF Init, MasterInit, SlaveInit, writing, reading
  <1>2. s_axi_dataW = [r \in Registers |-> 0]
    BY DEF Init, SlaveInit
  <1> QED BY <1>1, <1>2 DEF Bank!Init, Bank!None

LEMMA StepsAsBank ==
    ASSUME AddressesFit, BankInv, [Next]_vars
    PROVE  [Bank!Next]_(Bank!vars)
  <1>1. ASSUME NEW bready \in BOOLEAN, NEW rready \in BOOLEAN, AxiClk(bready, rready)
        PROVE  Bank!Next
    <2>1. /\ StartWrite \/ GoOnWriting(bready)
          /\ StartRead \/ GoOnReading(rready)
          /\ p_axi_awready /\ p_axi_write /\ p_axi_bvalid(bready)
          /\ p_axi_arready /\ p_axi_rresponse(rready) /\ p_rdata
      BY <1>1 DEF AxiClk, MasterClk, SlaveClk
    <2>2. Bank!Quiet \/ Bank!Write \/ Bank!TakeEffect \/ Bank!Written
      BY <2>1, WritePort
    <2>3. Bank!Still \/ Bank!Read \/ Bank!Fetch \/ Bank!Answered
      BY <2>1, ReadPort
    <2> QED BY <2>2, <2>3 DEF Bank!Next
  <1>2. CASE AxiReset
    <2>1. ~ writing' /\ ~ reading' /\ ~ axi_bvalid' /\ ~ axi_rvalid'
      BY <1>2 DEF AxiReset, SlaveReset, EndWrite, EndRead, writing, reading
    <2>2. s_axi_dataW' = [r \in Registers |-> 0]
      BY <1>2 DEF AxiReset, SlaveReset
    <2>3. Bank!Reset
      BY <2>1, <2>2 DEF Bank!Reset, Bank!None
    <2> QED BY <2>3 DEF Bank!Next
  <1>3. CASE PsClk \/ UNCHANGED vars
    <2>1. UNCHANGED slaveVars
      BY <1>3 DEF PsClk, vars
    <2>2. UNCHANGED Bank!vars
      BY <2>1 DEF slaveVars, masterVars, writeVars, readVars, Bank!vars, writing, reading
    <2> QED BY <2>2
  <1> QED BY <1>1, <1>2, <1>3 DEF Next

\* The bank's invariant holds whatever the build, the addresses and the order
\* of the two channels of a write.
THEOREM BankInvariance == Spec => []BankInv
  BY BankInit, BankStep, PTL DEF Spec

\* The slave implements the abstract bank, for up to 256 words, any addresses and
\* values, and whichever way the decoder is built: KeepsBank.
THEOREM BankKept == AddressesFit => (Spec => KeepsBank)
  <1> SUFFICES ASSUME AddressesFit PROVE Spec => KeepsBank
    OBVIOUS
  <1>1. BankInv /\ [Next]_vars => [Bank!Next]_(Bank!vars)
    BY StepsAsBank
  <1> QED BY <1>1, BankInvariance, StartsAsBank, PTL DEF Spec, KeepsBank, Bank!Spec
=============================================================================
