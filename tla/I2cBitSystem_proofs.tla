------------------------- MODULE I2cBitSystem_proofs -------------------------
(***************************************************************************)
(* Proofs about the bit controller and its bus.  That SDA moves under a    *)
(* high SCL only for START and STOP is a matter of the state machine alone *)
(* (Lines).  All else depends on time: the controller sees the bus through *)
(* filters, and is right about it because a phase of the divider is longer *)
(* than their delay.  BitInv says of every phase how long a line has had   *)
(* its level (Elapsed), and so what has come through its filter (Aged).    *)
(***************************************************************************)
EXTENDS I2cBitSystem, TLAPS

\* One master on the bus, the core long out of reset, and a divider whose phases
\* outlast the filters: 2 * Period + 4 <= clk_cnt.
Serves == Others = "slaves" /\ ~FromReset /\ clk_cnt >= 10

\* The same with a device that fights for SDA, from reset or not.
Fights == Others = "contender" /\ clk_cnt >= 10

\* The quarter phases.
Firsts == {"start_a", "stop_a", "rd_a", "wr_a"}
Lows   == {"stop_b", "rd_b", "wr_b"}
Rises  == {"start_c", "stop_c", "rd_c", "wr_c"}
Highs  == {"start_d", "start_e", "stop_d", "rd_d", "wr_d"}
States == {"idle", "start_b"} \cup Firsts \cup Lows \cup Rises \cup Highs

\* The clocks between two samples of the filter.
Period == clk_cnt \div 4 + 1

\* The clocks since the last enabled one, without those in which a slave stretches.
Elapsed == IF clk_en THEN clk_cnt ELSE clk_cnt - 1 - cnt

\* What has come through the filter of a line that has been v for n clocks.
Aged(c, f, s, d, k, v, n) ==
    /\ n >= 1 => c[1] = v
    /\ n >= 2 => c[2] = v
    /\ n + k >= Period + 2 => f[1] = v
    /\ n + k >= 2 * Period + 2 => f[2] = v
    /\ n >= 2 * Period + 3 => s = v
    /\ n >= 2 * Period + 4 => d = v

Settled(c, f, s, d, v) == c[1] = v /\ c[2] = v /\ f[1] = v /\ f[2] = v /\ s = v /\ d = v

SclAged(v, n) == Aged(cSCL, fSCL, sSCL, dSCL, filter_cnt, v, n)
SdaAged(v, n) == Aged(cSDA, fSDA, sSDA, dSDA, filter_cnt, v, n)
SclSettled(v) == Settled(cSCL, fSCL, sSCL, dSCL, v)
SdaSettled(v) == Settled(cSDA, fSDA, sSDA, dSDA, v)

\* The types of what the other parts mention.
Types ==
    /\ ena \in BOOLEAN
    /\ bus_scl \in BOOLEAN /\ bus_sda \in BOOLEAN
    /\ cmd_ack \in BOOLEAN
    /\ cnt \in 0 .. clk_cnt /\ clk_en \in BOOLEAN
    /\ dscl_oen \in BOOLEAN /\ slave_wait \in BOOLEAN
    /\ cSCL[1] \in BOOLEAN /\ cSCL[2] \in BOOLEAN /\ cSDA[1] \in BOOLEAN /\ cSDA[2] \in BOOLEAN
    /\ fSCL[1] \in BOOLEAN /\ fSCL[2] \in BOOLEAN /\ fSCL[3] \in BOOLEAN
    /\ fSDA[1] \in BOOLEAN /\ fSDA[2] \in BOOLEAN /\ fSDA[3] \in BOOLEAN
    /\ filter_cnt \in 0 .. Period - 1
    /\ sSCL \in BOOLEAN /\ sSDA \in BOOLEAN /\ dSCL \in BOOLEAN /\ dSDA \in BOOLEAN
    /\ sto_condition \in BOOLEAN /\ cmd_stop \in BOOLEAN /\ dout \in BOOLEAN
    /\ pulse \in BOOLEAN /\ level \in BOOLEAN

\* The divider: an acknowledge is followed by a whole phase.
Divided ==
    /\ clk_en <=> cnt = clk_cnt
    /\ cmd_ack => cnt = clk_cnt - 1 /\ c_state = "idle" /\ cmd # "NOP"
    /\ ~ena => cmd = "NOP" /\ c_state = "idle" /\ ~cmd_ack /\ ~cmd_stop
    /\ slave_wait => c_state \in Rises

\* Which state drives the lines how: SDA is never low while a released SCL waits
\* for a command, nor when arbitration is lost.
Lines ==
    /\ c_state \in States /\ cmd \in Cmds
    /\ iscl_oen \in BOOLEAN /\ isda_oen \in BOOLEAN /\ din \in BOOLEAN /\ ial \in BOOLEAN
    /\ sda_chk <=> c_state = "wr_d"
    /\ c_state \in Rises \cup Highs => iscl_oen
    /\ c_state \in Lows => ~iscl_oen
    /\ c_state \in {"start_b", "start_c", "rd_b", "rd_c", "rd_d"} => isda_oen
    /\ c_state \in {"start_d", "start_e", "stop_b", "stop_c", "stop_d"} => ~isda_oen
    /\ c_state \in {"wr_c", "wr_d"} => isda_oen = din
    /\ c_state \in Firsts \cup {"idle"} /\ iscl_oen => isda_oen
    /\ ial /\ iscl_oen => isda_oen

\* Which command runs: the one that is asked for, and that stays.
Commanded ==
    /\ ~ial
    /\ c_state # "idle" => cmd = Command
    /\ c_state = "idle" /\ cmd_stop => iscl_oen

\* SCL is high, and everything shows it.
High == bus_scl /\ dscl_oen /\ SclSettled(TRUE)

\* SCL is low, and has been high before.
Falling ==
    /\ sSCL => dSCL
    /\ Majority(fSCL) => sSCL
    /\ cSCL[1] => cSCL[2]
    /\ cSCL[2] => fSCL[1]
    /\ fSCL[1] => fSCL[2]
    /\ fSCL[2] /\ ~fSCL[1] => fSCL[3]
    /\ cSCL[1] => cSDA[1] = level
    /\ cSCL[2] => cSDA[2] = level
    /\ fSCL[1] => fSDA[1] = level
    /\ fSCL[2] => fSDA[2] = level
    /\ fSCL[3] /\ ~fSCL[1] => fSDA[3] = level
    /\ sSCL => sSDA = level /\ dSDA = level

\* SCL is released, and a slave may hold it down: the divider waits until it is seen to rise.
Rising ==
    /\ cSCL[1] => bus_scl
    /\ cSCL[2] => cSCL[1]
    /\ fSCL[1] => cSCL[2]
    /\ fSCL[2] => fSCL[1]
    /\ fSCL[1] /\ fSCL[3] => fSCL[2]
    /\ sSCL => fSCL[1] /\ fSCL[2]
    /\ dSCL => sSCL /\ dscl_oen /\ ~slave_wait
    /\ ~dSCL => \/ cnt = clk_cnt - 1 /\ ~dscl_oen /\ ~slave_wait /\ ~sSCL
                \/ cnt = clk_cnt - 2 /\ dscl_oen /\ slave_wait

\* What is known of SCL in each phase.
Scl ==
    /\ ~iscl_oen => Falling
    /\ c_state \in Lows \cup {"start_b"} /\ ~iscl_oen => SclAged(FALSE, Elapsed)
    /\ c_state \in Rises => Rising
    /\ c_state \notin Rises /\ iscl_oen => High

\* While SCL is high and no command drives the lines, SDA is high; after a STOP its
\* rise may still be on the way through the filter.
Free ==
    c_state \in Firsts \cup {"idle"} /\ iscl_oen =>
      /\ bus_sda
      /\ IF c_state = "idle" /\ cmd_stop THEN SdaAged(TRUE, Elapsed) ELSE SdaSettled(TRUE)

\* What is known of SDA in each phase, and for how long it has been so.
Sda ==
    /\ c_state \in {"stop_b", "wr_b"} => Elapsed = 0 \/ bus_sda
    /\ c_state \in {"stop_c", "stop_d", "wr_c", "wr_d"} => bus_sda
    /\ c_state = "wr_c" => SdaAged(din, Elapsed)
    /\ c_state = "wr_d" => SdaSettled(din)
    /\ c_state = "start_e" => SdaAged(FALSE, Elapsed)
    /\ c_state = "rd_d" => SdaAged(bus_sda, Elapsed)

\* A STOP that is seen while no command runs is the controller's own.
OwnStop == c_state = "idle" /\ sto_condition => cmd_stop

\* A command has had its clock pulse once SCL has been high in it.
Pulsed ==
    /\ c_state # "idle" /\ scl_i => pulse
    /\ cmd_ack => pulse

\* The samples of SDA that go with a high SCL are those of the slave's bit.
Reads ==
    /\ c_state = "rd_c" =>
         /\ cSCL[1] => cSDA[1] = bus_sda /\ level = bus_sda
         /\ cSCL[2] => cSDA[2] = bus_sda
         /\ fSCL[1] => fSDA[1] = bus_sda
         /\ fSCL[2] => fSDA[2] = bus_sda
         /\ sSCL => sSDA = bus_sda
         /\ dSCL => dout = bus_sda
    /\ c_state = "rd_d" => dout = bus_sda /\ level = bus_sda
    /\ cmd_ack /\ cmd = "READ" => dout = level

\* The inductive invariant.
BitInv == Lines /\ Types /\ Divided /\ Commanded /\ Scl /\ Free /\ Sda /\ OwnStop /\ Pulsed /\ Reads

-----------------------------------------------------------------------------
(* The filters *)

\* A clock moves a line of captures and samples on.
Passed(line, c, f, s, d, cc, ff, ss, dd, k) ==
    /\ cc[1] = line /\ cc[2] = c[1]
    /\ k = 0 => ff[1] = c[2] /\ ff[2] = f[1] /\ ff[3] = f[2]
    /\ k # 0 => ff[1] = f[1] /\ ff[2] = f[2] /\ ff[3] = f[3]
    /\ ss = Majority(f) /\ dd = s

\* The filter of a line has its level through before a phase ends.
LEMMA Periods ==
    ASSUME Serves \/ Fights
    PROVE  clk_cnt \in Nat /\ clk_cnt >= 10 /\ Period \in Nat \ {0} /\ 2 * Period + 4 <= clk_cnt
  BY PrescaleAssumption DEF Serves, Fights, Period

\* Majority, of two equal samples.
LEMMA TwoOfThree ==
    ASSUME NEW f, f[1] \in BOOLEAN, f[2] \in BOOLEAN, f[3] \in BOOLEAN, f[1] = f[2]
    PROVE  Majority(f) = f[1]
  BY DEF Majority

\* Every clock in which a line keeps its level brings it one clock further through
\* the filter (m is less than n + 1 when the divider has waited).
LEMMA AgedOn ==
    ASSUME NEW v \in BOOLEAN, NEW c, NEW f, NEW s, NEW d, NEW k \in 0 .. Period - 1,
           NEW cc, NEW ff, NEW ss, NEW dd, NEW kk, Period \in Nat \ {0},
           NEW n \in Nat, NEW m \in 0 .. n + 1,
           f[1] \in BOOLEAN, f[2] \in BOOLEAN, f[3] \in BOOLEAN,
           Aged(c, f, s, d, k, v, n), Passed(v, c, f, s, d, cc, ff, ss, dd, k),
           kk = IF k = 0 THEN Period - 1 ELSE k - 1
    PROVE  Aged(cc, ff, ss, dd, kk, v, m)
  <1> DEFINE T == Period
  <1>1. T \in Nat \ {0} /\ k \in 0 .. T - 1 /\ kk = IF k = 0 THEN T - 1 ELSE k - 1
    OBVIOUS
  <1>2. /\ n >= 1 => c[1] = v
        /\ n >= 2 => c[2] = v
        /\ n + k >= T + 2 => f[1] = v
        /\ n + k >= 2 * T + 2 => f[2] = v
        /\ n >= 2 * T + 3 => s = v
    BY DEF Aged
  <1>3. /\ cc[1] = v /\ cc[2] = c[1]
        /\ k = 0 => ff[1] = c[2] /\ ff[2] = f[1]
        /\ k # 0 => ff[1] = f[1] /\ ff[2] = f[2]
        /\ dd = s
    BY DEF Passed
  <1> HIDE DEF T
  <1>4. m >= 1 => cc[1] = v
    BY <1>3
  <1>5. m >= 2 => cc[2] = v
    BY <1>2, <1>3
  <1>6. m + kk >= T + 2 => ff[1] = v
    BY <1>1, <1>2, <1>3
  <1>7. m + kk >= 2 * T + 2 => ff[2] = v
    BY <1>1, <1>2, <1>3
  <1>8. m >= 2 * T + 3 => ss = v
    <2> SUFFICES ASSUME m >= 2 * T + 3 PROVE ss = v
      OBVIOUS
    <2>1. f[1] = v /\ f[2] = v
      BY <1>1, <1>2
    <2> QED BY <2>1, TwoOfThree DEF Passed
  <1>9. m >= 2 * T + 4 => dd = v
    BY <1>1, <1>2, <1>3
  <1> QED BY <1>4, <1>5, <1>6, <1>7, <1>8, <1>9 DEF Aged, T

\* Nothing is claimed of a line that has just changed.
LEMMA AgedNew ==
    ASSUME NEW c, NEW f, NEW s, NEW d, NEW v, NEW k \in 0 .. Period - 1, Period \in Nat \ {0}
    PROVE  Aged(c, f, s, d, k, v, 0)
  BY DEF Aged

\* A phase is long enough for the filter.
LEMMA AgedEnds ==
    ASSUME NEW c, NEW f, NEW s, NEW d, NEW v, NEW k \in 0 .. Period - 1, Period \in Nat \ {0},
           NEW n \in Nat, n >= 2 * Period + 4, Aged(c, f, s, d, k, v, n)
    PROVE  Settled(c, f, s, d, v)
  BY DEF Aged, Settled

\* A line that keeps its level stays settled.
LEMMA SettledOn ==
    ASSUME NEW v \in BOOLEAN, NEW c, NEW f, NEW s, NEW d, NEW k,
           NEW cc, NEW ff, NEW ss, NEW dd,
           f[1] \in BOOLEAN, f[2] \in BOOLEAN, f[3] \in BOOLEAN,
           Settled(c, f, s, d, v), Passed(v, c, f, s, d, cc, ff, ss, dd, k)
    PROVE  Settled(cc, ff, ss, dd, v)
  <1>1. Majority(f) = v
    BY TwoOfThree DEF Settled
  <1> QED BY <1>1 DEF Settled, Passed

\* What a clock does to the filters.
LEMMA Filtered ==
    ASSUME BitCtrlClk
    PROVE  /\ Passed(scl_i, cSCL, fSCL, sSCL, dSCL, cSCL', fSCL', sSCL', dSCL', filter_cnt)
           /\ Passed(sda_i, cSDA, fSDA, sSDA, dSDA, cSDA', fSDA', sSDA', dSDA', filter_cnt)
           /\ ena => filter_cnt' = IF filter_cnt = 0 THEN Period - 1 ELSE filter_cnt - 1
           /\ ~ena => filter_cnt' = 0
  <1>1. clk_cnt \div 4 \in Int /\ Period - 1 = clk_cnt \div 4
    BY PrescaleAssumption DEF Period
  <1>2. capture_scl_sda /\ filter_divider /\ filter_scl_sda /\ scl_sda
    BY DEF BitCtrlClk
  <1>3. Passed(scl_i, cSCL, fSCL, sSCL, dSCL, cSCL', fSCL', sSCL', dSCL', filter_cnt)
    BY <1>2 DEF capture_scl_sda, filter_scl_sda, scl_sda, Passed
  <1>4. Passed(sda_i, cSDA, fSDA, sSDA, dSDA, cSDA', fSDA', sSDA', dSDA', filter_cnt)
    BY <1>2 DEF capture_scl_sda, filter_scl_sda, scl_sda, Passed
  <1> QED BY <1>1, <1>2, <1>3, <1>4 DEF filter_divider

-----------------------------------------------------------------------------
(* The state machine *)

\* The table of the phases, read one by one.
LEMMA Follows ==
    /\ Phases["start_a"] = Phase("start_b", iscl_oen, TRUE, FALSE)
    /\ Phases["start_b"] = Phase("start_c", TRUE, TRUE, FALSE)
    /\ Phases["start_c"] = Phase("start_d", TRUE, FALSE, FALSE)
    /\ Phases["start_d"] = Phase("start_e", TRUE, FALSE, FALSE)
    /\ Phases["start_e"] = Phase("idle", FALSE, FALSE, FALSE)
    /\ Phases["stop_a"] = Phase("stop_b", FALSE, FALSE, FALSE)
    /\ Phases["stop_b"] = Phase("stop_c", TRUE, FALSE, FALSE)
    /\ Phases["stop_c"] = Phase("stop_d", TRUE, FALSE, FALSE)
    /\ Phases["stop_d"] = Phase("idle", TRUE, TRUE, FALSE)
    /\ Phases["rd_a"] = Phase("rd_b", FALSE, TRUE, FALSE)
    /\ Phases["rd_b"] = Phase("rd_c", TRUE, TRUE, FALSE)
    /\ Phases["rd_c"] = Phase("rd_d", TRUE, TRUE, FALSE)
    /\ Phases["rd_d"] = Phase("idle", FALSE, TRUE, FALSE)
    /\ Phases["wr_a"] = Phase("wr_b", FALSE, din, FALSE)
    /\ Phases["wr_b"] = Phase("wr_c", TRUE, din, FALSE)
    /\ Phases["wr_c"] = Phase("wr_d", TRUE, din, TRUE)
    /\ Phases["wr_d"] = Phase("idle", FALSE, din, FALSE)
  BY DEF Phases

\* Which state follows and what it drives.
LeadsTo(from, to, scl, sda) ==
    /\ c_state = from
    /\ c_state' = to /\ iscl_oen' = scl /\ isda_oen' = sda
    /\ cmd_ack' = (to = "idle") /\ sda_chk' = (to = "wr_d")

\* nxt_state_decoder, phase by phase.
LEMMA Steps ==
    ASSUME Advance, c_state \in States
    PROVE  \/ LeadsTo("start_a", "start_b", iscl_oen, TRUE)
           \/ LeadsTo("start_b", "start_c", TRUE, TRUE)
           \/ LeadsTo("start_c", "start_d", TRUE, FALSE)
           \/ LeadsTo("start_d", "start_e", TRUE, FALSE)
           \/ LeadsTo("start_e", "idle", FALSE, FALSE)
           \/ LeadsTo("stop_a", "stop_b", FALSE, FALSE)
           \/ LeadsTo("stop_b", "stop_c", TRUE, FALSE)
           \/ LeadsTo("stop_c", "stop_d", TRUE, FALSE)
           \/ LeadsTo("stop_d", "idle", TRUE, TRUE)
           \/ LeadsTo("rd_a", "rd_b", FALSE, TRUE)
           \/ LeadsTo("rd_b", "rd_c", TRUE, TRUE)
           \/ LeadsTo("rd_c", "rd_d", TRUE, TRUE)
           \/ LeadsTo("rd_d", "idle", FALSE, TRUE)
           \/ LeadsTo("wr_a", "wr_b", FALSE, din)
           \/ LeadsTo("wr_b", "wr_c", TRUE, din)
           \/ LeadsTo("wr_c", "wr_d", TRUE, din)
           \/ LeadsTo("wr_d", "idle", FALSE, din)
  <1> DEFINE p == Phases[c_state]
  <1>1. /\ c_state' = p.next /\ cmd_ack' = (p.next = "idle")
        /\ iscl_oen' = p.scl /\ isda_oen' = p.sda /\ sda_chk' = p.check /\ c_state # "idle"
    BY DEF Advance
  <1>2. ASSUME NEW to, NEW scl, NEW sda, NEW check, p = Phase(to, scl, sda, check),
               check = (to = "wr_d")
        PROVE  LeadsTo(c_state, to, scl, sda)
    BY <1>1, <1>2 DEF LeadsTo, Phase
  <1>3. c_state \in {"start_a", "start_b", "start_c", "start_d", "start_e"} =>
           \/ LeadsTo("start_a", "start_b", iscl_oen, TRUE)
           \/ LeadsTo("start_b", "start_c", TRUE, TRUE)
           \/ LeadsTo("start_c", "start_d", TRUE, FALSE)
           \/ LeadsTo("start_d", "start_e", TRUE, FALSE)
           \/ LeadsTo("start_e", "idle", FALSE, FALSE)
    BY <1>2, Follows
  <1>4. c_state \in {"stop_a", "stop_b", "stop_c", "stop_d"} =>
           \/ LeadsTo("stop_a", "stop_b", FALSE, FALSE)
           \/ LeadsTo("stop_b", "stop_c", TRUE, FALSE)
           \/ LeadsTo("stop_c", "stop_d", TRUE, FALSE)
           \/ LeadsTo("stop_d", "idle", TRUE, TRUE)
    BY <1>2, Follows
  <1>5. c_state \in {"rd_a", "rd_b", "rd_c", "rd_d"} =>
           \/ LeadsTo("rd_a", "rd_b", FALSE, TRUE)
           \/ LeadsTo("rd_b", "rd_c", TRUE, TRUE)
           \/ LeadsTo("rd_c", "rd_d", TRUE, TRUE)
           \/ LeadsTo("rd_d", "idle", FALSE, TRUE)
    BY <1>2, Follows
  <1>6. c_state \in {"wr_a", "wr_b", "wr_c", "wr_d"} =>
           \/ LeadsTo("wr_a", "wr_b", FALSE, din)
           \/ LeadsTo("wr_b", "wr_c", TRUE, din)
           \/ LeadsTo("wr_c", "wr_d", TRUE, din)
           \/ LeadsTo("wr_d", "idle", FALSE, din)
    BY <1>2, Follows
  <1> QED BY <1>1, <1>3, <1>4, <1>5, <1>6 DEF States, Firsts, Lows, Rises, Highs

\* Nothing is driven at first.
LEMMA LinesStart == Init => Lines
  <1> SUFFICES ASSUME Init PROVE Lines
    OBVIOUS
  <1>1. /\ c_state = "idle" /\ iscl_oen = TRUE /\ isda_oen = TRUE /\ sda_chk = FALSE /\ ial = FALSE
        /\ cmd = "NOP" /\ din = FALSE
    BY DEF Init, BitCtrlReset, Quiet
  <1> QED BY <1>1 DEF Lines, States, Firsts, Lows, Rises, Highs, Cmds

\* Every phase of nxt_state_decoder drives the lines as Lines says.
LEMMA LinesKept ==
    ASSUME Lines, Next
    PROVE  Lines'
  <1> USE DEF Firsts, Lows, Rises, Highs
  <1>1. nxt_state_decoder /\ gen_al /\ CommandClk /\ DataClk
    BY DEF Next, BitCtrlClk
  <1>2. cmd' \in Cmds /\ din' \in BOOLEAN /\ ial' \in BOOLEAN
    BY <1>1 DEF CommandClk, DataClk, gen_al, Cmds, Lines
  <1>3. c_state \notin {"idle", "wr_a"} => din' = din
    BY <1>1 DEF DataClk
  <1>4. ial' => (sda_chk /\ isda_oen) \/ c_state = "idle"
    BY <1>1 DEF gen_al
  <1>5. CASE Abandon
    <2>1. c_state' = "idle" /\ iscl_oen' = TRUE /\ isda_oen' = TRUE /\ sda_chk' = FALSE
      BY <1>5 DEF Abandon
    <2> QED BY <1>2, <2>1 DEF Lines, States
  <1>6. CASE Hold
    <2>1. UNCHANGED <<c_state, iscl_oen, isda_oen, sda_chk>>
      BY <1>6 DEF Hold
    <2> QED BY <1>2, <1>3, <1>4, <2>1 DEF Lines
  <1>7. CASE Begin
    <2>1. /\ c_state = "idle" /\ c_state' = Entry[cmd] /\ sda_chk' = FALSE
          /\ UNCHANGED <<iscl_oen, isda_oen>>
      BY <1>7 DEF Begin
    <2>2. c_state' \in Firsts \cup {"idle"}
      BY <2>1 DEF Entry, Lines, Cmds
    <2> QED BY <1>2, <2>1, <2>2 DEF Lines, States
  <1>8. CASE Advance
    <2>1. ial' => sda_chk /\ isda_oen
      BY <1>4, <1>8 DEF Advance
    <2> QED BY <1>2, <1>3, <1>8, <2>1, Steps DEF Lines, States, LeadsTo
  <1> QED BY <1>1, <1>5, <1>6, <1>7, <1>8 DEF nxt_state_decoder

\* In every state the phase says how SCL and SDA are driven, with any devices on
\* the bus and any prescale.
THEOREM LinesInvariance == Spec => []Lines
  <1>1. Lines /\ [Next]_vars => Lines'
    <2> SUFFICES ASSUME Lines, [Next]_vars PROVE Lines'
      OBVIOUS
    <2>1. CASE UNCHANGED vars
      BY <2>1 DEF vars, inputVars, machineVars, statusVars, Lines
    <2> QED BY <2>1, LinesKept
  <1> QED BY <1>1, LinesStart, PTL DEF Spec

\* Unless a device fights for SDA, it moves under a high SCL only where
\* nxt_state_decoder sends a START or a STOP: the slaves never see one in a bit.
THEOREM SDAMovesForStartStop == Others # "contender" => (Spec => OnlyStartStopMoveSDA)
  <1> SUFFICES ASSUME Others # "contender" PROVE Spec => OnlyStartStopMoveSDA
    OBVIOUS
  <1>1. Lines /\ [Next]_vars =>
            [scl_i /\ scl_i' /\ sda_i # sda_i' => c_state \in {"start_c", "stop_d"}]_vars
    <2> SUFFICES ASSUME Lines, Next, scl_i, scl_i', sda_i # sda_i',
                        c_state \notin {"start_c", "stop_d"}
                 PROVE  FALSE
      OBVIOUS
    <2>1. bus_sda' = bus_sda
      BY DEF Next, AnswerClk
    <2>2. iscl_oen /\ iscl_oen' /\ isda_oen' # isda_oen
      BY <2>1 DEF scl_i, sda_i
    <2>3. CASE Abandon
      BY <2>2, <2>3 DEF Abandon, Lines
    <2>4. CASE Hold \/ Begin
      BY <2>2, <2>4 DEF Hold, Begin
    <2>5. CASE Advance
      BY <2>2, <2>5, Steps DEF Lines, Firsts, Lows, LeadsTo
    <2> QED BY <2>3, <2>4, <2>5 DEF Next, BitCtrlClk, nxt_state_decoder
  <1> QED BY <1>1, LinesInvariance, PTL DEF Spec, OnlyStartStopMoveSDA

-----------------------------------------------------------------------------
(* Where it starts *)

\* The idle controller on a free bus satisfies the invariant.
LEMMA BitStarts ==
    ASSUME Serves, Init
    PROVE  BitInv
  <1> USE DEF Firsts, Lows, Rises, Highs
  <1>1. Quiet
    BY DEF Init, Serves
  <1>2. Lines
    BY LinesStart
  <1>3. /\ ena = FALSE /\ cmd = "NOP" /\ bus_scl = TRUE /\ bus_sda = TRUE
        /\ pulse = FALSE /\ level = TRUE
        /\ c_state = "idle" /\ cmd_ack = FALSE /\ iscl_oen = TRUE
        /\ cnt = clk_cnt /\ clk_en = TRUE
        /\ dscl_oen = TRUE /\ slave_wait = FALSE
        /\ cSCL = <<TRUE, TRUE>> /\ cSDA = <<TRUE, TRUE>>
        /\ fSCL = <<TRUE, TRUE, TRUE>> /\ fSDA = <<TRUE, TRUE, TRUE>> /\ filter_cnt = 0
        /\ sSCL = TRUE /\ sSDA = TRUE /\ dSCL = TRUE /\ dSDA = TRUE
        /\ sto_condition = FALSE /\ cmd_stop = FALSE /\ ial = FALSE /\ dout = TRUE
    BY <1>1 DEF Quiet, Init
  <1>4. clk_cnt \in Nat /\ clk_cnt >= 10 /\ Period \in Nat \ {0}
    BY Periods
  <1>5. Types
    <2>1. /\ cSCL[1] = TRUE /\ cSCL[2] = TRUE /\ cSDA[1] = TRUE /\ cSDA[2] = TRUE
          /\ fSCL[1] = TRUE /\ fSCL[2] = TRUE /\ fSCL[3] = TRUE
          /\ fSDA[1] = TRUE /\ fSDA[2] = TRUE /\ fSDA[3] = TRUE
      BY <1>3
    <2>2. cnt \in 0 .. clk_cnt /\ filter_cnt \in 0 .. Period - 1
      BY <1>3, <1>4
    <2> QED BY <1>3, <2>1, <2>2, Zenon DEF Types
  <1>6. Divided /\ Commanded /\ OwnStop /\ Pulsed /\ Reads
    BY <1>3, <1>4 DEF Divided, Commanded, OwnStop, Pulsed, Reads
  <1>7. Scl /\ Free /\ Sda
    BY <1>3 DEF Scl, Free, Sda, High, SclSettled, SdaSettled, Settled
  <1> QED BY <1>2, <1>5, <1>6, <1>7 DEF BitInv

-----------------------------------------------------------------------------
(* The divider *)

\* SCL is never seen to fall while it is released: no slave holds it down late.
LEMMA NoSync ==
    ASSUME BitInv
    PROVE  ~scl_sync
  <1>1. CASE ~iscl_oen
    BY <1>1 DEF scl_sync
  <1>2. CASE c_state \in Rises
    BY <1>2 DEF BitInv, Scl, Rising, scl_sync
  <1>3. CASE c_state \notin Rises /\ iscl_oen
    BY <1>3 DEF BitInv, Scl, High, SclSettled, Settled, scl_sync
  <1> QED BY <1>1, <1>2, <1>3

\* Where the divider is, and where a clock takes it.
LEMMA Ticks ==
    ASSUME Serves, BitInv, BitCtrlClk
    PROVE  /\ Elapsed \in 0 .. clk_cnt
           /\ cnt' \in 0 .. clk_cnt /\ clk_en' \in BOOLEAN
           /\ clk_en' <=> cnt' = clk_cnt
           /\ ~ena => clk_en'
           /\ ena /\ clk_en => cnt' = clk_cnt - 1 /\ ~clk_en' /\ Elapsed' = 0
           /\ ena /\ ~clk_en /\ ~slave_wait => Elapsed' = Elapsed + 1
           /\ ena /\ ~clk_en /\ ~slave_wait /\ cnt # 0 => cnt' = cnt - 1 /\ ~clk_en'
           /\ slave_wait => ena /\ cnt = clk_cnt - 2 /\ cnt' = cnt /\ ~clk_en /\ ~clk_en'
                            /\ Elapsed = 1 /\ Elapsed' = 1
  <1>1. /\ clk_cnt \in Nat /\ clk_cnt >= 10 /\ cnt \in 0 .. clk_cnt
        /\ clk_en \in BOOLEAN /\ slave_wait \in BOOLEAN
        /\ clk_en <=> cnt = clk_cnt
    BY Periods DEF BitInv, Types, Divided
  <1>2. /\ cnt = 0 \/ ~ena => cnt' = clk_cnt /\ clk_en' = TRUE
        /\ cnt # 0 /\ ena => clk_en' = FALSE
        /\ cnt # 0 /\ ena /\ slave_wait => cnt' = cnt
        /\ cnt # 0 /\ ena /\ ~slave_wait => cnt' = cnt - 1
    BY NoSync, Zenon DEF BitCtrlClk, gen_clken
  <1>3. slave_wait => ena /\ cnt = clk_cnt - 2
    BY DEF BitInv, Divided, Scl, Rising, Rises
  <1>4. clk_cnt' = clk_cnt
    OBVIOUS
  <1> DEFINE P == clk_cnt
  <1>5. /\ Elapsed = IF clk_en THEN P ELSE P - 1 - cnt
        /\ Elapsed' = IF clk_en' THEN P ELSE P - 1 - cnt'
    BY <1>4 DEF Elapsed
  <1>6. /\ cnt' \in 0 .. P /\ clk_en' \in BOOLEAN
        /\ clk_en' <=> cnt' = P
        /\ ~ena => clk_en'
    <2>1. CASE cnt = 0 \/ ~ena
      <3>1. cnt' = clk_cnt /\ clk_en' = TRUE
        BY <1>2, <2>1, Zenon
      <3> QED BY <1>1, <3>1
    <2>2. CASE cnt # 0 /\ ena
      <3>1. clk_en' = FALSE /\ cnt' \in 0 .. P /\ cnt' # P
        <4>1. CASE slave_wait
          BY <1>1, <1>2, <1>3, <2>2, <4>1
        <4>2. CASE ~slave_wait
          BY <1>1, <1>2, <2>2, <4>2
        <4> QED BY <4>1, <4>2
      <3> QED BY <2>2, <3>1
    <2> QED BY <2>1, <2>2
  <1>7. ena /\ clk_en => cnt' = P - 1 /\ ~clk_en'
    BY <1>1, <1>2, <1>3
  <1>8. ena /\ ~clk_en /\ ~slave_wait =>
          IF cnt = 0 THEN cnt' = P /\ clk_en' ELSE cnt' = cnt - 1 /\ ~clk_en'
    BY <1>1, <1>2
  <1>9. slave_wait => ena /\ cnt = P - 2 /\ cnt' = cnt /\ ~clk_en /\ ~clk_en'
    BY <1>1, <1>2, <1>3
  <1> HIDE DEF P
  <1>10. P \in Nat /\ P >= 10 /\ cnt \in 0 .. P
    BY <1>1 DEF P
  <1>11. Elapsed \in 0 .. P
    BY <1>1, <1>5, <1>10 DEF P
  <1>12. ena /\ clk_en => Elapsed' = 0
    BY <1>5, <1>7, <1>10
  <1>13. ena /\ ~clk_en /\ ~slave_wait => Elapsed' = Elapsed + 1
    BY <1>5, <1>8, <1>10
  <1>14. slave_wait => Elapsed = 1 /\ Elapsed' = 1
    BY <1>5, <1>9, <1>10
  <1> QED BY <1>6, <1>7, <1>8, <1>9, <1>11, <1>12, <1>13, <1>14 DEF P

-----------------------------------------------------------------------------
(* Types, the divider and the command *)

\* Every register keeps its type; the counters stay within the prescale.
LEMMA TypesKept ==
    ASSUME Serves \/ Fights, Lines, Types, Next
    PROVE  Types'
  <1>1. BitCtrlClk /\ EnableClk /\ StretchClk /\ AnswerClk /\ Observe
    BY DEF Next
  <1>2. scl_i \in BOOLEAN /\ sda_i \in BOOLEAN
    BY DEF Types, Lines, scl_i, sda_i
  <1>3. /\ cSCL'[1] \in BOOLEAN /\ cSCL'[2] \in BOOLEAN
        /\ fSCL'[1] \in BOOLEAN /\ fSCL'[2] \in BOOLEAN /\ fSCL'[3] \in BOOLEAN
        /\ dSCL' \in BOOLEAN
    BY <1>1, <1>2, Filtered DEF Passed, Types
  <1>4. /\ cSDA'[1] \in BOOLEAN /\ cSDA'[2] \in BOOLEAN
        /\ fSDA'[1] \in BOOLEAN /\ fSDA'[2] \in BOOLEAN /\ fSDA'[3] \in BOOLEAN
        /\ dSDA' \in BOOLEAN
    BY <1>1, <1>2, Filtered DEF Passed, Types
  <1>5. sSCL' \in BOOLEAN /\ sSDA' \in BOOLEAN
    BY <1>1, Filtered DEF Passed, Majority
  <1>6. filter_cnt' \in 0 .. Period - 1
    BY <1>1, Periods, Filtered DEF Types
  <1>7. cnt' \in 0 .. clk_cnt /\ clk_en' \in BOOLEAN
    <2>1. cnt \in 0 .. clk_cnt /\ clk_cnt \in Nat
      BY Periods DEF Types
    <2>2. \/ cnt' = clk_cnt /\ clk_en' = TRUE
          \/ cnt # 0 /\ (cnt' = cnt \/ cnt' = cnt - 1) /\ clk_en' = FALSE
      BY <1>1 DEF BitCtrlClk, gen_clken
    <2>3. clk_en' \in BOOLEAN
      BY <2>2, Zenon
    <2>4. cnt' = clk_cnt \/ (cnt # 0 /\ (cnt' = cnt \/ cnt' = cnt - 1))
      BY <2>2, Zenon
    <2> QED BY <2>1, <2>3, <2>4
  <1>8. cmd_ack' \in BOOLEAN
    BY <1>1 DEF BitCtrlClk, nxt_state_decoder, Abandon, Hold, Begin, Advance
  <1>9. dscl_oen' \in BOOLEAN /\ slave_wait' \in BOOLEAN
    BY <1>1 DEF BitCtrlClk, stretching, Lines
  <1>10. sto_condition' \in BOOLEAN /\ cmd_stop' \in BOOLEAN /\ dout' \in BOOLEAN
    BY <1>1 DEF BitCtrlClk, detect_sta_sto, gen_al, gen_dout, Types
  <1>11. ena' \in BOOLEAN /\ bus_scl' \in BOOLEAN /\ bus_sda' \in BOOLEAN
    BY <1>1 DEF EnableClk, StretchClk, AnswerClk, Types
  <1>12. pulse' \in BOOLEAN /\ level' \in BOOLEAN
    BY <1>1, <1>2 DEF Observe, Types
  <1>13. Period' = Period /\ clk_cnt' = clk_cnt
    BY DEF Period
  <1> QED BY <1>3, <1>4, <1>5, <1>6, <1>7, <1>8, <1>9, <1>10, <1>11, <1>12, <1>13, Zenon DEF Types

\* The same, where BitInv is what is known.
LEMMA BitTypes ==
    ASSUME Serves, BitInv, Next
    PROVE  Types'
  BY TypesKept DEF BitInv

\* The command in progress is the one asked for, which stays until its acknowledge.
LEMMA CommandStays ==
    ASSUME Serves, BitInv, Next, cmd # "NOP", ~cmd_ack
    PROVE  cmd' = cmd /\ ena' = ena /\ ena
  <1>1. ~ial /\ ena
    BY DEF BitInv, Commanded, Divided
  <1>2. cmd' = cmd
    BY <1>1 DEF Next, CommandClk
  <1> QED BY <1>1, <1>2 DEF Next, EnableClk

\* Without arbitration lost there are three kinds of clocks.
LEMMA Kinds ==
    ASSUME Serves, BitInv, Next
    PROVE  /\ Hold \/ Begin \/ Advance
           /\ clk_en => ~cmd_ack /\ ~slave_wait
           /\ c_state # "idle" => cmd # "NOP" /\ ~cmd_ack /\ ena
           /\ Begin /\ c_state' # "idle" => cmd # "NOP" /\ ena
  <1>1. Hold \/ Begin \/ Advance
    BY DEF Next, BitCtrlClk, nxt_state_decoder, Abandon, BitInv, Commanded
  <1>2. clk_en => ~cmd_ack /\ ~slave_wait
    BY Periods, Ticks DEF Next, BitInv, Divided
  <1>3. c_state # "idle" => cmd # "NOP"
    BY DEF BitInv, Commanded, Command, Lines, States, Firsts, Lows, Rises, Highs
  <1>4. c_state # "idle" => ~cmd_ack /\ ena
    BY DEF BitInv, Divided
  <1>5. Begin /\ c_state' # "idle" => cmd # "NOP"
    BY DEF Begin, Entry
  <1>6. cmd # "NOP" => ena
    BY DEF BitInv, Divided
  <1> QED BY <1>1, <1>2, <1>3, <1>4, <1>5, <1>6

\* gen_clken starts a whole phase after every enabled clock, so none follows an
\* acknowledge, and waits for a slave only where SCL is being released.
LEMMA BitDivided ==
    ASSUME Serves, BitInv, Next
    PROVE  Divided'
  <1>1. BitCtrlClk /\ CommandClk /\ EnableClk /\ clk_cnt \in Nat /\ clk_cnt >= 10
    BY Periods DEF Next
  <1>2. clk_en' <=> cnt' = clk_cnt
    BY <1>1, Ticks
  <1>3. cmd_ack' => Advance
    BY Kinds DEF Hold, Begin
  <1>4. cmd_ack' => cnt' = clk_cnt - 1 /\ c_state' = "idle" /\ cmd' # "NOP"
    <2> SUFFICES ASSUME Advance, cmd_ack' PROVE cnt' = clk_cnt - 1 /\ c_state' = "idle" /\ cmd' # "NOP"
      BY <1>3
    <2>1. c_state' = "idle" /\ c_state # "idle" /\ clk_en
      BY DEF Advance
    <2>2. cnt' = clk_cnt - 1
      BY <1>1, <2>1, Kinds, Ticks
    <2>3. cmd' # "NOP"
      BY <2>1, Kinds, CommandStays
    <2> QED BY <2>1, <2>2, <2>3
  <1>5. ~ena' => cmd' = "NOP" /\ c_state' = "idle" /\ ~cmd_ack' /\ ~cmd_stop'
    <2> SUFFICES ASSUME ~ena' PROVE cmd' = "NOP" /\ c_state' = "idle" /\ ~cmd_ack' /\ ~cmd_stop'
      OBVIOUS
    <2>1. cmd' = "NOP" /\ cmd = "NOP" /\ c_state = "idle" /\ ~cmd_stop
      BY <1>1 DEF EnableClk, CommandClk, BitInv, Divided
    <2>2. c_state' = "idle" /\ ~cmd_ack'
      BY <2>1, Kinds DEF Hold, Begin, Advance, Entry
    <2>3. ~cmd_stop'
      BY <1>1, <2>1 DEF BitCtrlClk, gen_al
    <2> QED BY <2>1, <2>2, <2>3
  <1>6. slave_wait' => c_state' \in Rises
    <2> SUFFICES ASSUME slave_wait' PROVE c_state' \in Rises
      OBVIOUS
    <2>1. slave_wait \/ (iscl_oen /\ ~dscl_oen)
      BY <1>1 DEF BitCtrlClk, stretching
    <2>2. CASE slave_wait
      BY <1>1, <2>2, Ticks, Kinds DEF BitInv, Divided, Hold, Begin, Advance
    <2>3. CASE iscl_oen /\ ~dscl_oen
      <3>1. c_state \in Rises /\ Rising
        BY <2>3 DEF BitInv, Scl, High
      <3>2. ~clk_en \/ slave_wait
        BY <1>1, <2>3, <3>1 DEF Rising, BitInv, Divided
      <3> QED BY <2>2, <3>1, <3>2, Kinds DEF Hold, Begin, Advance
    <2> QED BY <2>1, <2>2, <2>3
  <1> QED BY <1>2, <1>4, <1>5, <1>6 DEF Divided

\* gen_al sees no contention, and the phase belongs to the command asked for.
LEMMA BitCommanded ==
    ASSUME Serves, BitInv, Next
    PROVE  Commanded'
  <1>1. BitCtrlClk /\ Lines /\ Types
    BY DEF Next, BitInv
  <1>2. ~ial'
    <2>1. ~(sda_chk /\ ~sSDA /\ isda_oen)
      <3> SUFFICES ASSUME sda_chk, isda_oen PROVE sSDA
        OBVIOUS
      <3>1. c_state = "wr_d" /\ isda_oen = din
        BY <1>1 DEF Lines
      <3> QED BY <1>1, <3>1 DEF BitInv, Sda, SdaSettled, Settled
    <2>2. ~(c_state = "idle" /\ sto_condition /\ ~cmd_stop)
      BY DEF BitInv, OwnStop
    <2> QED BY <1>1, <2>1, <2>2 DEF BitCtrlClk, gen_al
  <1>3. c_state' # "idle" => cmd' = Command'
    <2> SUFFICES ASSUME c_state' # "idle" PROVE cmd' = Command'
      OBVIOUS
    <2>1. CASE Hold
      <3>1. c_state' = c_state /\ Command' = Command
        BY <2>1 DEF Hold, Command
      <3> QED BY <3>1, Kinds, CommandStays DEF BitInv, Commanded
    <2>2. CASE Begin
      <3>1. cmd' = cmd /\ c_state' = Entry[cmd]
        BY <2>2, Kinds, CommandStays DEF Begin
      <3> QED BY <1>1, <3>1 DEF Entry, Command, Lines, Cmds
    <2>3. CASE Advance
      <3>1. c_state # "idle"
        BY <2>3 DEF Advance
      <3>2. cmd' = cmd /\ cmd = Command
        BY <3>1, Kinds, CommandStays DEF BitInv, Commanded
      <3>3. Command' = Command
        BY <1>1, <2>3, Steps DEF LeadsTo, Lines, Command
      <3> QED BY <3>2, <3>3
    <2> QED BY <2>1, <2>2, <2>3, Kinds
  <1>4. c_state' = "idle" /\ cmd_stop' => iscl_oen'
    <2> SUFFICES ASSUME c_state' = "idle", cmd_stop' PROVE iscl_oen'
      OBVIOUS
    <2>1. cmd_stop' = IF clk_en THEN cmd = "STOP" ELSE cmd_stop
      BY <1>1 DEF BitCtrlClk, gen_al
    <2>2. CASE Hold
      BY <2>1, <2>2 DEF Hold, BitInv, Commanded
    <2>3. CASE Begin
      <3>1. cmd = "STOP" /\ c_state' = Entry[cmd]
        BY <2>1, <2>3, Zenon DEF Begin
      <3>2. c_state' = "stop_a"
        BY <3>1 DEF Entry
      <3> QED BY <3>2
    <2>4. CASE Advance
      <3>1. clk_en /\ c_state # "idle"
        BY <2>4 DEF Advance
      <3>2. cmd = "STOP"
        BY <2>1, <3>1, Zenon
      <3>3. cmd = Command
        BY <3>1 DEF BitInv, Commanded
      <3> QED BY <1>1, <2>4, <3>2, <3>3, Steps DEF LeadsTo, Lines, Command
    <2> QED BY <2>2, <2>3, <2>4, Kinds
  <1> QED BY <1>2, <1>3, <1>4 DEF Commanded

-----------------------------------------------------------------------------
(* SCL *)

\* SettledOn for a high line.
LEMMA SettledHigh ==
    ASSUME NEW c, NEW f, NEW s, NEW d, NEW k, NEW cc, NEW ff, NEW ss, NEW dd,
           Settled(c, f, s, d, TRUE), Passed(TRUE, c, f, s, d, cc, ff, ss, dd, k)
    PROVE  Settled(cc, ff, ss, dd, TRUE)
  <1>1. Majority(f) = TRUE
    BY DEF Settled, Majority
  <1> QED BY <1>1 DEF Settled, Passed

\* A line that was settled at a high SCL is remembered while SCL falls...
LEMMA FallStarts ==
    ASSUME Types, Types', NEW v \in BOOLEAN, High, SdaSettled(v), scl_i, sda_i = v, BitCtrlClk, Observe
    PROVE  Falling'
  <1> DEFINE c == cSCL' f == fSCL' cc == cSDA' ff == fSDA'
  <1>1. level' = v
    BY DEF Observe
  <1>2. Settled(cSCL', fSCL', sSCL', dSCL', TRUE)
    <2>1. scl_i = TRUE
      BY Zenon DEF scl_i
    <2>2. Passed(TRUE, cSCL, fSCL, sSCL, dSCL, cSCL', fSCL', sSCL', dSCL', filter_cnt)
      BY <2>1, Filtered, Zenon
    <2>3. Settled(cSCL, fSCL, sSCL, dSCL, TRUE)
      BY DEF High, SclSettled
    <2> QED BY <2>2, <2>3, SettledHigh
  <1>3. Settled(cSDA', fSDA', sSDA', dSDA', v)
    BY Filtered, SettledOn DEF SdaSettled, Types
  <1>4. /\ c[1] /\ c[2] /\ f[1] /\ f[2] /\ sSCL' /\ dSCL'
        /\ cc[1] = v /\ cc[2] = v /\ ff[1] = v /\ ff[2] = v /\ sSDA' = v /\ dSDA' = v
    BY <1>2, <1>3 DEF Settled
  <1>5. Falling' = (/\ sSCL' => dSCL'
                    /\ Majority(f) => sSCL'
                    /\ c[1] => c[2]
                    /\ c[2] => f[1]
                    /\ f[1] => f[2]
                    /\ f[2] /\ ~f[1] => f[3]
                    /\ c[1] => cc[1] = level'
                    /\ c[2] => cc[2] = level'
                    /\ f[1] => ff[1] = level'
                    /\ f[2] => ff[2] = level'
                    /\ f[3] /\ ~f[1] => ff[3] = level'
                    /\ sSCL' => sSDA' = level' /\ dSDA' = level')
    BY Zenon DEF Falling, Majority
  <1> HIDE DEF c, f, cc, ff
  <1> QED BY <1>1, <1>4, <1>5

\* ... and until its fall is seen.
LEMMA FallGoesOn ==
    ASSUME Types, Falling, ~scl_i, BitCtrlClk, Observe
    PROVE  Falling'
  <1>1. level' = level
    BY DEF Observe
  <1>2. /\ cSCL'[1] = scl_i /\ cSCL'[2] = cSCL[1]
        /\ cSDA'[1] = sda_i /\ cSDA'[2] = cSDA[1]
        /\ sSCL' = Majority(fSCL) /\ dSCL' = sSCL
        /\ sSDA' = Majority(fSDA) /\ dSDA' = sSDA
    BY Filtered DEF Passed
  <1>3. sSCL' => sSCL /\ sSDA = level /\ sSDA' = level
    <2> SUFFICES ASSUME sSCL' PROVE sSCL /\ sSDA = level /\ sSDA' = level
      OBVIOUS
    <2>1. Majority(fSCL) /\ sSCL /\ sSDA = level
      BY <1>2 DEF Falling
    <2>2. \/ fSDA[1] = level /\ fSDA[2] = level
          \/ fSDA[2] = level /\ fSDA[3] = level
      BY <2>1 DEF Falling, Majority
    <2> QED BY <1>2, <2>1, <2>2 DEF Majority, Types
  <1>4. CASE filter_cnt = 0
    <2>1. /\ fSCL'[1] = cSCL[2] /\ fSCL'[2] = fSCL[1] /\ fSCL'[3] = fSCL[2]
          /\ fSDA'[1] = cSDA[2] /\ fSDA'[2] = fSDA[1] /\ fSDA'[3] = fSDA[2]
      BY <1>4, Filtered DEF Passed
    <2>2. Majority(fSCL') => sSCL'
      BY <1>2, <2>1 DEF Majority, Falling, Types
    <2> QED BY <1>1, <1>2, <1>3, <2>1, <2>2 DEF Falling, Types, Majority
  <1>5. CASE filter_cnt # 0
    <2>1. /\ fSCL'[1] = fSCL[1] /\ fSCL'[2] = fSCL[2] /\ fSCL'[3] = fSCL[3]
          /\ fSDA'[1] = fSDA[1] /\ fSDA'[2] = fSDA[2] /\ fSDA'[3] = fSDA[3]
      BY <1>5, Filtered DEF Passed
    <2>2. Majority(fSCL') => sSCL'
      BY <1>2, <2>1 DEF Majority, Falling, Types
    <2> QED BY <1>1, <1>2, <1>3, <2>1, <2>2 DEF Falling, Types, Majority
  <1> QED BY <1>4, <1>5

\* SCL stays high until the controller pulls it.
LEMMA HighStays ==
    ASSUME Serves, Types, High, iscl_oen, BitCtrlClk, StretchClk
    PROVE  High'
  <1>1. scl_i = TRUE
    BY Zenon DEF High, scl_i
  <1>2. Settled(cSCL', fSCL', sSCL', dSCL', TRUE)
    <2>1. Passed(TRUE, cSCL, fSCL, sSCL, dSCL, cSCL', fSCL', sSCL', dSCL', filter_cnt)
      BY <1>1, Filtered, Zenon
    <2>2. Settled(cSCL, fSCL, sSCL, dSCL, TRUE)
      BY DEF High, SclSettled
    <2> QED BY <2>1, <2>2, SettledHigh
  <1>3. bus_scl' /\ dscl_oen'
    BY <1>1 DEF StretchClk, Serves, BitCtrlClk, stretching
  <1> QED BY <1>2, <1>3 DEF High, SclSettled, Settled

\* A phase in which SCL is released ends only when it is high.
LEMMA RiseEnds ==
    ASSUME Serves, BitInv, Rising, clk_en
    PROVE  High
  <1>1. dSCL
    BY Periods DEF BitInv, Divided, Rising
  <1> QED BY <1>1 DEF Rising, High, SclSettled, Settled, BitInv, Types

\* While a slave holds SCL the divider waits, and it goes on when SCL is seen high.
LEMMA RiseGoesOn ==
    ASSUME Serves, BitInv, Next, Rising, c_state \in Rises, ~clk_en
    PROVE  Rising'
  <1>1. BitCtrlClk /\ StretchClk /\ Types /\ iscl_oen
    BY DEF Next, BitInv, Lines
  <1>2. scl_i = bus_scl /\ (bus_scl => bus_scl')
    BY <1>1 DEF scl_i, StretchClk, Serves, Types, Lines, BitInv
  <1>3. /\ cSCL'[1] = scl_i /\ cSCL'[2] = cSCL[1]
        /\ sSCL' = Majority(fSCL) /\ dSCL' = sSCL
    BY <1>1, Filtered DEF Passed
  <1>4. /\ dscl_oen'
        /\ slave_wait' <=> ~sSCL /\ (slave_wait \/ ~dscl_oen)
    BY <1>1 DEF BitCtrlClk, stretching
  <1>5. sSCL' => fSCL[1] /\ fSCL[2]
    BY <1>3 DEF Majority, Rising
  <1>6. sSCL => sSCL' /\ ~slave_wait'
    BY <1>1, <1>3, <1>4 DEF Majority, Rising
  <1>7. /\ cSCL'[1] => bus_scl'
        /\ cSCL'[2] => cSCL'[1]
        /\ fSCL'[1] => cSCL'[2]
        /\ fSCL'[2] => fSCL'[1]
        /\ fSCL'[1] /\ fSCL'[3] => fSCL'[2]
        /\ sSCL' => fSCL'[1] /\ fSCL'[2]
    <2>1. CASE filter_cnt = 0
      <3>1. /\ fSCL'[1] = cSCL[2] /\ fSCL'[2] = fSCL[1] /\ fSCL'[3] = fSCL[2]
        BY <1>1, <2>1, Filtered DEF Passed
      <3> QED BY <1>1, <1>2, <1>3, <1>5, <3>1 DEF Rising, Types
    <2>2. CASE filter_cnt # 0
      <3>1. /\ fSCL'[1] = fSCL[1] /\ fSCL'[2] = fSCL[2] /\ fSCL'[3] = fSCL[3]
        BY <1>1, <2>2, Filtered DEF Passed
      <3> QED BY <1>1, <1>2, <1>3, <1>5, <3>1 DEF Rising, Types
    <2> QED BY <2>1, <2>2
  <1>8. ~sSCL => cnt' = clk_cnt - 2 /\ slave_wait'
    <2> SUFFICES ASSUME ~sSCL PROVE cnt' = clk_cnt - 2 /\ slave_wait'
      OBVIOUS
    <2>1. ~dSCL
      BY DEF Rising
    <2>2. CASE cnt = clk_cnt - 1 /\ ~dscl_oen /\ ~slave_wait /\ ~sSCL
      <3>1. ena /\ cnt # 0 /\ clk_cnt \in Nat
        BY <2>2, Periods, Kinds DEF Rises
      <3>2. cnt' = cnt - 1
        BY <1>1, <2>2, <3>1, Ticks
      <3> QED BY <1>4, <2>2, <3>1, <3>2
    <2>3. CASE cnt = clk_cnt - 2 /\ dscl_oen /\ slave_wait
      BY <1>1, <1>4, <2>3, Ticks
    <2> QED BY <2>1, <2>2, <2>3 DEF Rising
  <1>9. dSCL' => sSCL' /\ dscl_oen' /\ ~slave_wait'
    BY <1>3, <1>4, <1>6
  <1>10. ~dSCL' => cnt' = clk_cnt - 2 /\ dscl_oen' /\ slave_wait'
    BY <1>3, <1>4, <1>8
  <1> QED BY <1>7, <1>9, <1>10 DEF Rising

\* The kinds of clocks, by what they do to the state and to SCL.
LEMMA SclMoves ==
    ASSUME Serves, BitInv, Next
    PROVE  \/ Hold /\ c_state' = c_state /\ iscl_oen' = iscl_oen /\ ~clk_en
           \/ /\ Begin /\ c_state = "idle" /\ c_state' \in Firsts \cup {"idle"}
              /\ iscl_oen' = iscl_oen /\ clk_en
           \/ /\ Advance /\ clk_en /\ ena /\ ~slave_wait
              /\ \/ c_state = "start_a" /\ c_state' = "start_b" /\ iscl_oen' = iscl_oen
                 \/ c_state = "start_b" /\ c_state' = "start_c"
                 \/ c_state \in Lows /\ c_state' \in Rises
                 \/ c_state \in Rises /\ c_state' \in Highs
                 \/ c_state = "start_d" /\ c_state' = "start_e"
                 \/ c_state = "stop_d" /\ c_state' = "idle" /\ iscl_oen'
                 \/ c_state \in {"start_e", "rd_d", "wr_d"} /\ c_state' = "idle" /\ ~iscl_oen'
                 \/ c_state \in Firsts /\ c_state' \in Lows
  <1> USE DEF Firsts, Lows, Rises, Highs
  <1>1. CASE Hold
    BY <1>1 DEF Hold
  <1>2. CASE Begin
    <2>1. Entry[cmd] \in Firsts \cup {"idle"}
      BY DEF Entry, BitInv, Lines, Cmds
    <2> QED BY <1>2, <2>1 DEF Begin
  <1>3. CASE Advance
    <2>1. clk_en /\ ena /\ ~slave_wait
      BY <1>3, Kinds DEF Advance
    <2> QED BY <1>3, <2>1, Steps DEF LeadsTo, BitInv, Lines
  <1> QED BY <1>1, <1>2, <1>3, Kinds

\* SettledOn for a low line.
LEMMA SettledLow ==
    ASSUME NEW c, NEW f, NEW s, NEW d, NEW k, NEW cc, NEW ff, NEW ss, NEW dd,
           Settled(c, f, s, d, FALSE), Passed(FALSE, c, f, s, d, cc, ff, ss, dd, k)
    PROVE  Settled(cc, ff, ss, dd, FALSE)
  <1>1. Majority(f) = FALSE
    BY DEF Settled, Majority
  <1> QED BY <1>1 DEF Settled, Passed

\* The levels on SDA are settled when SCL is pulled down.
LEMMA FallSettled ==
    ASSUME Serves, BitInv, Next, iscl_oen, ~iscl_oen'
    PROVE  High /\ sda_i \in BOOLEAN /\ SdaSettled(sda_i)
  <1> USE DEF Firsts, Lows, Rises, Highs
  <1>1. /\ c_state \in {"stop_a", "rd_a", "wr_a", "start_e", "rd_d", "wr_d"}
        /\ clk_en /\ Types /\ Lines
    BY Kinds, Steps DEF LeadsTo, BitInv, Lines, Hold, Begin, Advance
  <1>2. Elapsed = clk_cnt
    BY <1>1 DEF Elapsed
  <1>3. High
    BY <1>1 DEF BitInv, Scl
  <1>4. ASSUME NEW v, SdaAged(v, Elapsed) PROVE SdaSettled(v)
    BY <1>1, <1>2, <1>4, Periods, AgedEnds DEF SdaAged, SdaSettled, Types
  <1>5. CASE c_state \in {"stop_a", "rd_a", "wr_a"}
    <2>1. SdaSettled(TRUE) /\ bus_sda /\ isda_oen
      BY <1>1, <1>5 DEF BitInv, Free, Lines
    <2>2. sda_i = TRUE
      BY <2>1, Zenon DEF sda_i
    <2> QED BY <1>3, <2>1, <2>2
  <1>6. CASE c_state = "start_e"
    <2>1. SdaSettled(FALSE) /\ ~isda_oen
      BY <1>1, <1>4, <1>6 DEF BitInv, Sda, Lines
    <2>2. sda_i = FALSE
      BY <2>1, Zenon DEF sda_i
    <2> QED BY <1>3, <2>1, <2>2
  <1>7. CASE c_state = "rd_d"
    <2>1. SdaSettled(bus_sda) /\ isda_oen
      BY <1>1, <1>4, <1>7 DEF BitInv, Sda, Lines
    <2>2. sda_i = bus_sda
      BY <1>1, <2>1 DEF sda_i, Types
    <2> QED BY <1>1, <1>3, <2>1, <2>2 DEF Types
  <1>8. CASE c_state = "wr_d"
    <2>1. SdaSettled(din) /\ isda_oen = din /\ bus_sda
      BY <1>1, <1>8 DEF BitInv, Sda, Lines
    <2>2. sda_i = din
      BY <1>1, <2>1 DEF sda_i, Types, Lines
    <2> QED BY <1>1, <1>3, <2>1, <2>2 DEF Lines
  <1> QED BY <1>1, <1>5, <1>6, <1>7, <1>8

\* Whatever pulls SCL down, its fall travels through the filter as Falling says.
LEMMA FallKept ==
    ASSUME Serves, BitInv, Next, ~iscl_oen'
    PROVE  Falling'
  <1>1. BitCtrlClk /\ Observe /\ Types /\ Types'
    BY BitTypes DEF Next, BitInv
  <1>2. CASE iscl_oen
    <2>1. scl_i
      BY <1>2, FallSettled DEF scl_i, High
    <2> QED BY <1>1, <1>2, <2>1, FallSettled, FallStarts
  <1>3. CASE ~iscl_oen
    <2>1. Falling /\ ~scl_i
      BY <1>3 DEF scl_i, BitInv, Scl
    <2> QED BY <1>1, <2>1, FallGoesOn
  <1> QED BY <1>2, <1>3

\* How long SCL has been low.
LEMMA LowKept ==
    ASSUME Serves, BitInv, Next, c_state' \in Lows \cup {"start_b"}, ~iscl_oen'
    PROVE  SclAged(FALSE, Elapsed)'
  <1> USE DEF Firsts, Lows, Rises, Highs
  <1>1. BitCtrlClk /\ Types /\ Types'
    BY BitTypes DEF Next, BitInv
  <1>2. Period' = Period /\ Period \in Nat \ {0} /\ clk_cnt \in Nat
    BY Periods DEF Period
  <1>3. CASE Hold
    <2>1. c_state \in Lows \cup {"start_b"} /\ ~iscl_oen /\ ~clk_en
      BY <1>3 DEF Hold
    <2>2. SclAged(FALSE, Elapsed) /\ ena /\ ~slave_wait
      BY <2>1, Kinds DEF BitInv, Scl, Divided
    <2>3. Elapsed \in Nat /\ Elapsed' = Elapsed + 1
      BY <1>1, <1>2, <2>1, <2>2, Ticks
    <2>4. scl_i = FALSE
      BY <2>1, Zenon DEF scl_i
    <2> PICK low \in BOOLEAN : low = FALSE
      OBVIOUS
    <2>5. Passed(low, cSCL, fSCL, sSCL, dSCL, cSCL', fSCL', sSCL', dSCL', filter_cnt)
      BY <1>1, <2>4, Filtered, Zenon
    <2>6. filter_cnt' = IF filter_cnt = 0 THEN Period - 1 ELSE filter_cnt - 1
      BY <1>1, <2>2, Filtered
    <2>7. Aged(cSCL, fSCL, sSCL, dSCL, filter_cnt, low, Elapsed)
      BY <2>2, Zenon DEF SclAged
    <2>8. Aged(cSCL', fSCL', sSCL', dSCL', filter_cnt', low, Elapsed')
      BY <1>1, <1>2, <2>3, <2>5, <2>6, <2>7, AgedOn DEF Types
    <2> QED BY <1>2, <2>8 DEF SclAged, Aged
  <1>4. CASE ~Hold
    <2>1. Advance /\ clk_en /\ ena
      BY <1>4, SclMoves
    <2>2. Elapsed' = 0 /\ filter_cnt' \in 0 .. Period - 1
      BY <1>1, <1>2, <2>1, Ticks DEF Types
    <2> DEFINE n == Elapsed' k == filter_cnt'
    <2>3. n = 0 /\ k \in 0 .. Period - 1 /\ Period \in Nat
      BY <1>2, <2>2
    <2> HIDE DEF n, k
    <2>4. ~(n >= 1) /\ ~(n >= 2) /\ ~(n + k >= Period + 2) /\ ~(n + k >= 2 * Period + 2)
          /\ ~(n >= 2 * Period + 3) /\ ~(n >= 2 * Period + 4)
      BY <2>3
    <2> QED BY <1>2, <2>4, Zenon DEF SclAged, Aged, n, k
  <1> QED BY <1>3, <1>4

\* Whatever releases SCL, its rise travels through the filter as Rising says.
LEMMA RiseKept ==
    ASSUME Serves, BitInv, Next, c_state' \in Rises
    PROVE  Rising'
  <1> USE DEF Firsts, Lows, Rises, Highs
  <1>1. BitCtrlClk /\ Types /\ Types' /\ clk_cnt \in Nat /\ Period \in Nat \ {0}
    BY BitTypes, Periods DEF Next, BitInv
  <1>2. CASE Hold
    BY <1>2, RiseGoesOn DEF Hold, BitInv, Scl
  <1>3. ASSUME ~Hold PROVE /\ Advance /\ clk_en /\ ena /\ ~slave_wait
                           /\ c_state \in Lows \cup {"start_b"}
    BY <1>3, SclMoves
  <1>4. CASE ~Hold /\ iscl_oen
    <2>1. High
      BY <1>3, <1>4 DEF BitInv, Scl
    <2>2. High' /\ ~slave_wait'
      BY <1>1, <1>4, <2>1, HighStays DEF Next, BitCtrlClk, stretching, High, SclSettled, Settled
    <2> QED BY <2>2 DEF High, SclSettled, Settled, Rising
  <1>5. CASE ~Hold /\ ~iscl_oen
    <2>1. SclAged(FALSE, Elapsed) /\ Elapsed = clk_cnt
      BY <1>3, <1>5 DEF BitInv, Scl, Elapsed
    <2>2. Settled(cSCL, fSCL, sSCL, dSCL, FALSE)
      BY <1>1, <2>1, Periods, AgedEnds DEF SclAged, Types
    <2>3. scl_i = FALSE
      BY <1>5, Zenon DEF scl_i
    <2>4. Passed(FALSE, cSCL, fSCL, sSCL, dSCL, cSCL', fSCL', sSCL', dSCL', filter_cnt)
      BY <1>1, <2>3, Filtered, Zenon
    <2>5. Settled(cSCL', fSCL', sSCL', dSCL', FALSE)
      BY <2>2, <2>4, SettledLow
    <2>6. cnt' = clk_cnt - 1
      BY <1>1, <1>3, <1>5, Ticks
    <2>7. ~dscl_oen' /\ ~slave_wait'
      BY <1>1, <1>3, <1>5 DEF BitCtrlClk, stretching
    <2> QED BY <2>5, <2>6, <2>7 DEF Settled, Rising
  <1> QED BY <1>2, <1>4, <1>5

\* Between its rise and its fall SCL is high and settled.
LEMMA HighKept ==
    ASSUME Serves, BitInv, Next, c_state' \notin Rises, iscl_oen'
    PROVE  High'
  <1> USE DEF Firsts, Lows, Rises, Highs
  <1>1. BitCtrlClk /\ StretchClk /\ Types /\ Lines
    BY DEF Next, BitInv
  <1>2. c_state' \notin Lows
    BY LinesKept DEF BitInv, Lines
  <1>3. iscl_oen
    BY <1>1, <1>2, SclMoves DEF Lines
  <1>4. High
    <2>1. CASE c_state \in Rises
      <3>1. clk_en
        BY <2>1, SclMoves
      <3> QED BY <2>1, <3>1, RiseEnds DEF BitInv, Scl
    <2>2. CASE c_state \notin Rises
      BY <1>3, <2>2 DEF BitInv, Scl
    <2> QED BY <2>1, <2>2
  <1> QED BY <1>1, <1>3, <1>4, HighStays

\* What is known of SCL stays true.
LEMMA BitScl ==
    ASSUME Serves, BitInv, Next
    PROVE  Scl'
  <1>1. Rises' = Rises /\ Lows' = Lows
    BY DEF Rises, Lows
  <1> QED BY <1>1, FallKept, LowKept, RiseKept, HighKept DEF Scl

-----------------------------------------------------------------------------
(* SDA *)

\* A phase starts with nothing known of SDA, ...
LEMMA SdaFresh ==
    ASSUME Serves, BitInv, Next, ena, clk_en, NEW v
    PROVE  Aged(cSDA', fSDA', sSDA', dSDA', filter_cnt', v, Elapsed')
  <1>1. BitCtrlClk /\ Types' /\ Period' = Period
    BY BitTypes DEF Next, Period
  <1>2. Elapsed' = 0 /\ filter_cnt' \in 0 .. Period - 1 /\ Period \in Nat \ {0}
    BY <1>1, Periods, Ticks DEF Types
  <1>3. Aged(cSDA', fSDA', sSDA', dSDA', filter_cnt', v, 0)
    BY <1>2, AgedNew
  <1> QED BY <1>2, <1>3, Zenon

\* ... every clock shows more of it, ...
LEMMA SdaAges ==
    ASSUME Serves, BitInv, Next, ena, ~clk_en, NEW v \in BOOLEAN, sda_i = v, SdaAged(v, Elapsed)
    PROVE  Aged(cSDA', fSDA', sSDA', dSDA', filter_cnt', v, Elapsed')
  <1>1. BitCtrlClk /\ Types
    BY DEF Next, BitInv
  <1>2. Period \in Nat \ {0} /\ clk_cnt \in Nat
    BY Periods
  <1>3. Elapsed \in Nat /\ Elapsed' \in 0 .. Elapsed + 1
    BY <1>1, <1>2, Ticks DEF Types
  <1>4. Passed(v, cSDA, fSDA, sSDA, dSDA, cSDA', fSDA', sSDA', dSDA', filter_cnt)
    BY <1>1, Filtered, Zenon
  <1>5. filter_cnt' = IF filter_cnt = 0 THEN Period - 1 ELSE filter_cnt - 1
    BY <1>1, Filtered
  <1>6. Aged(cSDA, fSDA, sSDA, dSDA, filter_cnt, v, Elapsed)
    BY Zenon DEF SdaAged
  <1> QED BY <1>1, <1>2, <1>3, <1>4, <1>5, <1>6, AgedOn DEF Types

\* ... and when it ends the filter has caught up.
LEMMA SdaCaughtUp ==
    ASSUME Serves, Types, clk_en, NEW v, SdaAged(v, Elapsed)
    PROVE  SdaSettled(v)
  <1>1. Elapsed = clk_cnt
    BY DEF Elapsed
  <1> QED BY <1>1, Periods, AgedEnds DEF SdaAged, SdaSettled, Types

\* SDA that stays high stays settled.
LEMMA SdaStaysHigh ==
    ASSUME BitCtrlClk, SdaSettled(TRUE), sda_i
    PROVE  SdaSettled(TRUE)'
  <1>1. sda_i = TRUE
    BY Zenon DEF sda_i
  <1>2. Passed(TRUE, cSDA, fSDA, sSDA, dSDA, cSDA', fSDA', sSDA', dSDA', filter_cnt)
    BY <1>1, Filtered, Zenon
  <1>3. Settled(cSDA', fSDA', sSDA', dSDA', TRUE)
    BY <1>2, SettledHigh DEF SdaSettled
  <1> QED BY <1>3 DEF SdaSettled, Settled

\* Where SCL is high, it shows, and the slaves keep SDA.
LEMMA SdaKeeps ==
    ASSUME Serves, BitInv, Next, c_state \notin Rises, iscl_oen
    PROVE  scl_i /\ bus_sda' = bus_sda
  <1>1. High
    BY DEF BitInv, Scl
  <1>2. scl_i
    BY <1>1 DEF High, scl_i
  <1> QED BY <1>2 DEF Next, AnswerClk, Serves

\* SDA is free when no command drives it, but may still rise in the filter after
\* the controller's own STOP.
LEMMA BitFree ==
    ASSUME Serves, BitInv, Next
    PROVE  Free'
  <1> USE DEF Firsts, Lows, Rises, Highs
  <1> SUFFICES ASSUME (c_state \in Firsts \cup {"idle"} /\ iscl_oen)'
               PROVE  (/\ bus_sda
                       /\ IF c_state = "idle" /\ cmd_stop THEN SdaAged(TRUE, Elapsed)
                          ELSE SdaSettled(TRUE))'
    BY DEF Free
  <1>1. BitCtrlClk /\ Types /\ Lines /\ Types'
    BY BitTypes DEF Next, BitInv
  <1>2. cmd_stop' = IF clk_en THEN cmd = "STOP" ELSE cmd_stop
    BY <1>1 DEF BitCtrlClk, gen_al
  <1>3. ASSUME c_state \in Firsts \cup {"idle"}, iscl_oen
        PROVE  /\ bus_sda' /\ sda_i
               /\ IF c_state = "idle" /\ cmd_stop THEN SdaAged(TRUE, Elapsed) ELSE SdaSettled(TRUE)
    <2>1. bus_sda /\ isda_oen
      BY <1>1, <1>3 DEF Lines, BitInv, Free
    <2> QED BY <1>3, <2>1, SdaKeeps DEF sda_i, BitInv, Free
  <1>4. CASE Hold
    <2>1. ~clk_en /\ c_state' = c_state /\ iscl_oen' = iscl_oen
      BY <1>4 DEF Hold
    <2>2. cmd_stop' = cmd_stop
      BY <1>2, <2>1
    <2>3. CASE c_state = "idle" /\ cmd_stop
      <3>1. ena
        BY <2>3 DEF BitInv, Divided
      <3> PICK high \in BOOLEAN : high = TRUE
        OBVIOUS
      <3>2. sda_i = high /\ SdaAged(high, Elapsed)
        BY <1>3, <2>1, <2>3, Zenon DEF sda_i
      <3>3. Aged(cSDA', fSDA', sSDA', dSDA', filter_cnt', high, Elapsed')
        BY <2>1, <3>1, <3>2, SdaAges
      <3>4. SdaAged(TRUE, Elapsed)'
        BY <3>3 DEF SdaAged, Aged, Period
      <3> QED BY <1>3, <2>1, <2>2, <2>3, <3>4
    <2>4. CASE ~(c_state = "idle" /\ cmd_stop)
      <3>1. SdaSettled(TRUE)'
        BY <1>1, <1>3, <2>1, <2>4, SdaStaysHigh
      <3> QED BY <1>3, <2>1, <2>2, <2>4, <3>1
    <2> QED BY <2>3, <2>4
  <1>5. CASE Begin
    <2>1. clk_en /\ c_state = "idle" /\ c_state' = Entry[cmd] /\ iscl_oen' = iscl_oen
      BY <1>5 DEF Begin
    <2>2. ~(c_state' = "idle" /\ cmd_stop')
      <3> SUFFICES ASSUME cmd_stop' PROVE c_state' # "idle"
        OBVIOUS
      <3>1. cmd = "STOP"
        BY <1>2, <2>1, Zenon
      <3> QED BY <2>1, <3>1 DEF Entry
    <2>3. SdaSettled(TRUE)
      BY <1>1, <1>3, <2>1, SdaCaughtUp
    <2>4. SdaSettled(TRUE)'
      BY <1>1, <1>3, <2>1, <2>3, SdaStaysHigh
    <2> QED BY <1>3, <2>1, <2>2, <2>4
  <1>6. CASE Advance
    <2>1. c_state = "stop_d" /\ c_state' = "idle" /\ clk_en /\ ena /\ iscl_oen
      BY <1>1, <1>6, Kinds, Steps DEF LeadsTo, Lines, Advance
    <2>2. bus_sda'
      BY <2>1, SdaKeeps DEF BitInv, Sda
    <2>3. cmd = "STOP"
      BY <2>1 DEF BitInv, Commanded, Command
    <2>4. cmd_stop' = TRUE
      BY <1>2, <2>1, <2>3, Zenon
    <2>5. Aged(cSDA', fSDA', sSDA', dSDA', filter_cnt', TRUE, Elapsed')
      BY <2>1, SdaFresh
    <2>6. SdaAged(TRUE, Elapsed)'
      BY <2>5 DEF SdaAged, Aged, Period
    <2> QED BY <2>1, <2>2, <2>4, <2>6
  <1> QED BY <1>4, <1>5, <1>6, Kinds

\* detect_sta_sto sees no STOP in an idle controller but the one it has just sent.
LEMMA BitOwnStop ==
    ASSUME Serves, BitInv, Next
    PROVE  OwnStop'
  <1> USE DEF Firsts, Lows, Rises, Highs
  <1> SUFFICES ASSUME c_state' = "idle", sSCL, ~dSDA, sSDA PROVE cmd_stop'
    BY DEF OwnStop, Next, BitCtrlClk, detect_sta_sto
  <1>1. BitCtrlClk /\ Types /\ Lines
    BY DEF Next, BitInv
  <1>2. cmd_stop' = IF clk_en THEN cmd = "STOP" ELSE cmd_stop
    BY <1>1 DEF BitCtrlClk, gen_al
  <1>3. iscl_oen
    BY <1>1 DEF BitInv, Scl, Falling, Types
  <1>4. ASSUME NEW v, SdaSettled(v) PROVE FALSE
    BY <1>1, <1>4 DEF SdaSettled, Settled, Types
  <1>5. CASE c_state = "idle"
    <2>1. cmd_stop
      BY <1>3, <1>4, <1>5 DEF BitInv, Free
    <2>2. ~clk_en
      BY <1>1, <1>3, <1>4, <1>5, <2>1, SdaCaughtUp DEF BitInv, Free
    <2> QED BY <1>2, <2>1, <2>2
  <1>6. CASE c_state # "idle"
    <2>1. /\ clk_en
          /\ c_state \in {"stop_d", "start_e", "rd_d", "wr_d"}
      BY <1>6, SclMoves
    <2>2. CASE c_state = "stop_d"
      <3>1. cmd = "STOP"
        BY <2>2 DEF BitInv, Commanded, Command
      <3> QED BY <1>2, <2>1, <3>1, Zenon
    <2>3. CASE c_state = "wr_d"
      BY <1>4, <2>3 DEF BitInv, Sda
    <2>4. CASE c_state = "start_e"
      BY <1>1, <1>4, <2>1, <2>4, SdaCaughtUp DEF BitInv, Sda
    <2>5. CASE c_state = "rd_d"
      BY <1>1, <1>4, <2>1, <2>5, SdaCaughtUp DEF BitInv, Sda
    <2> QED BY <2>1, <2>2, <2>3, <2>4, <2>5
  <1> QED BY <1>5, <1>6

\* SCL was high in the phases before an acknowledge.
LEMMA BitPulsed ==
    ASSUME Serves, BitInv, Next
    PROVE  Pulsed'
  <1>1. pulse' <=> scl_i' \/ (pulse /\ ~cmd_ack)
    BY DEF Next, Observe
  <1>2. cmd_ack' => pulse'
    <2> SUFFICES ASSUME cmd_ack' PROVE pulse'
      OBVIOUS
    <2>1. Advance /\ c_state' = "idle" /\ c_state # "idle"
      BY Kinds DEF Hold, Begin, Advance
    <2>2. c_state \notin Rises /\ iscl_oen
      BY <2>1, Steps DEF LeadsTo, BitInv, Lines, Rises, Highs
    <2> QED BY <1>1, <2>1, <2>2, Kinds, SdaKeeps DEF BitInv, Pulsed
  <1>3. (c_state # "idle" /\ scl_i)' => pulse'
    BY <1>1
  <1> QED BY <1>2, <1>3 DEF Pulsed

\* What is known of SDA stays true.
LEMMA BitSda ==
    ASSUME Serves, BitInv, Next
    PROVE  Sda'
  <1> USE DEF Firsts, Lows, Rises, Highs
  <1>1. BitCtrlClk /\ Types /\ Lines /\ AnswerClk /\ DataClk
    BY DEF Next, BitInv
  <1>2. Period' = Period
    BY DEF Period
  <1>3. c_state' # "idle" /\ c_state' \notin Firsts =>
           /\ Hold \/ Advance
           /\ ena /\ (Advance => clk_en /\ Elapsed' = 0) /\ (Hold => ~clk_en /\ c_state' = c_state)
           /\ c_state # "idle"
    <2> SUFFICES ASSUME c_state' # "idle", c_state' \notin Firsts
                 PROVE  /\ Hold \/ Advance
                        /\ ena /\ (Advance => clk_en /\ Elapsed' = 0)
                        /\ (Hold => ~clk_en /\ c_state' = c_state)
                        /\ c_state # "idle"
      OBVIOUS
    <2>1. CASE Hold
      BY <2>1, Kinds DEF Hold, Advance
    <2>2. CASE Advance
      BY <1>1, <2>2, Kinds, Ticks DEF Hold, Advance
    <2>3. ~Begin
      BY SclMoves DEF Begin, Hold, Advance
    <2> QED BY <2>1, <2>2, <2>3, Kinds
  \* The writer's SDA is the controller's own from the second clock on.
  <1>4. c_state \in {"stop_b", "wr_b", "stop_c", "stop_d", "wr_c", "wr_d"}
           /\ (clk_en \/ c_state \notin {"stop_b", "wr_b"}) => bus_sda'
    <2> SUFFICES ASSUME c_state \in {"stop_b", "wr_b", "stop_c", "stop_d", "wr_c", "wr_d"},
                        clk_en \/ c_state \notin {"stop_b", "wr_b"}
                 PROVE  bus_sda'
      OBVIOUS
    <2>1. clk_en => Elapsed # 0
      BY Periods DEF Elapsed
    <2>2. bus_sda
      BY <2>1 DEF BitInv, Sda
    <2> QED BY <1>1, <2>2 DEF AnswerClk, Serves
  <1>5. c_state' \in {"stop_b", "wr_b"} => Elapsed' = 0 \/ bus_sda'
    <2> SUFFICES ASSUME c_state' \in {"stop_b", "wr_b"}, Hold PROVE bus_sda'
      BY <1>3
    <2>1. c_state \in {"stop_b", "wr_b"} /\ ~iscl_oen /\ ~iscl_oen'
      BY <1>1 DEF Hold, Lines
    <2> QED BY <1>1, <2>1 DEF AnswerClk, scl_i, Serves
  <1>6. c_state' \in {"stop_c", "stop_d", "wr_c", "wr_d"} => bus_sda'
    <2> SUFFICES ASSUME c_state' \in {"stop_c", "stop_d", "wr_c", "wr_d"} PROVE bus_sda'
      OBVIOUS
    <2>1. CASE Hold
      BY <1>4, <2>1 DEF Hold
    <2>2. CASE Advance
      <3>1. clk_en /\ c_state \in {"stop_b", "stop_c", "wr_b", "wr_c"}
        BY <1>1, <2>2, Steps DEF LeadsTo, Lines, Advance
      <3> QED BY <1>4, <3>1
    <2> QED BY <1>3, <2>1, <2>2
  <1>7. c_state' = "wr_c" => SdaAged(din, Elapsed)'
    <2> SUFFICES ASSUME c_state' = "wr_c" PROVE SdaAged(din, Elapsed)'
      OBVIOUS
    <2>1. CASE Hold
      <3>1. c_state = "wr_c" /\ ~clk_en /\ ena
        BY <1>3, <2>1
      <3>2. din' = din /\ sda_i = din /\ SdaAged(din, Elapsed) /\ din \in BOOLEAN
        BY <1>1, <3>1 DEF DataClk, sda_i, BitInv, Sda, Lines, Types
      <3>3. Aged(cSDA', fSDA', sSDA', dSDA', filter_cnt', din, Elapsed')
        BY <3>1, <3>2, SdaAges
      <3> QED BY <1>2, <3>2, <3>3 DEF SdaAged, Aged
    <2>2. CASE Advance
      <3>1. Aged(cSDA', fSDA', sSDA', dSDA', filter_cnt', din', Elapsed')
        BY <1>3, <2>2, SdaFresh
      <3> QED BY <1>2, <3>1 DEF SdaAged, Aged
    <2> QED BY <1>3, <2>1, <2>2
  <1>8. c_state' = "wr_d" => SdaSettled(din)'
    <2> SUFFICES ASSUME c_state' = "wr_d" PROVE SdaSettled(din)'
      OBVIOUS
    <2>1. c_state \in {"wr_c", "wr_d"} /\ (c_state = "wr_c" => clk_en)
      <3>1. CASE Hold
        BY <1>3, <3>1
      <3>2. CASE Advance
        BY <1>1, <1>3, <3>2, Steps DEF LeadsTo, Lines
      <3> QED BY <1>3, <3>1, <3>2
    <2>2. SdaSettled(din)
      BY <1>1, <2>1, SdaCaughtUp DEF BitInv, Sda
    <2>3. din' = din /\ sda_i = din /\ din \in BOOLEAN
      BY <1>1, <2>1 DEF DataClk, sda_i, BitInv, Sda, Lines, Types
    <2>4. Passed(din, cSDA, fSDA, sSDA, dSDA, cSDA', fSDA', sSDA', dSDA', filter_cnt)
      BY <1>1, <2>3, Filtered, Zenon
    <2>5. Settled(cSDA', fSDA', sSDA', dSDA', din)
      BY <1>1, <2>2, <2>3, <2>4, SettledOn DEF SdaSettled, Types
    <2> QED BY <2>3, <2>5 DEF SdaSettled, Settled
  <1>9. c_state' = "start_e" => SdaAged(FALSE, Elapsed)'
    <2> SUFFICES ASSUME c_state' = "start_e" PROVE SdaAged(FALSE, Elapsed)'
      OBVIOUS
    <2>1. CASE Hold
      <3>1. c_state = "start_e" /\ ~clk_en /\ ena
        BY <1>3, <2>1
      <3> PICK low \in BOOLEAN : low = FALSE
        OBVIOUS
      <3>2. SdaAged(FALSE, Elapsed) /\ ~isda_oen
        BY <1>1, <3>1 DEF BitInv, Sda, Lines
      <3>3. sda_i = low /\ SdaAged(low, Elapsed)
        BY <3>2, Zenon DEF sda_i
      <3>4. Aged(cSDA', fSDA', sSDA', dSDA', filter_cnt', low, Elapsed')
        BY <3>1, <3>3, SdaAges
      <3> QED BY <1>2, <3>4 DEF SdaAged, Aged
    <2>2. CASE Advance
      <3>1. Aged(cSDA', fSDA', sSDA', dSDA', filter_cnt', FALSE, Elapsed')
        BY <1>3, <2>2, SdaFresh
      <3> QED BY <1>2, <3>1 DEF SdaAged, Aged
    <2> QED BY <1>3, <2>1, <2>2
  <1>10. c_state' = "rd_d" => SdaAged(bus_sda, Elapsed)'
    <2> SUFFICES ASSUME c_state' = "rd_d" PROVE SdaAged(bus_sda, Elapsed)'
      OBVIOUS
    <2>1. CASE Hold
      <3>1. c_state = "rd_d" /\ ~clk_en /\ ena
        BY <1>3, <2>1
      <3>2. bus_sda' = bus_sda /\ sda_i = bus_sda /\ SdaAged(bus_sda, Elapsed) /\ bus_sda \in BOOLEAN
        BY <1>1, <3>1, SdaKeeps DEF sda_i, BitInv, Sda, Lines, Types
      <3>3. Aged(cSDA', fSDA', sSDA', dSDA', filter_cnt', bus_sda, Elapsed')
        BY <3>1, <3>2, SdaAges
      <3> QED BY <1>2, <3>2, <3>3 DEF SdaAged, Aged
    <2>2. CASE Advance
      <3>1. Aged(cSDA', fSDA', sSDA', dSDA', filter_cnt', bus_sda', Elapsed')
        BY <1>3, <2>2, SdaFresh
      <3> QED BY <1>2, <3>1 DEF SdaAged, Aged
    <2> QED BY <1>3, <2>1, <2>2
  <1> QED BY <1>5, <1>6, <1>7, <1>8, <1>9, <1>10 DEF Sda

-----------------------------------------------------------------------------
(* The bits that are read *)

\* What a clock of a READ's clock pulse keeps of it.
LEMMA PulseRead ==
    ASSUME Serves, BitInv, Next, c_state = "rd_c", ~clk_en
    PROVE  /\ cSCL'[1] => cSDA'[1] = bus_sda' /\ level' = bus_sda'
           /\ cSCL'[2] => cSDA'[2] = bus_sda'
           /\ fSCL'[1] => fSDA'[1] = bus_sda'
           /\ fSCL'[2] => fSDA'[2] = bus_sda'
           /\ sSCL' => sSDA' = bus_sda'
           /\ dSCL' => dout' = bus_sda'
  <1>1. BitCtrlClk /\ Types /\ Lines /\ AnswerClk /\ Observe /\ Rising
    BY DEF Next, BitInv, Scl, Rises
  <1>2. /\ cSCL[1] => cSDA[1] = bus_sda /\ level = bus_sda
        /\ cSCL[2] => cSDA[2] = bus_sda
        /\ fSCL[1] => fSDA[1] = bus_sda
        /\ fSCL[2] => fSDA[2] = bus_sda
        /\ sSCL => sSDA = bus_sda
        /\ dSCL => dout = bus_sda
    BY DEF BitInv, Reads
  <1>3. isda_oen /\ iscl_oen
    BY <1>1 DEF Lines, Rises
  <1>4. scl_i = bus_scl /\ sda_i = bus_sda
    BY <1>1, <1>3 DEF scl_i, sda_i, Types, Lines
  <1>5. /\ cSCL'[1] = scl_i /\ cSCL'[2] = cSCL[1]
        /\ cSDA'[1] = sda_i /\ cSDA'[2] = cSDA[1]
        /\ sSCL' = Majority(fSCL) /\ dSCL' = sSCL
        /\ sSDA' = Majority(fSDA)
    BY <1>1, Filtered DEF Passed
  <1>6. \/ fSCL'[1] = cSCL[2] /\ fSCL'[2] = fSCL[1] /\ fSDA'[1] = cSDA[2] /\ fSDA'[2] = fSDA[1]
        \/ fSCL'[1] = fSCL[1] /\ fSCL'[2] = fSCL[2] /\ fSDA'[1] = fSDA[1] /\ fSDA'[2] = fSDA[2]
    BY <1>1, Filtered DEF Passed
  <1>7. Majority(fSCL) => fSCL[1] /\ fSCL[2]
    BY <1>1 DEF Rising, Majority
  <1>8. CASE scl_i
    <2>1. bus_sda' = bus_sda /\ level' = bus_sda
      BY <1>1, <1>4, <1>8 DEF AnswerClk, Serves, Observe
    <2>2. sSCL' => sSDA' = bus_sda
      BY <1>1, <1>2, <1>5, <1>7 DEF Majority, Types
    <2>3. dSCL' => dout' = bus_sda
      BY <1>1, <1>2, <1>5 DEF BitCtrlClk, gen_dout, Types
    <2> QED BY <1>2, <1>4, <1>5, <1>6, <2>1, <2>2, <2>3
  <1>9. CASE ~scl_i
    <2>1. ~cSCL[1] /\ ~cSCL[2] /\ ~fSCL[1] /\ ~fSCL[2] /\ ~sSCL
      BY <1>1, <1>4, <1>9 DEF Rising
    <2> QED BY <1>5, <1>6, <1>7, <1>9, <2>1
  <1> QED BY <1>8, <1>9

\* The bit read is the level of SDA in the pulse that has just ended.
LEMMA PulseEnds ==
    ASSUME Serves, BitInv, Next, (c_state = "rd_c" /\ clk_en) \/ c_state = "rd_d"
    PROVE  dout' = bus_sda' /\ level' = bus_sda'
  <1>1. BitCtrlClk /\ Types /\ Lines /\ AnswerClk /\ Observe
    BY DEF Next, BitInv
  <1>2. High
    BY RiseEnds DEF BitInv, Scl, Lines, Rises, Highs
  <1>3. dSCL /\ bus_scl
    BY <1>2 DEF High, SclSettled, Settled
  <1>4. isda_oen /\ iscl_oen
    BY <1>1 DEF Lines, Rises, Highs
  <1>5. scl_i /\ sda_i = bus_sda
    BY <1>1, <1>3, <1>4 DEF scl_i, sda_i, Types, Lines
  <1>6. bus_sda' = bus_sda /\ level' = bus_sda
    BY <1>1, <1>5 DEF AnswerClk, Serves, Observe
  <1>7. dout = bus_sda
    BY <1>3 DEF BitInv, Reads
  <1>8. dout' = dout
    BY <1>1, <1>3 DEF BitCtrlClk, gen_dout
  <1> QED BY <1>6, <1>7, <1>8

\* gen_dout takes the level that SDA has in the clock pulse.
LEMMA BitReads ==
    ASSUME Serves, BitInv, Next
    PROVE  Reads'
  <1> USE DEF Firsts, Lows, Rises, Highs
  <1>1. BitCtrlClk /\ Types /\ Lines
    BY DEF Next, BitInv
  <1>2. (c_state = "rd_c" => /\ cSCL[1] => cSDA[1] = bus_sda /\ level = bus_sda
                             /\ cSCL[2] => cSDA[2] = bus_sda
                             /\ fSCL[1] => fSDA[1] = bus_sda
                             /\ fSCL[2] => fSDA[2] = bus_sda
                             /\ sSCL => sSDA = bus_sda
                             /\ dSCL => dout = bus_sda)'
    <2>1. CASE c_state' = "rd_c" /\ Hold
      <3>1. c_state = "rd_c" /\ ~clk_en
        BY <2>1 DEF Hold
      <3> QED BY <3>1, PulseRead
    <2>2. CASE c_state' = "rd_c" /\ Advance
      <3>1. c_state = "rd_b" /\ clk_en
        BY <1>1, <2>2, Steps DEF LeadsTo, Lines, Advance
      <3>2. ~iscl_oen
        BY <1>1, <3>1 DEF Lines
      <3>3. SclAged(FALSE, Elapsed) /\ Elapsed = clk_cnt
        BY <3>1, <3>2 DEF BitInv, Scl, Elapsed
      <3>4. Settled(cSCL, fSCL, sSCL, dSCL, FALSE)
        BY <1>1, <3>3, Periods, AgedEnds DEF SclAged, Types
      <3>5. scl_i = FALSE
        BY <3>2, Zenon DEF scl_i
      <3>6. Passed(FALSE, cSCL, fSCL, sSCL, dSCL, cSCL', fSCL', sSCL', dSCL', filter_cnt)
        BY <1>1, <3>5, Filtered, Zenon
      <3>7. Settled(cSCL', fSCL', sSCL', dSCL', FALSE)
        BY <3>4, <3>6, SettledLow
      <3> QED BY <3>7 DEF Settled
    <2>3. c_state' = "rd_c" => Hold \/ Advance
      BY SclMoves
    <2> QED BY <2>1, <2>2, <2>3
  <1>3. (c_state = "rd_d" => dout = bus_sda /\ level = bus_sda)'
    <2> SUFFICES ASSUME c_state' = "rd_d" PROVE dout' = bus_sda' /\ level' = bus_sda'
      OBVIOUS
    <2>1. (c_state = "rd_c" /\ clk_en) \/ c_state = "rd_d"
      <3>1. CASE Hold
        BY <3>1 DEF Hold
      <3>2. CASE Advance
        BY <1>1, <3>2, Steps DEF LeadsTo, Lines, Advance
      <3> QED BY <3>1, <3>2, SclMoves
    <2> QED BY <2>1, PulseEnds
  <1>4. (cmd_ack /\ cmd = "READ" => dout = level)'
    <2> SUFFICES ASSUME cmd_ack', cmd' = "READ" PROVE dout' = level'
      OBVIOUS
    <2>1. Advance /\ c_state # "idle" /\ c_state' = "idle"
      BY Kinds DEF Hold, Begin, Advance
    <2>2. Command = "READ"
      BY <2>1, Kinds, CommandStays DEF BitInv, Commanded
    <2>3. c_state = "rd_d"
      BY <1>1, <2>1, <2>2, Steps DEF LeadsTo, Lines, Command
    <2> QED BY <2>3, PulseEnds
  <1> QED BY <1>2, <1>3, <1>4 DEF Reads

\* BitInv is inductive.
LEMMA BitKept ==
    ASSUME Serves, BitInv, [Next]_vars
    PROVE  BitInv'
  <1>1. CASE Next
    <2>1. Lines'
      BY <1>1, LinesKept DEF BitInv
    <2> QED BY <1>1, <2>1, BitTypes, BitDivided, BitCommanded, BitScl, BitFree, BitSda,
               BitOwnStop, BitPulsed, BitReads DEF BitInv
  <1>2. CASE UNCHANGED vars
    <2>1. /\ UNCHANGED <<ena, cmd, din, bus_scl, bus_sda, c_state, cmd_ack, iscl_oen, isda_oen, sda_chk>>
          /\ UNCHANGED <<cnt, clk_en, dscl_oen, slave_wait, cSCL, cSDA, fSCL, fSDA, filter_cnt>>
          /\ UNCHANGED <<sSCL, sSDA, dSCL, dSDA, sto_condition, cmd_stop, ial, dout, pulse, level>>
      BY <1>2 DEF vars, inputVars, machineVars, statusVars
    <2>2. Lines' /\ Types' /\ Divided'
      BY <2>1 DEF BitInv, Lines, Types, Divided, Period
    <2>3. Commanded' /\ OwnStop' /\ Pulsed' /\ Reads'
      BY <2>1 DEF BitInv, Commanded, Command, OwnStop, Pulsed, Reads, scl_i
    <2>4. Scl'
      BY <2>1 DEF BitInv, Scl, Falling, Rising, Majority, High, SclSettled, Settled, SclAged,
                  Aged, Elapsed, Period
    <2>5. Free' /\ Sda'
      BY <2>1 DEF BitInv, Free, Sda, SdaSettled, Settled, SdaAged, Aged, Elapsed, Period
    <2> QED BY <2>2, <2>3, <2>4, <2>5 DEF BitInv
  <1> QED BY <1>1, <1>2

\* In every state of a controller that is alone on its bus with slaves, the phase,
\* the divider and the filters agree as BitInv says.
THEOREM BitInvariance == Serves => (Spec => []BitInv)
  <1> SUFFICES ASSUME Serves PROVE Spec => []BitInv
    OBVIOUS
  <1>1. Init => BitInv
    BY BitStarts
  <1>2. BitInv /\ [Next]_vars => BitInv'
    BY BitKept
  <1> QED BY <1>1, <1>2, PTL DEF Spec

-----------------------------------------------------------------------------
(* What follows *)

\* gen_al never reports arbitration lost without a second master: neither a slow
\* slave nor the delay of the filters looks like one.
THEOREM KeepsArbitration == Serves => (Spec => []ArbitrationKept)
  <1>1. BitInv => ArbitrationKept
    BY DEF BitInv, Commanded, ArbitrationKept
  <1> QED BY <1>1, BitInvariance, PTL

\* cmd_ack is given only after a clock pulse on the line, however long the slaves
\* stretch.
THEOREM BitsHavePulses == Serves => (Spec => []PulsePerBit)
  <1>1. BitInv => PulsePerBit
    BY DEF BitInv, Pulsed, PulsePerBit
  <1> QED BY <1>1, BitInvariance, PTL

\* The bit that a READ answers with is the level SDA had in its clock pulse: gen_dout
\* samples neither before the slave's bit is through the filter nor after it has gone.
THEOREM ReadsAreTrue == Serves => (Spec => ReadsTheLine)
  <1>1. BitInv => [cmd_ack /\ cmd = "READ" => dout = level]_vars
    BY DEF BitInv, Reads
  <1> QED BY <1>1, BitInvariance, PTL DEF ReadsTheLine

\* A clock of the controller accepts, works on, finishes or waits for a command.
LEMMA PromisedKinds ==
    ASSUME Lines, ~ial, Hold \/ Begin \/ Advance, Begin => ~cmd_ack
    PROVE  Promise!BitIdle \/ Promise!BitAccept \/ Promise!BitWork \/ Promise!BitFinish
  <1> USE DEF Firsts, Lows, Rises, Highs
  <1>1. ~ial /\ Lines
    OBVIOUS
  <1>2. (Command = "NOP") <=> (c_state = "idle")
    BY <1>1 DEF Command, Lines, States
  <1>3. Stage \in {0, 1, 2} /\ (c_state = "idle" => Stage = 0)
    BY DEF Stage
  <1>4. CASE Hold
    <2>1. cmd_ack' = FALSE /\ c_state' = c_state
      BY <1>4 DEF Hold
    <2>2. Command' = Command /\ Stage' = Stage
      BY <2>1 DEF Command, Stage
    <2>3. Promise!BitIdle \/ Promise!BitWork
      BY <1>1, <2>1, <2>2 DEF Promise!BitIdle, Promise!BitWork
    <2> QED BY <2>3
  <1>5. CASE Begin /\ c_state' = "idle"
    <2>1. cmd_ack' = FALSE /\ c_state = "idle"
      BY <1>5 DEF Begin
    <2>2. Command' = Command /\ Stage' = Stage
      BY <1>5, <2>1 DEF Command, Stage
    <2>3. Promise!BitIdle
      BY <1>1, <1>2, <2>1, <2>2 DEF Promise!BitIdle
    <2> QED BY <2>3
  <1>6. CASE Begin /\ c_state' # "idle"
    <2>1. /\ cmd_ack' = FALSE /\ c_state = "idle" /\ c_state' = Entry[cmd]
          /\ cmd # "NOP" /\ ~cmd_ack
      BY <1>6 DEF Begin, Entry
    <2>2. Command' = cmd /\ Stage' = 0
      BY <1>1, <2>1 DEF Command, Stage, Entry, Lines, Cmds
    <2>3. Promise!BitAccept
      BY <1>1, <1>2, <2>1, <2>2 DEF Promise!BitAccept
    <2> QED BY <2>3
  <1>7. CASE Advance /\ c_state' # "idle"
    <2>1. cmd_ack' = FALSE /\ c_state # "idle"
      BY <1>1, <1>7, Steps DEF LeadsTo, Lines
    <2>2. Command' = Command
      BY <1>1, <1>7, Steps DEF LeadsTo, Lines, Command
    <2>3. Stage' \in {Stage, IF Stage = 2 THEN 2 ELSE Stage + 1}
      <3>1. \/ Stage = 0 /\ Stage' = 1
            \/ Stage = 1 /\ Stage' = 2
            \/ Stage = 2 /\ Stage' = 2
        BY <1>1, <1>7, Steps DEF LeadsTo, Lines, Stage
      <3> QED BY <3>1
    <2>4. Promise!BitWork
      BY <1>1, <1>2, <2>1, <2>2, <2>3 DEF Promise!BitWork
    <2> QED BY <2>4
  <1>8. CASE Advance /\ c_state' = "idle"
    <2>1. cmd_ack' = TRUE /\ c_state # "idle"
      BY <1>1, <1>8, Steps DEF LeadsTo, Lines
    <2>2. Stage = 2
      BY <1>1, <1>8, Steps DEF LeadsTo, Lines, Stage
    <2>3. Command' = "NOP" /\ Stage' = 0
      BY <1>8 DEF Command, Stage
    <2>4. Promise!BitFinish
      BY <1>1, <1>2, <2>1, <2>2, <2>3 DEF Promise!BitFinish
    <2> QED BY <2>4
  <1> QED BY <1>4, <1>5, <1>6, <1>7, <1>8

\* The same for a controller that is alone with its slaves.
LEMMA PromisedStep ==
    ASSUME Serves, BitInv, Next
    PROVE  Promise!BitIdle \/ Promise!BitAccept \/ Promise!BitWork \/ Promise!BitFinish
  <1>1. Lines /\ ~ial
    BY DEF BitInv, Commanded
  <1>2. Begin => ~cmd_ack
    BY Kinds DEF Begin
  <1> QED BY <1>1, <1>2, Kinds, PromisedKinds

\* dout changes only in the last phases of a command.
LEMMA PromisedSample ==
    ASSUME Serves, BitInv, Next
    PROVE  Promise!Sample
  <1> USE DEF Firsts, Lows, Rises, Highs
  <1> DEFINE rxd == IF dout THEN 1 ELSE 0
  <1>1. dout' = IF sSCL /\ ~dSCL THEN sSDA ELSE dout
    BY DEF Next, BitCtrlClk, gen_dout
  <1>2. CASE sSCL /\ ~dSCL
    <2>1. c_state \in Rises
      BY <1>2 DEF BitInv, Scl, High, SclSettled, Settled, Falling
    <2>2. ~clk_en
      BY <1>2, <2>1, RiseEnds DEF BitInv, Scl, High, SclSettled, Settled
    <2>3. c_state' = c_state
      BY <2>2, SclMoves
    <2>4. Stage = 2 /\ Command' # "NOP"
      BY <2>1, <2>3 DEF Stage, Command
    <2>5. rxd' \in {0, 1}
      OBVIOUS
    <2> QED BY <2>4, <2>5 DEF Promise!Sample, Promise!Bit
  <1>3. CASE ~(sSCL /\ ~dSCL)
    <2>1. dout' = dout
      BY <1>1, <1>3, Zenon
    <2>2. rxd' = rxd /\ rxd \in {0, 1}
      BY <2>1
    <2> QED BY <2>2 DEF Promise!Sample, Promise!Bit
  <1> QED BY <1>2, <1>3

\* Every clock of the bit controller is a clock of I2cBitPromise, the abstract
\* controller that I2cCore composes the byte controller with.
THEOREM PromiseKept == Serves => (Spec => KeepsPromise)
  <1> SUFFICES ASSUME Serves PROVE Spec => KeepsPromise
    OBVIOUS
  <1>1. BitInv /\ BitInv' /\ [Next]_vars => [Promise!BitClk]_vars
    <2> SUFFICES ASSUME BitInv, BitInv', Next PROVE Promise!BitClk
      OBVIOUS
    <2>1. ial' = FALSE
      BY DEF BitInv, Commanded, Lines
    <2>2. Promise!Arbitrate
      BY <2>1 DEF Promise!Arbitrate, Promise!Contended, Serves
    <2> QED BY <2>2, PromisedStep, PromisedSample DEF Promise!BitClk
  <1> QED BY <1>1, BitInvariance, PTL DEF Spec, KeepsPromise

-----------------------------------------------------------------------------
(* A contender for SDA *)

\* A released SCL that has shown its rise for n clocks: nothing in the filter is older.
RiseShown(n) ==
    /\ n >= 1 /\ cSCL[1] => bus_scl
    /\ n >= 2 /\ cSCL[2] => cSCL[1]
    /\ n + filter_cnt >= Period + 2 /\ fSCL[1] => cSCL[2]
    /\ n + filter_cnt >= 2 * Period + 2 /\ fSCL[2] => fSCL[1]
    /\ n >= 2 * Period + 3 /\ sSCL => Majority(fSCL)
    /\ n >= 2 * Period + 4 /\ dSCL => sSCL

\* Which command runs, and that its end is not an enabled clock: the next command is not
\* begun by the acknowledge of the last.
Asked ==
    /\ c_state # "idle" => cmd = Command
    /\ ~ena => cmd = "NOP" /\ c_state = "idle" /\ ~cmd_ack /\ ~cmd_stop
    /\ cmd_ack => c_state = "idle" /\ ~clk_en
    /\ ena /\ clk_en => cnt = clk_cnt

\* While a command releases SCL, the time since its phase began tells what of a fall
\* before it can still show; or it has just shown, and has ended the phase.
NoLateFall ==
    c_state # "idle" /\ iscl_oen => RiseShown(Elapsed) \/ (clk_en /\ ~dSCL)

\* The inductive invariant.
FightInv == Lines /\ Types /\ Asked /\ NoLateFall

\* Each clock shows more of the rise of SCL.
LEMMA RiseAges ==
    ASSUME Fights, Lines, Types, Types', BitCtrlClk, StretchClk, iscl_oen, ena,
           NEW n \in Int, NEW m \in Int, m <= n + 1, Elapsed' = m, RiseShown(n)
    PROVE  RiseShown(Elapsed)'
  <1> DEFINE T == Period k == filter_cnt kk == filter_cnt'
  <1>1. T \in Nat \ {0} /\ k \in 0 .. T - 1 /\ kk = IF k = 0 THEN T - 1 ELSE k - 1
    BY Periods, Filtered DEF Types
  <1>2. /\ cSCL'[1] = scl_i /\ cSCL'[2] = cSCL[1]
        /\ sSCL' = Majority(fSCL) /\ dSCL' = sSCL
    BY Filtered DEF Passed
  <1>3. scl_i = bus_scl /\ (bus_scl => bus_scl')
    BY DEF scl_i, StretchClk, Fights, Types, Lines
  <1>4. /\ n >= 1 /\ cSCL[1] => bus_scl
        /\ n >= 2 /\ cSCL[2] => cSCL[1]
        /\ n + k >= T + 2 /\ fSCL[1] => cSCL[2]
        /\ n + k >= 2 * T + 2 /\ fSCL[2] => fSCL[1]
        /\ n >= 2 * T + 3 /\ sSCL => Majority(fSCL)
    BY DEF RiseShown
  <1>5. /\ k = 0 => fSCL'[1] = cSCL[2] /\ fSCL'[2] = fSCL[1] /\ fSCL'[3] = fSCL[2]
        /\ k # 0 => fSCL'[1] = fSCL[1] /\ fSCL'[2] = fSCL[2] /\ fSCL'[3] = fSCL[3]
    BY Filtered DEF Passed
  <1>6. Period' = Period
    BY DEF Period
  <1> HIDE DEF T, k, kk
  <1>7. m >= 1 /\ cSCL'[1] => bus_scl'
    BY <1>2, <1>3
  <1>8. m >= 2 /\ cSCL'[2] => cSCL'[1]
    BY <1>2, <1>3, <1>4
  <1>9. m + kk >= T + 2 /\ fSCL'[1] => cSCL'[2]
    <2> SUFFICES ASSUME m + kk >= T + 2 PROVE fSCL'[1] => cSCL'[2]
      OBVIOUS
    <2>1. CASE k = 0
      <3>1. n >= 2
        BY <1>1, <2>1
      <3> QED BY <1>2, <1>4, <1>5, <2>1, <3>1
    <2>2. CASE k # 0
      <3>1. n >= 2 /\ n + k >= T + 2
        BY <1>1, <2>2
      <3> QED BY <1>2, <1>4, <1>5, <2>2, <3>1
    <2> QED BY <2>1, <2>2
  <1>10. m + kk >= 2 * T + 2 /\ fSCL'[2] => fSCL'[1]
    <2> SUFFICES ASSUME m + kk >= 2 * T + 2 PROVE fSCL'[2] => fSCL'[1]
      OBVIOUS
    <2>1. CASE k = 0
      <3>1. n + k >= T + 2
        BY <1>1, <2>1
      <3> QED BY <1>4, <1>5, <2>1, <3>1
    <2>2. CASE k # 0
      <3>1. n + k >= 2 * T + 2
        BY <1>1, <2>2
      <3> QED BY <1>4, <1>5, <2>2, <3>1
    <2> QED BY <2>1, <2>2
  <1>11. m >= 2 * T + 3 /\ sSCL' => Majority(fSCL')
    <2> SUFFICES ASSUME m >= 2 * T + 3, sSCL' PROVE Majority(fSCL')
      OBVIOUS
    <2>1. /\ fSCL[2] => fSCL[1]
          /\ fSCL[1] => cSCL[2]
      BY <1>1, <1>4
    <2>2. Majority(fSCL) /\ fSCL[1]
      BY <1>2, <2>1 DEF Majority
    <2>3. CASE k = 0
      BY <1>5, <2>1, <2>2, <2>3 DEF Majority
    <2>4. CASE k # 0
      BY <1>5, <2>2, <2>4 DEF Majority
    <2> QED BY <2>3, <2>4
  <1>12. m >= 2 * T + 4 /\ dSCL' => sSCL'
    BY <1>1, <1>2, <1>4
  <1> QED BY <1>6, <1>7, <1>8, <1>9, <1>10, <1>11, <1>12 DEF RiseShown, Majority, T, kk

\* Nothing is known of a phase that has just begun.
LEMMA RiseFresh ==
    ASSUME Fights, Types', Elapsed' \in Int, Elapsed' <= 0
    PROVE  RiseShown(Elapsed)'
  <1> DEFINE n == Elapsed' k == filter_cnt'
  <1>1. n \in Int /\ n <= 0 /\ k \in 0 .. Period - 1 /\ Period \in Nat \ {0}
    BY Periods DEF Types, Period
  <1>2. Period' = Period
    BY DEF Period
  <1> HIDE DEF n, k
  <1>3. ~(n >= 1) /\ ~(n >= 2) /\ ~(n + k >= Period + 2) /\ ~(n + k >= 2 * Period + 2)
        /\ ~(n >= 2 * Period + 3) /\ ~(n >= 2 * Period + 4)
    BY <1>1
  <1> QED BY <1>2, <1>3, Zenon DEF RiseShown, n, k

\* Where a clock takes the divider.
LEMMA FightTicks ==
    ASSUME Fights, FightInv, Next, ena
    PROVE  /\ scl_sync => clk_en' /\ cnt' = clk_cnt
           /\ ~scl_sync /\ clk_en => ~clk_en' /\ Elapsed' <= 0
           /\ ~scl_sync /\ ~clk_en => Elapsed' <= Elapsed + 1
           /\ clk_en' => cnt' = clk_cnt
           /\ Elapsed \in Int /\ Elapsed' \in Int
  <1>1. /\ clk_cnt \in Nat /\ clk_cnt >= 10 /\ cnt \in 0 .. clk_cnt
        /\ clk_en \in BOOLEAN /\ slave_wait \in BOOLEAN
        /\ clk_en => cnt = clk_cnt
    BY Periods DEF FightInv, Types, Asked
  <1>2. /\ cnt = 0 \/ scl_sync => cnt' = clk_cnt /\ clk_en' = TRUE
        /\ cnt # 0 /\ ~scl_sync => clk_en' = FALSE
        /\ cnt # 0 /\ ~scl_sync /\ slave_wait => cnt' = cnt
        /\ cnt # 0 /\ ~scl_sync /\ ~slave_wait => cnt' = cnt - 1
    BY Zenon DEF Next, BitCtrlClk, gen_clken
  <1> DEFINE P == clk_cnt
  <1>3. /\ Elapsed = IF clk_en THEN P ELSE P - 1 - cnt
        /\ Elapsed' = IF clk_en' THEN P ELSE P - 1 - cnt'
    BY DEF Elapsed
  <1> HIDE DEF P
  <1>4. P = clk_cnt
    BY DEF P
  <1>5. CASE scl_sync
    BY <1>1, <1>2, <1>3, <1>4, <1>5
  <1>6. CASE ~scl_sync /\ cnt = 0
    <2>1. cnt' = P /\ clk_en' = TRUE /\ ~clk_en
      BY <1>1, <1>2, <1>4, <1>6
    <2> QED BY <1>1, <1>3, <1>4, <1>6, <2>1
  <1>7. CASE ~scl_sync /\ cnt # 0
    <2>1. clk_en' = FALSE /\ (cnt' = cnt \/ cnt' = cnt - 1)
      BY <1>1, <1>2, <1>7
    <2> QED BY <1>1, <1>3, <1>4, <1>7, <2>1
  <1> QED BY <1>5, <1>6, <1>7

\* It holds when the reset is released, and in the quiet state.
LEMMA FightStarts ==
    ASSUME Fights, Init
    PROVE  FightInv
  <1>1. Lines
    BY LinesStart
  <1>2. /\ ena = FALSE /\ cmd = "NOP" /\ bus_scl = TRUE /\ bus_sda = TRUE
        /\ pulse = FALSE /\ level = TRUE
        /\ c_state = "idle" /\ cmd_ack = FALSE /\ cmd_stop = FALSE
    BY DEF Init, BitCtrlReset, Quiet
  <1>3. Asked /\ NoLateFall
    BY <1>2 DEF Asked, NoLateFall
  <1>4. clk_cnt \in Nat /\ Period \in Nat \ {0}
    BY Periods
  <1>5. /\ cSCL[1] \in BOOLEAN /\ cSCL[2] \in BOOLEAN /\ cSDA[1] \in BOOLEAN /\ cSDA[2] \in BOOLEAN
        /\ fSCL[1] \in BOOLEAN /\ fSCL[2] \in BOOLEAN /\ fSCL[3] \in BOOLEAN
        /\ fSDA[1] \in BOOLEAN /\ fSDA[2] \in BOOLEAN /\ fSDA[3] \in BOOLEAN
    <2>1. \/ cSCL = <<FALSE, FALSE>> /\ cSDA = <<FALSE, FALSE>>
          \/ cSCL = <<TRUE, TRUE>> /\ cSDA = <<TRUE, TRUE>>
      BY DEF Init, BitCtrlReset, Quiet
    <2>2. fSCL = <<TRUE, TRUE, TRUE>> /\ fSDA = <<TRUE, TRUE, TRUE>>
      BY DEF Init, BitCtrlReset, Quiet
    <2>3. /\ cSCL[1] \in BOOLEAN /\ cSCL[2] \in BOOLEAN /\ cSDA[1] \in BOOLEAN /\ cSDA[2] \in BOOLEAN
      <3>1. CASE cSCL = <<FALSE, FALSE>> /\ cSDA = <<FALSE, FALSE>>
        BY <3>1
      <3>2. CASE cSCL = <<TRUE, TRUE>> /\ cSDA = <<TRUE, TRUE>>
        BY <3>2
      <3> QED BY <2>1, <3>1, <3>2
    <2> QED BY <2>2, <2>3
  <1>6. cnt \in 0 .. clk_cnt /\ filter_cnt \in 0 .. Period - 1
    <2>1. cnt \in {0, clk_cnt} /\ filter_cnt = 0
      BY DEF Init, BitCtrlReset, Quiet
    <2> QED BY <1>4, <2>1
  <1>7. /\ clk_en \in BOOLEAN /\ dscl_oen \in BOOLEAN /\ slave_wait \in BOOLEAN
        /\ sSCL \in BOOLEAN /\ sSDA \in BOOLEAN /\ dSCL \in BOOLEAN /\ dSDA \in BOOLEAN
        /\ sto_condition \in BOOLEAN /\ dout \in BOOLEAN
    BY DEF Init, BitCtrlReset, Quiet
  <1>8. Types
    BY <1>2, <1>5, <1>6, <1>7, Zenon DEF Types
  <1> QED BY <1>1, <1>3, <1>8 DEF FightInv

\* A command in progress: what a clock does to it.
LEMMA FightStays ==
    ASSUME Fights, FightInv, Next
    PROVE  /\ c_state # "idle" => cmd # "NOP" /\ ~cmd_ack /\ ena
           /\ cmd # "NOP" /\ ~cmd_ack /\ ~ial => cmd' = cmd
           /\ clk_en => ~cmd_ack
           /\ ial => Abandon
           /\ ~ial => Hold \/ Begin \/ Advance
  <1>1. c_state # "idle" => cmd # "NOP"
    BY DEF FightInv, Asked, Command, Lines, States, Firsts, Lows, Rises, Highs
  <1>2. c_state # "idle" => ~cmd_ack /\ ena
    BY DEF FightInv, Asked
  <1>3. cmd # "NOP" => ena
    BY DEF FightInv, Asked
  <1>4. cmd # "NOP" /\ ~cmd_ack /\ ~ial => cmd' = cmd
    BY <1>3 DEF Next, CommandClk
  <1>5. clk_en => ~cmd_ack
    BY DEF FightInv, Asked
  <1>6. (ial => Abandon) /\ (~ial => Hold \/ Begin \/ Advance)
    BY DEF Next, BitCtrlClk, nxt_state_decoder, Abandon, Hold, Begin, Advance
  <1> QED BY <1>1, <1>2, <1>4, <1>5, <1>6

\* No fall of SCL shows in the clock that ends the last phase of a command.
LEMMA NoSyncAtEnd ==
    ASSUME Fights, FightInv, c_state # "idle", iscl_oen, clk_en
    PROVE  ~scl_sync
  <1>1. Elapsed = clk_cnt /\ (RiseShown(Elapsed) \/ ~dSCL)
    BY DEF Elapsed, FightInv, NoLateFall
  <1> QED BY <1>1, Periods DEF RiseShown, scl_sync

\* NoLateFall: a phase is longer than the filter, or a fall has cut it short.
LEMMA FightLate ==
    ASSUME Fights, FightInv, Next
    PROVE  NoLateFall'
  <1> USE DEF Firsts, Lows, Rises, Highs
  <1> SUFFICES ASSUME c_state' # "idle", iscl_oen'
               PROVE  (RiseShown(Elapsed) \/ (clk_en /\ ~dSCL))'
    BY DEF NoLateFall
  <1>1. BitCtrlClk /\ StretchClk /\ Lines /\ Types /\ Types'
    BY TypesKept DEF Next, FightInv
  <1>2. ~ial
    BY FightStays DEF Abandon
  <1>3. ena
    <2>1. CASE c_state # "idle"
      BY <2>1, FightStays
    <2>2. CASE c_state = "idle"
      <3>1. Begin
        BY <1>2, <2>2, FightStays DEF Hold, Advance
      <3>2. cmd # "NOP"
        BY <3>1 DEF Begin, Entry
      <3> QED BY <3>2 DEF FightInv, Asked
    <2> QED BY <2>1, <2>2
  <1>4. CASE scl_sync
    <2>1. clk_en'
      BY <1>3, <1>4, FightTicks
    <2>2. dSCL' = sSCL /\ ~sSCL
      BY <1>1, <1>4, Filtered DEF Passed, scl_sync
    <2> QED BY <2>1, <2>2
  <1>5. CASE ~scl_sync /\ clk_en
    BY <1>1, <1>3, <1>5, FightTicks, RiseFresh
  <1>6. CASE ~scl_sync /\ ~clk_en
    <2>1. c_state' = c_state /\ iscl_oen' = iscl_oen
      BY <1>2, <1>6, FightStays DEF Hold, Begin, Advance
    <2>2. RiseShown(Elapsed)
      BY <1>6, <2>1 DEF FightInv, NoLateFall
    <2>3. RiseShown(Elapsed)'
      BY <1>1, <1>3, <1>6, <2>1, <2>2, FightTicks, RiseAges DEF Lines
    <2> QED BY <2>3
  <1> QED BY <1>4, <1>5, <1>6

\* An acknowledge is followed by a whole phase, whatever the contender does.
LEMMA FightAsked ==
    ASSUME Fights, FightInv, Next
    PROVE  Asked'
  <1> USE DEF Firsts, Lows, Rises, Highs
  <1>1. BitCtrlClk /\ CommandClk /\ EnableClk /\ Lines /\ Types
    BY DEF Next, FightInv
  <1>2. c_state' # "idle" => cmd' = Command'
    <2> SUFFICES ASSUME c_state' # "idle" PROVE cmd' = Command'
      OBVIOUS
    <2>1. ~ial
      BY FightStays DEF Abandon
    <2>2. CASE Hold
      <3>1. c_state' = c_state /\ Command' = Command
        BY <2>2 DEF Hold, Command
      <3> QED BY <2>1, <3>1, FightStays DEF FightInv, Asked
    <2>3. CASE Begin
      <3>1. c_state' = Entry[cmd] /\ clk_en
        BY <2>3 DEF Begin
      <3>2. cmd # "NOP"
        BY <3>1 DEF Entry
      <3>3. cmd' = cmd
        BY <2>1, <3>1, <3>2, FightStays
      <3> QED BY <1>1, <3>1, <3>3 DEF Entry, Command, Lines, Cmds
    <2>4. CASE Advance
      <3>1. c_state # "idle"
        BY <2>4 DEF Advance
      <3>2. cmd' = cmd /\ cmd = Command
        BY <2>1, <3>1, FightStays DEF FightInv, Asked
      <3>3. Command' = Command
        BY <1>1, <2>4, Steps DEF LeadsTo, Lines, Command
      <3> QED BY <3>2, <3>3
    <2> QED BY <2>1, <2>2, <2>3, <2>4, FightStays
  <1>3. ~ena' => cmd' = "NOP" /\ c_state' = "idle" /\ ~cmd_ack' /\ ~cmd_stop'
    <2> SUFFICES ASSUME ~ena' PROVE cmd' = "NOP" /\ c_state' = "idle" /\ ~cmd_ack' /\ ~cmd_stop'
      OBVIOUS
    <2>1. cmd' = "NOP" /\ cmd = "NOP" /\ c_state = "idle" /\ ~cmd_stop
      BY <1>1 DEF EnableClk, CommandClk, FightInv, Asked
    <2>2. c_state' = "idle" /\ ~cmd_ack'
      BY <2>1, FightStays DEF Hold, Begin, Advance, Entry, Abandon
    <2>3. ~cmd_stop'
      BY <1>1, <2>1 DEF BitCtrlClk, gen_al
    <2> QED BY <2>1, <2>2, <2>3
  <1>4. cmd_ack' => c_state' = "idle" /\ ~clk_en'
    <2> SUFFICES ASSUME cmd_ack' PROVE c_state' = "idle" /\ ~clk_en'
      OBVIOUS
    <2>1. Advance /\ c_state # "idle" /\ c_state' = "idle" /\ clk_en
      BY FightStays DEF Hold, Begin, Advance, Abandon
    <2>2. iscl_oen
      BY <1>1, <2>1, Steps DEF LeadsTo, Lines
    <2>3. ~scl_sync /\ ena
      BY <2>1, <2>2, NoSyncAtEnd, FightStays
    <2> QED BY <2>1, <2>3, FightTicks
  <1>5. ena' /\ clk_en' => cnt' = clk_cnt
    BY <1>1, Zenon DEF BitCtrlClk, gen_clken
  <1> QED BY <1>2, <1>3, <1>4, <1>5 DEF Asked

\* Command, phase, divider and the filter of SCL agree as FightInv says, while another
\* device changes SDA.
THEOREM FightInvariance == Fights => (Spec => []FightInv)
  <1> SUFFICES ASSUME Fights PROVE Spec => []FightInv
    OBVIOUS
  <1>1. Init => FightInv
    BY FightStarts
  <1>2. FightInv /\ [Next]_vars => FightInv'
    <2> SUFFICES ASSUME FightInv, [Next]_vars PROVE FightInv'
      OBVIOUS
    <2>1. CASE Next
      BY <2>1, LinesKept, TypesKept, FightAsked, FightLate DEF FightInv
    <2>2. CASE UNCHANGED vars
      <3>1. /\ UNCHANGED <<ena, cmd, din, bus_scl, bus_sda, c_state, cmd_ack, iscl_oen, isda_oen, sda_chk>>
            /\ UNCHANGED <<cnt, clk_en, dscl_oen, slave_wait, cSCL, cSDA, fSCL, fSDA, filter_cnt>>
            /\ UNCHANGED <<sSCL, sSDA, dSCL, dSDA, sto_condition, cmd_stop, ial, dout, pulse, level>>
        BY <2>2 DEF vars, inputVars, machineVars, statusVars
      <3>2. Lines' /\ Types' /\ Asked'
        BY <3>1 DEF FightInv, Lines, Types, Asked, Command, Period
      <3>3. NoLateFall'
        BY <3>1 DEF FightInv, NoLateFall, RiseShown, Elapsed, Period, Majority
      <3> QED BY <3>2, <3>3 DEF FightInv
    <2> QED BY <2>1, <2>2
  <1> QED BY <1>1, <1>2, PTL DEF Spec

\* A clock of the fought-over controller, arbitration lost or not, is one of the promise.
LEMMA FoughtStep ==
    ASSUME Fights, FightInv, Next
    PROVE  Promise!BitClk
  <1> USE DEF Firsts, Lows, Rises, Highs
  <1>1. Lines
    BY DEF FightInv
  <1>2. Promise!BitIdle \/ Promise!BitAccept \/ Promise!BitWork \/ Promise!BitFinish \/ Promise!BitLost
    <2>1. CASE ial
      <3>1. c_state' = "idle" /\ cmd_ack' = FALSE
        BY <2>1, FightStays DEF Abandon
      <3>2. Command' = "NOP" /\ Stage' = 0
        BY <3>1 DEF Command, Stage
      <3>3. Promise!BitLost
        BY <2>1, <3>1, <3>2 DEF Promise!BitLost
      <3> QED BY <3>3
    <2>2. CASE ~ial
      <3>1. Hold \/ Begin \/ Advance
        BY <2>2, FightStays
      <3>2. Begin => ~cmd_ack
        BY FightStays DEF Begin
      <3> QED BY <1>1, <2>2, <3>1, <3>2, PromisedKinds
    <2> QED BY <2>1, <2>2
  <1>3. Promise!Arbitrate
    <2>1. ial' => c_state \in {"idle", "wr_d"}
      BY <1>1 DEF Next, BitCtrlClk, gen_al, Lines
    <2>2. ial' \in BOOLEAN
      BY LinesKept DEF FightInv, Lines
    <2>3. c_state \in {"idle", "wr_d"} => Promise!Contended
      BY DEF Promise!Contended, Command, Stage, Fights
    <2> QED BY <2>1, <2>2, <2>3 DEF Promise!Arbitrate
  <1>4. Promise!Sample
    <2> DEFINE rxd == IF dout THEN 1 ELSE 0
    <2>1. rxd' \in {0, 1}
      OBVIOUS
    <2> QED BY <2>1 DEF Promise!Sample, Promise!Bit, Fights
  <1> QED BY <1>2, <1>3, <1>4 DEF Promise!BitClk

\* With a device that fights for SDA every clock of the bit controller is a clock of
\* I2cBitPromise: arbitration may be lost, but no command is begun twice.
THEOREM PromiseKeptContended == Fights => (Spec => KeepsPromise)
  <1> SUFFICES ASSUME Fights PROVE Spec => KeepsPromise
    OBVIOUS
  <1>1. FightInv /\ [Next]_vars => [Promise!BitClk]_vars
    BY FoughtStep
  <1> QED BY <1>1, FightInvariance, PTL DEF Spec, KeepsPromise
=============================================================================
