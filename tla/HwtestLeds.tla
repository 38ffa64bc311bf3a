----------------------------- MODULE HwtestLeds -----------------------------
(***************************************************************************)
(* The processes p_tick and p_leds of the hardware test top, clocked by    *)
(* ps_clk_i: while the push button is up, the eight lamps (green 0 to 3,   *)
(* red 4 to 7) light one by one; while it is down, all the red ones do.    *)
(***************************************************************************)
EXTENDS Naturals, FiniteSets

CONSTANT c_FLASH   \* what the tick counter counts to; like 40000000 a multiple of 8

ASSUME FlashAssumption == c_FLASH \in Nat \ {0} /\ c_FLASH % 8 = 0

VARIABLES
    pb_gp_n_i,          \* the push button, 0 while it is down
    v_cntr, s_tick,     \* p_tick
    v_pbreg, v_shift,   \* p_leds: the button synchroniser; the bits that are '1'
    led_line_en_pl_o, led_line_pl_o, led_col_pl_o,
    shown               \* history: v_shift when the tick last began to rise

ledVars == <<pb_gp_n_i, v_cntr, s_tick, v_pbreg, v_shift,
             led_line_en_pl_o, led_line_pl_o, led_col_pl_o, shown>>

\* Mutant: the tick is a clock shorter.
p_tick_Short ==
    IF v_cntr < c_FLASH - 1
    THEN v_cntr' = v_cntr + 1 /\ UNCHANGED s_tick
    ELSE v_cntr' = 0 /\ s_tick' = ~s_tick

p_tick ==
    IF v_cntr < c_FLASH
    THEN v_cntr' = v_cntr + 1 /\ UNCHANGED s_tick
    ELSE v_cntr' = 0 /\ s_tick' = ~s_tick

\* Mutant: the last bit is lost.
Rotated_Shifted(bits) == {b + 1 : b \in bits \ {7}}

Rotated(bits) == {(b + 1) % 8 : b \in bits}

Nibble(bits, first) == {b \in 0 .. 3 : first + b \in bits}

\* v_pbreg, written as v_pbreg(0), v_pbreg(1), v_pbreg(2), and v_shift are
\* variables: the outputs use their new values.
p_leds ==
    /\ v_pbreg' = <<pb_gp_n_i, v_pbreg[1], v_pbreg[2]>>
    /\ v_shift' = IF s_tick THEN Rotated(v_shift) ELSE v_shift
    /\ IF v_pbreg'[3] = 0
       THEN led_line_en_pl_o' = 1 /\ led_line_pl_o' = 1 /\ led_col_pl_o' = {}
       ELSE IF Nibble(v_shift', 0) # {}
       THEN led_line_en_pl_o' = 0 /\ led_line_pl_o' = 0 /\ led_col_pl_o' = Nibble(v_shift', 0)
       ELSE IF Nibble(v_shift', 4) # {}
       THEN led_line_en_pl_o' = 1 /\ led_line_pl_o' = 0
            /\ led_col_pl_o' = (0 .. 3) \ Nibble(v_shift', 4)
       ELSE UNCHANGED <<led_line_en_pl_o, led_line_pl_o, led_col_pl_o>>

\* "Anode green / cathode red": the enabled line selects the colour.
Lamps == IF led_line_en_pl_o = 0 THEN led_col_pl_o ELSE {4 + b : b \in (0 .. 3) \ led_col_pl_o}

\* s_tick and the outputs have no initial value.
LedInit ==
    /\ v_cntr = 0 /\ s_tick \in BOOLEAN
    /\ v_pbreg = <<0, 0, 0>> /\ v_shift = {0} /\ pb_gp_n_i \in {0, 1}
    /\ led_line_en_pl_o \in {0, 1} /\ led_line_pl_o \in {0, 1} /\ led_col_pl_o \in {{}, 0 .. 3}
    /\ shown = {0}

\* The LEDs while their clock stands still.
LedRest ==
    /\ v_cntr = 0 /\ s_tick = FALSE
    /\ v_pbreg = <<0, 0, 0>> /\ v_shift = {0} /\ pb_gp_n_i = 1
    /\ led_line_en_pl_o = 0 /\ led_line_pl_o = 0 /\ led_col_pl_o = {} /\ shown = {0}

LedClk ==
    /\ p_tick /\ p_leds /\ pb_gp_n_i' \in {0, 1}
    /\ shown' = IF ~s_tick /\ s_tick' THEN v_shift' ELSE shown

-----------------------------------------------------------------------------
(* The lamp that stays lit while the tick is low is the one after the lamp *)
(* that was lit the last time: "light one by one (4x green, 4x red)".  The *)
(* register turns in every clock of a high tick, so this rests on its      *)
(* length, c_FLASH + 1 clocks, being 1 modulo 8.                           *)
OneByOne ==
    [][s_tick /\ ~s_tick' /\ v_pbreg'[3] = 1 =>
         \E lamp \in 0 .. 7 : shown = {lamp} /\ Lamps' = {(lamp + 1) % 8}]_ledVars
=============================================================================
