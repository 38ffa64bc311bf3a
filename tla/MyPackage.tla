------------------------------ MODULE MyPackage ------------------------------
(***************************************************************************)
(* The functions of the library package of the FPGA code, with the facts   *)
(* about them that its users rely on.  TLC evaluates the assumptions.      *)
(***************************************************************************)
EXTENDS Naturals, Sequences

BCD_D     == 4
BCD_WIDTH == 16

\* The loop of clogb2: the bits it takes to write n, and one for zero.
clogb2(n) ==
    LET count[depth \in 0 .. n] == IF depth <= 1 THEN 1 ELSE 1 + count[depth \div 2]
    IN  IF n <= 2 THEN 1 ELSE count[n]

\* The internal XADC address as the AXI XADC block maps it.
xadc_to_axi(xadc, length) == ((xadc + 128) * 4) % 2^length

\* One turn of to_bcd: a bit is shifted in and, in all but the last turn, 3 is
\* added to every digit that the next shift would take past 9.
Turned(bcd, bit, last) ==
    LET shifted(d) == (2 * bcd[d] + (IF d = 1 THEN bit ELSE bcd[d - 1] \div 8)) % 16
        digit(d) == IF shifted(d) > 4 /\ ~last THEN (shifted(d) + 3) % 16 ELSE shifted(d)
    IN  <<digit(1), digit(2), digit(3), digit(4)>>

\* The digits, the lowest one first.
to_bcd(bin) ==
    LET bit(i) == (bin \div 2^(BCD_WIDTH - i)) % 2
        turn[i \in 0 .. BCD_WIDTH] ==
            IF i = 0 THEN <<0, 0, 0, 0>> ELSE Turned(turn[i - 1], bit(i), i = BCD_WIDTH)
    IN  turn[BCD_WIDTH]

\* "The value of the ceiling of the log base 2" is what the comment promises;
\* what the register slave needs is that clogb2(n) bits address n words, and that
\* at most one of them is one too many.
ASSUME EnoughAddressBits == \A n \in 1 .. 256 : 2^clogb2(n) \in n .. 2 * n

\* The four low decimal digits, for every input; the fifth is lost.
ASSUME DigitsAreDecimal ==
    \A bin \in {b \in 0 .. 65535 : b % 37 = 0 \/ b < 300 \/ b > 65000} :
        to_bcd(bin) = [d \in 1 .. BCD_D |-> (bin \div 10^(d - 1)) % 10]
=============================================================================
