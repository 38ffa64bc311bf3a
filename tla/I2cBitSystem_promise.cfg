\* A prescale that leaves room for the input filters; slaves let go of SCL in the end.
SPECIFICATION FairSpec
CONSTANTS
    clk_cnt = 24
    FromReset = FALSE
    Others = "slaves"
INVARIANTS ArbitrationKept PulsePerBit
PROPERTIES KeepsPromise ReadsTheLine OnlyStartStopMoveSDA CommandsEnd
