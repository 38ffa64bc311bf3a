SPECIFICATION FairSpec
CONSTANTS
    d1 = d1
    u1 = u1
    NULL = NULL
    XDMAPS_CHANNELS_PER_DEV = 2
    Commands <- TwoCommands
    UserDmaProg <- OneProgram
    XDMAPS_MAX_CHAN_BUFS = 2
    Patient = TRUE
    EndsInTime = TRUE
    FaultsWait = TRUE
    TimesOut <- CallsOnly
INVARIANTS TypeOK BuffersAreOwned ProgramsStay FaultHasCommand SuccessMeansMoved
PROPERTIES NotOverwritten ComesBack
