SPECIFICATION FairSpec
CONSTANTS
    d1 = d1
    u1 = u1
    NULL = NULL
    XDMAPS_CHANNELS_PER_DEV = 2
    Commands <- TwoCommands
    UserDmaProg <- OneProgram
    XDMAPS_MAX_CHAN_BUFS = 2
    Patient = TRUE
    EndsInTime = TRUE
    FaultsWait = FALSE
    TimesOut <- CallsOnly
PROPERTIES ComesBack
