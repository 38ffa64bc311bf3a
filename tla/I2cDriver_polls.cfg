\* A lone master whose transfers may outlast the polls, calls spaced out;
\* the processor goes on, a slave may stretch SCL for ever.
SPECIFICATION FairSpec
CONSTANTS
    Width = 2
    MultiMaster = FALSE
    ControlWrite <- MCControlWrite
    ControlRead <- MCControlRead
    High <- MCHigh
    Low <- MCLow
    Value <- MCValue
    TIMEOUT = 2
    Patient = TRUE
INVARIANTS DataIsGenuine BusReleased
PROPERTIES SuccessMeansDone AnswerIsFresh TakenWhenFinished CallReturns
