\* The next call starts while the STOP of a refused one is under way.
SPECIFICATION Spec
CONSTANTS
    Width = 2
    MultiMaster = FALSE
    ControlWrite <- MCControlWrite
    ControlRead <- MCControlRead
    High <- MCHigh
    Low <- MCLow
    Value <- MCValue
    TIMEOUT = 1
    Patient = FALSE
PROPERTIES SuccessMeansDone
