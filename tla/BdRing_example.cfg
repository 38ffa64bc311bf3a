\* The user that the example program is: it clears nothing.
SPECIFICATION Spec
CONSTANTS
    AllCnt = 4
    Directions = {"SEND", "RECV"}
    MaxSend = 1
    MaxRecv = 3
    Careful = TRUE
    Clears = FALSE
    Wrap = 16
INVARIANTS ReturnedProcessed
