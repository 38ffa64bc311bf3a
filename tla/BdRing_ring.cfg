\* A user that limits what it asks for and clears the BDs it receives into;
\* packets of one BD to send, of up to three to receive.
SPECIFICATION FairSpec
CONSTANTS
    AllCnt = 4
    Directions = {"SEND", "RECV"}
    MaxSend = 1
    MaxRecv = 3
    Careful = TRUE
    Clears = TRUE
    Wrap = 16
INVARIANTS TypeOK Consistent
PROPERTIES KeepsQueues CallsReturn PacketsComeBack
