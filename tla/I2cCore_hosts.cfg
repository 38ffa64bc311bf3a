\* A host that writes TXR and CR whenever it likes, or one that waits for TIP = 0,
\* on a shared bus; a fair clock and slaves that release SCL in the end.
SPECIFICATION FairSpec
CONSTANTS
    Width = 2
    MultiMaster = TRUE
    Words <- OneWord
    Commands <- HostCommandSet
INVARIANTS TypeOK CmdHeld WholeFrames FrameAsCommanded
PROPERTIES DataHeld AckHeld RunsOnce TipFalls TransferEnds
