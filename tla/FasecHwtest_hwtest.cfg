SPECIFICATION FairSpec
CONSTANTS
    g_MAXREAD = 2
    g_MAXWRITE = 2
    Addr <- ThreeAddresses
    Data <- TwoValues
    c_FLASH = 8
    g_FMC = "EDA-02327"
INVARIANTS PinDataIsFresh
PROPERTIES EveryAccessIsAnswered KeepsBank OneByOne
