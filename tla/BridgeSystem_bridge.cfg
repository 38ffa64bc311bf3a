\* The bridge behind the crossbar, every order of address, data and response.
SPECIFICATION FairSpec
CONSTANTS
    Addr <- TwoAddresses
    Data <- TwoValues
PROPERTIES AccessesKeepToThemselves ResponsesStay EveryAccessIsAnswered
