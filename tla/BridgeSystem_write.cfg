\* The same system: does the register hold the data that WREADY has taken?
SPECIFICATION Spec
CONSTANTS
    Addr <- TwoAddresses
    Data <- TwoValues
INVARIANT WritesLand
