CONSTANTS
    Texts <- MCTexts
    Rests <- MCRests
    QUOTE = "quote"
    NUL = "nul"
    InitialRoom = 1
    MaxStrings = 5
SPECIFICATION Spec
INVARIANTS
    StringsIntact
    AddressesReachText
CHECK_DEADLOCK FALSE
