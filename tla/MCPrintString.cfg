CONSTANTS
    Texts <- MCTexts
    Inks = {7}
    Pages = {0, 1}
SPECIFICATION FairSpec
INVARIANTS
    PrintsTheText
    StackBalanced
PROPERTY Returns
CHECK_DEADLOCK FALSE
