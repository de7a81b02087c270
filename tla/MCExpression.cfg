CONSTANTS
    Trees <- MCTrees
    Words <- MCWords
    Junk <- MCJunk
    Strings <- MCStrings
SPECIFICATION FairSpec
INVARIANTS
    ResultIsMeaning
    DivisionIsGuarded
    TypeErrorsFound
PROPERTY Finishes
CHECK_DEADLOCK FALSE
