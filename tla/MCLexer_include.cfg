SPECIFICATION Spec
CONSTANTS
    Texts <- TwoFiles
    Files <- MCFiles
    Memory <- MCMemory
INVARIANT EveryIncludeIsRead
CHECK_DEADLOCK FALSE
