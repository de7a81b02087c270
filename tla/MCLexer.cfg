SPECIFICATION Spec
CONSTANTS
    Texts <- MCTexts
    Files <- MCFiles
    Memory <- MCMemory
INVARIANTS
    TokensAreTheLexemes
    OnlyTheMalformedIsRefused
    FirstIncludeIsRead
PROPERTIES
    EofIsReached
CHECK_DEADLOCK FALSE
