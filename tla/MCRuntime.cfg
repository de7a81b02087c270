CONSTANT BlobLengths <- MCBlobLengths
SPECIFICATION FairSpec
INVARIANTS
    RuntimeInPlace
    CallsReachTarget
    ProgramIsShown
PROPERTY ProgramBegins
CHECK_DEADLOCK FALSE
