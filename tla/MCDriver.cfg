CONSTANTS
    SourceLengths <- MCSourceLengths
    CodeLengths <- MCCodeLengths
SPECIFICATION Spec
INVARIANT PhasesRunClean
CHECK_DEADLOCK FALSE
