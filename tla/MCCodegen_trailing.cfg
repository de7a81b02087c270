CONSTANTS
    Programs <- TrailingLabel
    Nodes <- MCNodes
    NULL <- MCNULL
    Labels <- MCLabels
SPECIFICATION Spec
INVARIANT NoJumpLeftOpen
CHECK_DEADLOCK FALSE
