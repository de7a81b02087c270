CONSTANTS
    Programs <- BackwardGoto
    Nodes <- MCNodes
    NULL <- MCNULL
    Labels <- MCLabels
SPECIFICATION Spec
INVARIANT BackwardJumpsLand
CHECK_DEADLOCK FALSE
