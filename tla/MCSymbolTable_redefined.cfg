CONSTANTS
    Names <- Distinct
    NULL <- MCNULL
    InitialRoom = 8
    MaxStatements = 2
    MaxLabels = 2
SPECIFICATION Spec
INVARIANT FirstDefinitionStays
CHECK_DEADLOCK FALSE
