CONSTANTS
    Names <- Distinct
    NULL <- MCNULL
    InitialRoom = 1
    MaxStatements = 3
    MaxLabels = 4
SPECIFICATION Spec
INVARIANTS
    OneIndexPerName
    IndicesInBounds
    ReferencesResolve
CHECK_DEADLOCK FALSE
