CONSTANTS
    Programs <- MCPrograms
    Nodes <- MCNodes
    NULL <- MCNULL
    Labels <- MCLabels
SPECIFICATION Spec
INVARIANTS
    StructuredJumpsLand
    ForwardJumpsLand
    NoJumpLeftOpen
    FallThroughExits
PROPERTIES
    ImplementsFixups
CHECK_DEADLOCK FALSE
