CONSTANTS
    Bodies <- MCBodies
    Variables = {0, 1}
    Words = {0, 2, 65535}
    Junk = {51966}
    Fuel = 60
SPECIFICATION Spec
INVARIANTS
    VariablesAreMeant
    DisassemblyInStep
PROPERTY EndsWhenMeant
CHECK_DEADLOCK FALSE
