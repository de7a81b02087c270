CONSTANTS
    Lines <- MCLines
    Words = {5, 300}
    Junk = {0, 51966}
    WorkPages = {0}
    Failing = {"os_remove_file", "os_load_file"}
SPECIFICATION Spec
CHECK_DEADLOCK FALSE
INVARIANTS
    CallsOfTheStatement
    ResultsStored
    StaysOnInstructions
    DisassemblyInStep
    LeavesRightly
PROPERTY Finishes
