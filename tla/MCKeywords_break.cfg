CONSTANTS
    Lines <- Break
    Words = {5, 300}
    Junk = {0, 51966}
    WorkPages = {0}
    Failing = {}
SPECIFICATION Spec
CHECK_DEADLOCK FALSE
INVARIANT CallsOfTheStatement
