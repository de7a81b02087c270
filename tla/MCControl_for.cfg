CONSTANTS
    Bodies <- ToTheLast
    Variables = {0}
    Words = {0}
    Junk = {51966}
    Fuel = 60
SPECIFICATION Spec
PROPERTY EndsWhenMeant
CHECK_DEADLOCK FALSE
