CONSTANTS
    CR = "r"
    LF = "n"
    Setups <- MCDosSetups
    Nap = 3
    MaxRounds = 1
SPECIFICATION Spec
INVARIANTS Delivers
CHECK_DEADLOCK FALSE
