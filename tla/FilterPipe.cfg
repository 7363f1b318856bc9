CONSTANTS
    CR = "r"
    LF = "n"
    Setups <- MCSetups
    Nap = 3
    MaxRounds = 2
SPECIFICATION FairSpec
INVARIANTS Delivers StarvesOnlyWhenSlow
PROPERTIES PipeReturns
CHECK_DEADLOCK FALSE
