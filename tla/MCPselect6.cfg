SPECIFICATION Spec
CONSTANTS
    BUF_SIZE = 2
    Calls = {"pselect6"}
    Args <- ZeroArgs
    Rvals <- GoodRvals
    MaxCalls = 1
    Faults = {}
    Divergence = "none"
PROPERTIES
    Terminates
CHECK_DEADLOCK FALSE
