SPECIFICATION Spec
CONSTANTS
    BUF_SIZE = 2
    Calls = {"brk"}
    Args <- ZeroArgs
    Rvals <- GoodRvals
    MaxCalls = 1
    Faults = {"signal"}
    Divergence = "none"
INVARIANTS
    NoneOutlives
