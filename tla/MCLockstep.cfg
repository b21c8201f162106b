SPECIFICATION Spec
CONSTANTS
    BUF_SIZE = 2
    Calls <- SoundCalls
    Args <- PermArgs
    Rvals <- GoodRvals
    MaxCalls = 3
    Faults = {}
    Divergence = "none"
INVARIANTS
    TypeOK
    Accounted
    SameResult
    PartnerWaiting
    NoFalseAlarm
PROPERTIES
    Terminates
