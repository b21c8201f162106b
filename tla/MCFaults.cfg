SPECIFICATION Spec
CONSTANTS
    BUF_SIZE = 2
    Calls <- AllWays
    Args <- FewArgs
    Rvals <- RawRvals
    MaxCalls = 2
    Faults = {"start", "kill", "signal"}
    Divergence = "any"
INVARIANTS
    Rendezvous
    AgreedCalls
    ScalarsAgree
    MasterOnly
    IInv
PROPERTIES
    MasterFirst
    DeathNoticed
    ImplementsLockstep
CHECK_DEADLOCK FALSE
