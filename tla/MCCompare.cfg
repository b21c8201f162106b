SPECIFICATION Spec
CONSTANTS
    BUF_SIZE = 16
    CHUNK = 4
    FSTAT_CHUNK = 3
    Memories <- AnyMemory
    Sizes <- SomeSizes
    MaxCalls = 2
INVARIANTS
    TypeOK
    StrSound
    PrefixOutcome
    MemOutcome
PROPERTIES
    Ends
