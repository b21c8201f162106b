SPECIFICATION Spec
CONSTANTS
    BUF_SIZE = 16
    CHUNK = 4
    FSTAT_CHUNK = 3
    Memories <- AnyMemory
    Sizes <- SomeSizes
    MaxCalls = 1
INVARIANTS
    StrDocumented
