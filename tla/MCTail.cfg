SPECIFICATION Spec
CONSTANTS
    BUF_SIZE = 24
    LOCAL_SIZE = 24
    SIZE_MOD = 64
    Requests <- AnyRequest
    Sources <- FullSource
    Dests <- FullDest
    Locals <- Buffer
INVARIANTS
    CopiesAnySize
