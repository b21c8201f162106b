SPECIFICATION Spec
CONSTANTS
    BUF_SIZE = 24
    LOCAL_SIZE = 24
    SIZE_MOD = 64
    Requests <- AnyRequest
    Sources <- AnySource
    Dests <- AnyDest
    Locals <- Buffer
INVARIANTS
    TypeOK
    CopiesWords
    LeavesRest
    StaysLocal
    ReadsWords
    FitsOutcome
PROPERTIES
    Ends
