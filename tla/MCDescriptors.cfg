SPECIFICATION Spec
CONSTANTS
    BUF_SIZE = 2
    FileSize = 3
    MaxFd = 2
    MaxPos = 4
    MaxCalls = 6
    Habits = {}
INVARIANTS
    TypeOK
    Transparent
    FdsAlike
    FileOnce
