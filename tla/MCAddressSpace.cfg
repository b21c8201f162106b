SPECIFICATION Spec
CONSTANTS
    Pages = 4
    MaxCalls = 5
    Habits = {}
INVARIANTS
    TypeOK
    NoSharedWritable
    TableExact
    JustRefusal
