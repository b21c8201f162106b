SPECIFICATION Spec
CONSTANTS
    Pages = 4
    MaxCalls = 3
    Habits = {"part", "span", "fixed"}
INVARIANTS
    NoSharedWritable
