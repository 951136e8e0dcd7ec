SPECIFICATION StructSpec
CONSTANTS
    NumBlocks = 13
    Terminators <- MCTerminators
    TryRanges = {{}}
    HandlerLists <- NoHandlers
    Programs <- StraightPrograms
    MaxStatements = 4
INVARIANTS
    JavaKeepsFlow
CHECK_DEADLOCK FALSE
