SPECIFICATION Spec
CONSTANTS
    v = v
    p = p
    NumBlocks = 4
    Terminators <- MCTerminators
    TryRanges <- MCTryRanges
    HandlerLists <- MCHandlerLists
    Regs = {v, p}
    Params <- MCParams
    Definitions <- MCDefinitions
CHECK_DEADLOCK FALSE
INVARIANTS
    DominatorsCorrect
    FrontierCorrect
    LoopHeadersCutCycles
    VersionsMeet
    PhiSourcesComplete
PROPERTIES
    Terminates
