SPECIFICATION TaintSpec
CONSTANTS
    Registers <- MCRegisters
    TaintMethods <- ScalarMethods
    Callees <- MCCallees
    SourceApis = {"source"}
    SinkApis = {"sink"}
    OverrideMaps <- NoOverrideMaps
CHECK_DEADLOCK FALSE
INVARIANTS
    SoundForAcyclicPaths
