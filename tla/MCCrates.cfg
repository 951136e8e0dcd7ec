SPECIFICATION CratesSpec
CONSTANTS
    ByteBits = 2
    ShortBits = 3
    BackBits = 3
    IntBits = 4
    MaxArray = 3
    Cases <- MCCases
    NumBlocks = 13
    Terminators <- MCTerminators
    TryRanges = {{}}
    HandlerLists <- NoHandlers
    Programs <- RecoverablePrograms
    MaxStatements = 5
    Registers <- MCRegisters
    TaintMethods <- MCTaintMethods
    Callees <- MCCallees
    SourceApis = {"source"}
    SinkApis = {"sink"}
    OverrideMaps <- MCOverrideMaps
    Refs <- MCRefs
    Targets = {"main"}
    CallsOf <- MCCallsOf
    Similar <- MCSimilar
    Requests = {q1, q2}
    MaxBuilds = 2
    NoRef = "none"
    Sites = {a}
    MaxDepth = 2
    Batch = 3
    DefaultCap = 4
    CapRequests <- MCCapRequests
    MaxIndex = 5
    Names = {"classes.dex", "META-INF/MANIFEST.MF"}
    SignatureNames = {"META-INF/MANIFEST.MF"}
    Data = {"old", "new"}
    Keys = {k1, k2}
    Apks <- MCApks
    NoApk = NoApk
    Truncated = Truncated
    Sidecars = {FALSE}
    MaxAdditions = 1
    pure = pure
    remembering = remembering
    Methods = {pure, remembering}
    SitesOf <- MCSitesOf
    Remembering = {remembering}
    Bulks = {b1, b2}
    BatchSize = 2
    Threads = {1, 3}
    MaxRuns = 2
    Dexes <- MCDexes
    AskedTypes <- MCAskedTypes
    AskedNames <- MCAskedNames
    MaxFiles = 3
SYMMETRY CratesSymmetry
INVARIANTS
    PlayHeadInHistory
    PanicsOnlyBelowBatch
    ArithmeticRight
    JumpsLand
    AputSeenThroughField
    FieldCarriesPair
    JavaKeepsFlow
    StraightLineExact
    SkippedOnlyAdds
    ExpandedIsComplete
    DepthFollowsEdges
    SignaturesVerify
    OnlyLastSigner
    OwnResults
    CallsReachHostsMethod
PROPERTIES
    CollectMeetsCap
    ImplementsTimeline
    NothingLostAlone
\* A method is analysed, or run, once; MaxIndex ends the debugger's scene.
CHECK_DEADLOCK FALSE
