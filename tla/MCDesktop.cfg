SPECIFICATION DesktopSpec
CONSTANTS
    app = app
    inner = inner
    appFile = appFile
    splitFile = splitFile
    appCache = appCache
    innerCache = innerCache
    Missing = Missing
    Partial = Partial
    NoId = NoId
    None = None
    NoProject = NoProject
    Hashes = {app, inner}
    Embeds <- MCEmbeds
    CachePath <- MCCachePath
    ApkPaths = {appFile}
    SplitPaths = {splitFile}
    Marks = {}
    Tasks = {t1, t2}
    Changing = {splitFile}
    main = main
    helper = helper
    initA = initA
    initB = initB
    banned = banned
    native = native
    fa = fa
    fa2 = fa2
    fb = fb
    A = A
    B = B
    zero = zero
    one = one
    Null = Null
    NoMethod = NoMethod
    NoField = NoField
    Unlimited = Unlimited
    Values = {Null, zero, one}
    Methods <- MCMethods
    Entries = {main}
    Fields <- MCFields
    Classes <- MCClasses
    ClassOf <- MCClassOf
    Clinit <- MCClinit
    Programs <- DebuggedPrograms
    Denylist <- MCDenylist
    Limits = {4}
    MaxThreads = 0
    WithDebugger = TRUE
    MaxDepth = 3
    Sites <- DebuggedSites
    Batch = 2
    DefaultCap = 10
    CapRequests = {}
    MaxIndex = 3
CHECK_DEADLOCK FALSE
INVARIANTS
    PointersRefer
    SlotIdentity
PROPERTIES
    ExtractionKeepsItsFile
    CutRunOnlyUnwinds
