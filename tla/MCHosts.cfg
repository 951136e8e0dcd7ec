SPECIFICATION HostsSpec
CONSTANTS
    app = app
    inner = inner
    appFile = appFile
    splitFile = splitFile
    appCache = appCache
    innerCache = innerCache
    Missing = Missing
    Partial = Partial
    NoId = NoId
    None = None
    NoProject = NoProject
    Hashes = {app}
    Embeds <- NoEmbeds
    CachePath <- MCCachePath
    ApkPaths = {appFile}
    SplitPaths = {splitFile}
    Marks = {m}
    Tasks = {t1}
    Changing = {appFile, splitFile}
    Workers = {w1, w2}
    WebFiles <- MCWebFiles
    MaxLoads <- MCMaxLoads
    Runs = {r1, r2}
    Kills = {k1, k2}
    Pids = {p1, p2}
    NoPid = NoPid
    Writers = {u1, u2}
    Inodes = {i1, i2, i3}
    NoFile = NoFile
    MaxSets = 4
    main = main
    helper = helper
    initA = initA
    initB = initB
    banned = banned
    native = native
    fa = fa
    fa2 = fa2
    fb = fb
    A = A
    B = B
    zero = zero
    one = one
    Null = Null
    NoMethod = NoMethod
    NoField = NoField
    Unlimited = Unlimited
    Values = {Null, zero, one}
    Methods <- MCMethods
    Entries = {main, banned, native}
    Fields <- MCFields
    Classes <- MCClasses
    ClassOf <- MCClassOf
    Clinit <- MCClinit
    Programs <- AllPrograms
    Denylist <- MCDenylist
    Limits = {3, 7}
    MaxThreads = 2
    WithDebugger = FALSE
    MaxDepth = 4
    Sites <- MCSites
    Batch = 2
    DefaultCap = 10
    CapRequests = {}
    MaxIndex = 6
CHECK_DEADLOCK FALSE
INVARIANTS
    ClinitNotReentered
    ExhaustedCallReturnsNone
    RestartKeepsWork
    SettledWhole
    RunNeverBehind
    FreshReads
    LateKillIsNoOp
    DurableKept
PROPERTIES
    BudgetedCallReturns
    FinishedThreadsFrozen
    RequestsAnswered
    StopEndsRun
