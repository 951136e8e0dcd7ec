SPECIFICATION VmSpec
CONSTANTS
    main = main
    helper = helper
    initA = initA
    initB = initB
    banned = banned
    native = native
    fa = fa
    fa2 = fa2
    fb = fb
    A = A
    B = B
    zero = zero
    one = one
    None = None
    Null = Null
    NoMethod = NoMethod
    NoField = NoField
    Unlimited = Unlimited
    Values = {Null, zero, one}
    Methods <- MCMethods
    Entries = {main, banned, native}
    Fields <- MCFields
    Classes <- MCClasses
    ClassOf <- MCClassOf
    Clinit <- MCClinit
    Programs <- AllPrograms
    Denylist <- MCDenylist
    Limits = {3, 7}
    MaxThreads = 1
    WithDebugger = FALSE
    MaxDepth = 3
    Sites <- MCSites
    Batch = 2
    DefaultCap = 10
    CapRequests = {}
    MaxIndex = 6
INVARIANT
    InitialisedMeansCompleted
