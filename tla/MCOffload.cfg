SPECIFICATION MCSpec
CONSTANTS
    o1 = o1
    o2 = o2
    o3 = o3
    c1 = c1
    c2 = c2
    Offloads <- MCOffloads
    Contexts <- MCContexts
    CtxOf <- MCCtxOf
    DeferredOffloads <- MCDeferred
    ResubmissionAttempts = 2
    UInt32Range = 4
    Fibers = {f, g, h}
    MaxTasks = 2
    Slots = {k, l}
    MaxLoaded = 3
    Objects = {b1, b2, b3, b4, b5}
    Elements = {e1, e2, e3}
    None = None
INVARIANTS
    ResultIffFreed
    ResumedWithValue
    ResubmissionsBounded
    PoolConserved
    NeverStarved
    KeysGoFirst
    CountsExact
PROPERTIES
    CompletionResumes
    StopCompletes
CHECK_DEADLOCK FALSE
