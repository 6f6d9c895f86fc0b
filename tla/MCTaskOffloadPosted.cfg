SPECIFICATION Spec
CONSTANTS
    o1 = o1
    c1 = c1
    Offloads <- MCOffloads
    Contexts = {c1}
    CtxOf <- MCCtxOf
    DeferredOffloads = {o1}
    ResubmissionAttempts = 2
    UInt32Range = 4
INVARIANT FilledMayGo
CHECK_DEADLOCK FALSE
