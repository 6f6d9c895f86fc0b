SPECIFICATION Spec
CONSTANTS
    o1 = o1
    c1 = c1
    Offloads <- MCOffloads
    Contexts = {c1}
    CtxOf <- MCCtxOf
    DeferredOffloads = {}
    ResubmissionAttempts = 0
    UInt32Range = 4
INVARIANT ResubmissionsBounded
CHECK_DEADLOCK FALSE
