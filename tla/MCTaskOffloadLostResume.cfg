SPECIFICATION FairSpec
CONSTANTS
    o1 = o1
    c1 = c1
    Offloads <- MCOffloads
    Contexts = {c1}
    CtxOf <- MCCtxOf
    DeferredOffloads = {}
    ResubmissionAttempts = 2
    UInt32Range = 4
PROPERTY ResultResumes
CHECK_DEADLOCK FALSE
