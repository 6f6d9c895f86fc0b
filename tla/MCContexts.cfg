SPECIFICATION FairSpec
CONSTANTS
    None = None
    Fibers = {f1, f2}
    Ctxs = {c1, c2, c3}
    SharedStop = {c3}
    StartMayEnd = {c3}
INVARIANTS
    LostOnlyToFibers
    NobodyPassedBy
    NoStopAwaiterLeft
PROPERTIES
    AwaitersResume
CHECK_DEADLOCK FALSE
