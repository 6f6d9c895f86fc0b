SPECIFICATION FairSpec
CONSTANTS
    f1 = f1
    f2 = f2
    l1 = l1
    l2 = l2
    l3 = l3
    c1 = c1
    c2 = c2
    None = None
    Fibers = {f1, f2}
    Leases = {l1, l2, l3}
    Ctxs = {c1, c2}
    OwnerOf <- MCOwnerOf
    Cfgs <- MCCfgs
CONSTRAINT Bounded
INVARIANTS
    LeasesCounted
    SleepJustified
PROPERTIES
    RunsAsLongAsNeeded
    RunEnds
    EventsHandled
CHECK_DEADLOCK FALSE
