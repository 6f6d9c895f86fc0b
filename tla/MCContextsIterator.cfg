SPECIFICATION Spec
CONSTANTS
    None = None
    Fibers = {f1, f2}
    Ctxs = {c1, c2, c3}
    SharedStop = {}
    StartMayEnd = {}
INVARIANTS
    IteratorValid
CHECK_DEADLOCK FALSE
