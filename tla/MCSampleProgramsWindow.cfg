SPECIFICATION Spec
CONSTANTS
    BlockCounts = {1, 3, 5}
    Parallelisms = {1, 2}
INVARIANT PendingAwaited
CHECK_DEADLOCK FALSE
