SPECIFICATION SampleSpec
CONSTANTS
    BlockCounts = {1, 3, 5}
    Parallelisms = {1, 2}
INVARIANTS
    ResultComplete
    MappingOutlivesReads
    NoMisuse
    AwaitablesKept
    AllReleased
PROPERTY ProgramEnds
CHECK_DEADLOCK FALSE
