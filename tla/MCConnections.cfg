SPECIFICATION MCSpec
CONSTANTS
    p1 = p1
    p2 = p2
    Payload <- MCPayload
    Empty = Empty
    NotConnected = NotConnected
    MaxAccepts = 4
    MaxSupplies = 4
    Children = {a, b}
    Fibers = {f}
    Ids = {i, j}
    MaxUses = 2
    Accepters = {g}
    Callers = {f, g}
    Ports = {p, q}
    Conns = {c, d, e}
    None = None
INVARIANTS
    WaitersQueued
    DisconnectDrains
    NobodyLeft
    SendsWhileRunning
    ChildrenStopFirst
    ExpiryKnown
    ReceptablesMatch
PROPERTIES
    ImplementsChannel
    StopCompletes
    Delivered
    ConnectResolves
CHECK_DEADLOCK FALSE
