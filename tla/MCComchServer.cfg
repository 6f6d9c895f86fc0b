SPECIFICATION FairSpec
CONSTANTS
    k1 = k1
    k2 = k2
    k3 = k3
    a1 = a1
    a2 = a2
    b1 = b1
    Connections = {k1, k2, k3}
    Children = {a1, a2, b1}
    ParentOf <- MCParentOf
    Faults = {k2, b1}
    RemoteDisconnects = {k2, k3}
    LateConnections = {k2}
    LateChildren = {b1}
    None = None
ACTION_CONSTRAINT OneOfTheTwo
INVARIANTS
    RegistriesAgree
    NoAwaiterLeft
    ChildrenStopFirst
    WaitHasCause
PROPERTIES
    StopCompletes
CHECK_DEADLOCK FALSE
