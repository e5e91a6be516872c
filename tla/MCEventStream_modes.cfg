SPECIFICATION FairSpec
CONSTANTS
    u1 = u1
    u2 = u2
    p1 = p1
    p2 = p2
    None = None
    MaxId = 3
    Users = {u1, u2}
    EventPaths = {p1, p2}
    StreamUsers = {u1, u2}
    Filter = {p1}
    Queries <- AllModes
    Starts <- BeginningOrLater
    PageLimit = 1
    MaxPageLimit = 2
    Capacity = 1
CHECK_DEADLOCK FALSE
INVARIANTS StreamDelivers
PROPERTIES EventReachesStream
