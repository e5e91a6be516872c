SPECIFICATION Spec
CONSTANTS
    u1 = u1
    u2 = u2
    p1 = p1
    p2 = p2
    None = None
    MaxId = 3
    Users = {u1, u2}
    EventPaths = {p1}
    StreamUsers = {u1, u2}
    Filter = {p1}
    Queries <- LiveQueries
    Starts <- Beginning
    PageLimit = 1
    MaxPageLimit = 2
    Capacity = 2
CHECK_DEADLOCK FALSE
INVARIANTS StreamHasNoGaps
