SPECIFICATION Spec
CONSTANTS
    c1 = c1
    c2 = c2
    c3 = c3
    c4 = c4
    i1 = i1
    i2 = i2
    u1 = u1
    u2 = u2
    u3 = u3
    k1 = k1
    n1 = n1
    n2 = n2
    n3 = n3
    None = None
    Accounts = {u1}
    Calls = {c1, c2}
    Grants <- AllGrants
    Nonces = {n1, n2, n3}
    Jobs <- RaceJobs
    PopMaxAge = 2
    Lifetime = 1
    TicksPerSec = 1
    MaxTick = 1
SYMMETRY CallSymmetry
CHECK_DEADLOCK FALSE
INVARIANTS SignoutRevokes
