SPECIFICATION RacesSpec
CONSTANTS
    c1 = c1
    c2 = c2
    c3 = c3
    c4 = c4
    i1 = i1
    i2 = i2
    u1 = u1
    u2 = u2
    u3 = u3
    k1 = k1
    n1 = n1
    n2 = n2
    n3 = n3
    None = None
    Accounts = {u1, u2}
    Calls = {c1, c2, c3, c4}
    Grants <- AllGrants
    Nonces = {n1, n2, n3}
    Jobs <- AllJobs
    PopMaxAge = 1
    Lifetime = 1
    TicksPerSec = 2
    MaxTick = 6
CONSTRAINT ClockBound
SYMMETRY CallSymmetry
CHECK_DEADLOCK FALSE
INVARIANTS SessionsSound StaleBearerRefused
PROPERTIES StepsAuthorized
