SPECIFICATION ClockSpec
CONSTANTS
    None = None
    Failed = Failed
    t1 = t1
    t2 = t2
    w1 = w1
    w2 = w2
    r1 = r1
    r2 = r2
    q1 = q1
    q2 = q2
    NoTimeout = NoTimeout
    Tokens = {t1, t2}
    Writes = {w1, w2}
    Asked <- ExtremeTimeouts
    DefaultTimeout = 2
    MaxTimeout = 4
    Horizon = 3
    Interval = 1
    LkMaxNow = 3
    Resolvers = {r1, r2}
    Patches = {q1, q2}
    CacheTtl = 2
    NegativeTtl = 1
    MaxQuery = 1
    QcMaxNow = 3
    n1 = n1
    n2 = n2
    d1 = d1
    d2 = d2
    hs1 = hs1
    hs2 = hs2
    Nodes = {n1, n2}
    Devices = {d1, d2}
    Servers = {hs1, hs2}
    Here = hs1
    MinNodes = 2
    MaxSigned = 3
    MaxPublish = 2
    MaxAttempts = 1
    UserKeys = {k1, k2, k3}
    MaxWorkers = 2
    MaxTries = 2
CONSTRAINT TwoClientsOrTwoWrites TwoPublishers
SYMMETRY LockSymmetry
CHECK_DEADLOCK FALSE
INVARIANTS LocksSound CachedQuotaSound RecordsKeptUp
