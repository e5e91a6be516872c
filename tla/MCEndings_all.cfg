SPECIFICATION EndSpec
CONSTANTS
    None = None
    Failed = Failed
    w1 = w1
    w2 = w2
    w3 = w3
    u1 = u1
    o1 = o1
    o2 = o2
    p1 = p1
    s1 = s1
    s2 = s2
    s3 = s3
    k1 = k1
    k2 = k2
    c1 = c1
    c2 = c2
    Users = {u1}
    EventPaths = {p1}
    MaxId = 4
    BatchSize = 2
    MaxBatches = 1
    Writers = {w1, w2, w3}
    Ops = {o1, o2}
    Paths = {p1}
    Tokens = {}
    Lengths = {0, 1}
    Jobs <- EndJobs
    Quotas <- UnlimitedOnly
    MetadataSize = 2
    Collides <- NothingCollides
    Staged = TRUE
    Signups = {s1, s2, s3}
    Keys = {k1, k2}
    Codes = {c1, c2}
    Modes = {TRUE, FALSE}
CHECK_DEADLOCK FALSE
INVARIANTS SignupsSound
PROPERTIES ImplementsFeed ImplementsFairFeed FinalizationEnds SignupEnds
