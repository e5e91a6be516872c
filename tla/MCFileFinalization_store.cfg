SPECIFICATION Spec
CONSTANTS
    o1 = o1
    o2 = o2
    o3 = o3
    p1 = p1
    p2 = p2
    t1 = t1
    t2 = t2
    None = None
    Failed = Failed
    Ops = {o1, o2, o3}
    Paths = {p1}
    Tokens = {t1, t2}
    Lengths = {0, 1, 2}
    Jobs <- StoreJobs
    Quotas <- Unlimited
    MetadataSize = 2
    Collides <- NoCollisions
    Staged = TRUE
SYMMETRY OpTokenSymmetry
CHECK_DEADLOCK FALSE
INVARIANTS RowHasBlob DivergenceNeedsFailure
PROPERTIES StoreChangesOnlyPreparedFile CommittedRowHasItsBlob CommitUnderItsLock
