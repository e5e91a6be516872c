SPECIFICATION Spec
CONSTANTS
    o1 = o1
    o2 = o2
    o3 = o3
    p1 = p1
    p2 = p2
    t1 = t1
    t2 = t2
    None = None
    Failed = Failed
    Ops = {o1, o2, o3}
    Paths = {p1, p2}
    Tokens = {}
    Lengths = {0, 1, 2}
    Jobs <- AccountJobs
    Quotas <- Limits
    MetadataSize = 2
    Collides <- FolderAndFile
    Staged = FALSE
SYMMETRY OpSymmetry
CHECK_DEADLOCK FALSE
INVARIANTS AccountAgrees
PROPERTIES CommitRespectsLimits
