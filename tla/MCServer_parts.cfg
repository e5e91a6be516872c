SPECIFICATION SrvSpec
CONSTANTS
    None = None
    Failed = Failed
    u1 = u1
    u2 = u2
    hs = hs
    Owners = {u1, u2}
    Homeserver = hs
    Decoded <- SrvDecoded
    BadSegments = {"ctl"}
    BlankSegments = {"bl "}
    MaxSegments = 6
    RawPaths <- SrvRawPaths
    Namings <- SrvNamings
    StreamPaths <- SrvStreamPaths
    Sessions <- SrvSessions
    CapTexts <- SrvCapTexts
    MaxTexts = 3
    Files <- SrvFiles
    Contents = {"c1", "c2"}
    Size <- SrvSize
    MaxBytes = 2
    FileMetadata = 1
    MaxPuts = 2
    MaxSecond = 2
    LsFiles <- SrvLsFiles
    LsOrder <- SrvLsOrder
    LsDirs <- SrvLsDirs
    LsEncoded <- SrvLsEncoded
    LsLimits = {0, 1, None}
    DefaultLimit = 2
    MaxLimit = 3
    SpecialSegments = {"c+"}
    MaxLsSeen = 4
    Inherit = Inherit
    Unlimited = Unlimited
    AbsentField = AbsentField
    Reset = Reset
    RlUsers = {"u1", "u2"}
    RlIps = {"i1"}
    RlArgs <- SrvRlArgs
    DefaultRate = 1
    DefaultBurst = 2
    IpRate = 1
    RlRequests = {"r1", "r2"}
    IntMax = 5
    RateUnit = 1
    CellModulus = 16
    PeriodNanos = 4
    MaxTicks = 1
    MaxLimiters = 2
    MaxPatches = 1
    PlUsers = {"u1", "u2"}
    PlIps = {"i1", "i2"}
    PathLimits <- SrvPathLimits
    Proxies = {"i1"}
    Kinds = {"get", "put"}
    AdPasswords = {None, "b"}
    AdConfigPassword = "a"
    AdPassword = "a"
    AdSlots = {"s1", "s2"}
    AdBytes = {1}
    AdQuotas = {"q"}
    AdCodes = {1, 2}
    AdQueries <- SrvAdQueries
    AdDefaultLimit = 1
    AdMaxLimit = 2
    AdFirst = 2
    MaxAdUsers = 3
    MaxAdChanges = 2
    NrNames = {0, 1}
    NrContents = {"x", "y"}
    NrRepairers = {"r1", "r2"}
    BatchSize = 1
    Attempts = 2
    MaxNrWrites = 2
    MaxNrRuns = 2
    SuServers = {"s1", "s2"}
    SuVersions = {0, 5, 10}
    SuPaths = {"p"}
    SuContents = {"x", "y"}
    SuEnabled = {"admin"}
    PublicPort = None
    MaxSuWrites = 1
    MaxSuStarts = 2
    FqUsers = {"alice", "bob", "carol"}
    FqParams <- SrvFqParams
    FqLimits = {None, 0, 1, 2, 9}
    MaxStreamUsers = 2
    MaxFqParams = 3
    MaxFqEvents = 4
    DefaultPage = 2
    MaxPage = 3
    GcGrants <- SrvGrants
    GcProofs <- SrvProofs
    GcUsers = {"alice", "bob"}
    ThisHomeserver = "hs"
    RandomIds = {"g1", "g2", "g3", "n1", "n2", "n3", "n4"}
    ClientIds = {"app", "pubky.signup"}
    GcTimes = {0, 1, 2, 3}
    MaxI64 = 7
    PopMaxAge = 1
    MaxSignupLifetime = 2
    TokenLifetime = 2
CONSTRAINT TwoRepairersOrWriter TwoChangesOrListing
CHECK_DEADLOCK FALSE
INVARIANTS AccessSound ReadsSound ListingComplete LimitsHold AccountsSound StartSound FeedRequestsSound GrantChecksSound
PROPERTIES RepairSound
