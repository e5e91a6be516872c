SPECIFICATION SdkSpec
CONSTANTS
    None = None
    Failed = Failed
    t1 = t1
    t2 = t2
    j1 = j1
    j2 = j2
    j3 = j3
    u1 = u1
    u2 = u2
    h1 = h1
    h2 = h2
    c1 = c1
    c2 = c2
    c3 = c3
    Tabs = {t1, t2}
    Jobs = {j1, j2, j3}
    TabOf <- SdkTabOf
    CallsOf <- SdkCallsOf
    Opener = t1
    MaxMint = 3
    FinalFrom = 3
    MaxStrays = 1
    Requests <- SdkRequests
    Approvals <- SdkApprovals
    Strays <- SdkStrays
    Identities = {u1}
    Handles = {h1, h2}
    First = h1
    MaxPosts = 2
    Tokens <- SdkTokens
    Registered = {u1}
    CkHandles = {c1, c2, c3}
    Browser = {c3}
    MaxTime = 2
    MaxRows = 2
    MaxRestarts = 1
    EsUsers = {"u1", "u2"}
    EsServers = {"a", "b"}
    EsKinds = {"DEL", "MOV"}
    EsPaths = {"pub", "priv"}
    EsQueries <- SdkQueries
    MaxEsUsers = 2
    MaxEsJs = 4
    MaxEsEvents = 2
    MaxEsMoves = 1
    TrOwners = {"o"}
    TrServers = {"a", "b"}
    TrDomains = {"a", "b"}
    TrDirect = {"b"}
    TrRequests = {1, 2}
    TrWorlds <- SdkWorlds
    TrCapacity = 1
    InfoTtl = 2
    InfoFailureTtl = 1
    TransportTtl = 1
    MaxTrClock = 2
    MaxTrChanges = 1
    MaxTrRequests = 2
    RpStatuses = {200, 404, 503}
    RpCauses <- SdkCauses
    BodyLimit = 2
    ErrorLimits = {0, 2}
    MaxRpBytes = 4
    MaxChunk = 3
    StClients = {s1, s2}
    StNames = {}
    StSpecial = {"a b"}
    StRefused = {}
    MaxTyped = 0
    StTimeouts = {1}
    MaxStTokens = 1
    MaxStTicks = 1
    MaxStRequests = 3
    Decoded <- NothingEncoded
    BadSegments = {}
    BlankSegments = {}
    MaxSegments = 9
    GmApprovals <- SdkMaterial
    GmFiles <- SdkMaterialFiles
    GmClocks <- SdkClocks
    ClockSkew = 1
    GrantLife = 2
    MaxGmGrants = 2
    MaxGmTime = 1
    MaxGmProofs = 1
    DlSchemes = {"pubkyring", "https"}
    DlPairs <- SdkPairs
    DlMalformed = {"bad"}
    KeyCaps = {"keys"}
    DlLinks <- SdkLinks
    DlCallbacks <- SdkCallbacks
    MaxAppended = 1
    MaxHandovers = 2
CONSTRAINT FirstRequestFirst TwoRequestsOrLocks OneOddity TwoCallers TwoMessagesOrFlows ThreeBearersOrStray
CHECK_DEADLOCK FALSE
INVARIANTS LeasesProtect CallsNeverStuck FlowSound CookieSessionsSound ReaderSound RequestsSound StorageSound MaterialSound LinkSound
