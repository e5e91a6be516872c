SPECIFICATION StSpec
CONSTANTS
    None = None
    Failed = Failed
    StClients = {c1, c2}
    StNames = {}
    StSpecial = {"a b"}
    StRefused = {}
    MaxTyped = 0
    StTimeouts = {1}
    MaxStTokens = 2
    MaxStTicks = 1
    MaxStRequests = 3
CHECK_DEADLOCK FALSE
INVARIANTS PublicReadsWhatSessionStored
