SPECIFICATION RvFairSpec
CONSTANTS
    Streams = {s1, s2}
    Others = {c1}
    Capacity = 1
    MaxActors = 2
CHECK_DEADLOCK FALSE
INVARIANTS StreamsSound
PROPERTIES RevokedStreamCloses
