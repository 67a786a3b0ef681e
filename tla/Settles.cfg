SPECIFICATION AllSpec
CONSTANTS
    Platforms = {p1, p2}
    Syncs = {r1, r2}
    MaxVersion = 1
    MaxRequests = 1
    c1 = c1
    c2 = c2
    s1 = s1
    w1 = w1
    w2 = w2
    NoSession = NoSession
PROPERTIES
    SyncingEnds
    LeftoversEnd
CHECK_DEADLOCK FALSE
