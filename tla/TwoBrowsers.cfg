SPECIFICATION AllSpec
CONSTANTS
    Tokens = {t1, t2}
    Streams = {r1, r2}
    NoToken = NoToken
    SessionIDs = {s1, s2}
    Calls = {c1}
    Scopes = {1, 2}
    Limit <- MCLimit
    Sessions = {s1, s2, c1}
    Workers = {w1}
    PoolSize = 2
    MaxWorkerFaults = 2
    States = {c1}
    Callbacks = {s1, s2}
    Refreshers = {c1, w1}
    MaxRefresh = 3
    First = First
    s1 = s1
    s2 = s2
    c1 = c1
    w1 = w1
    NoSession = NoSession
    MaxFaults = 0
INVARIANTS OneBrowser
CHECK_DEADLOCK FALSE
