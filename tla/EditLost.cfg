SPECIFICATION AllSpec
CONSTANTS
    c1 = c1
    c2 = c2
    c3 = c3
    i1 = i1
    i2 = i2
    k1 = k1
    k2 = k2
    e1 = e1
    e2 = e2
    Nobody = Nobody
    Instances = {i1, i2}
    Edits = {e1, e2}
    Initializers = {k1, k2}
    Faulty = {"crash", "database", "connection"}
    MaxDocFaults = 2
    MaxSyncs = 1
    Conns <- MCConns
    Scopes <- MCScopes
    KeysOf <- MCKeysOf
    Limit <- MCLimit
    MaxFaults = 1
    Platforms = {p1, p2}
    Syncs = {r1, r2}
    MaxVersion = 2
    MaxRequests = 2
    Calls <- MCCalls
    Threshold = 2
    Attempts = 2
INVARIANTS NoEditLost
SYMMETRY Symmetry
CHECK_DEADLOCK FALSE
