SPECIFICATION QueuedSpec
CONSTANTS
    ApiCalls = {a1, a2}
    Workers = {w1}
    Dispatchers = {d1}
    Requests = {"publish", "schedule", "cancel", "retry"}
    Jobs = {j1, j2, j3}
    Schedules = {s1, s2}
    Keys = {}
    NoJob = NoJob
    NoSchedule = NoSchedule
    NoKey = NoKey
    NoWorker = NoWorker
    HasQueue = TRUE
    MaxRetry = 1
    Faulty = {"crash", "lapse", "edit"}
    MaxFaults = 1
SYMMETRY Symmetry
INVARIANTS
    LockExcludes
PROPERTIES
    ReleasedByOwnerOnly
CHECK_DEADLOCK FALSE
