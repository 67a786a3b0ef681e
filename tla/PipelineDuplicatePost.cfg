SPECIFICATION QueuedSpec
CONSTANTS
    ApiCalls = {a1}
    Workers = {w1}
    Dispatchers = {}
    Requests = {"publish"}
    Jobs = {j1}
    Schedules = {s1}
    Keys = {}
    NoJob = NoJob
    NoSchedule = NoSchedule
    NoKey = NoKey
    NoWorker = NoWorker
    HasQueue = TRUE
    MaxRetry = 1
    Faulty = {"database"}
    MaxFaults = 1
INVARIANTS
    NoDuplicatePost
CHECK_DEADLOCK FALSE
