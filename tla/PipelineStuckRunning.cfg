SPECIFICATION QueuedFairSpec
CONSTANTS
    ApiCalls = {a1}
    Workers = {w1}
    Dispatchers = {d1}
    Requests = {"publish"}
    Jobs = {j1, j2}
    Schedules = {s1}
    Keys = {}
    NoJob = NoJob
    NoSchedule = NoSchedule
    NoKey = NoKey
    NoWorker = NoWorker
    HasQueue = TRUE
    MaxRetry = 1
    Faulty = {"crash"}
    MaxFaults = 1
PROPERTIES
    DueScheduleSettles
CHECK_DEADLOCK FALSE
