SPECIFICATION EitherSpec
CONSTANTS
    ApiCalls = {a1, a2}
    Workers = {w1, w2}
    Dispatchers = {}
    Requests = {"publish", "retry", "cancel"}
    Jobs = {j1, j2}
    Schedules = {s1}
    Keys = {}
    NoJob = NoJob
    NoSchedule = NoSchedule
    NoKey = NoKey
    NoWorker = NoWorker
    HasQueue = TRUE
    MaxRetry = 1
    Faulty = {"crash", "database", "redis", "timeout", "lapse", "redelivery"}
    MaxFaults = 3
SYMMETRY Symmetry
INVARIANTS
    TypeOK
    OneAttemptPerSchedule
    
    PublishedMeansPosted
CHECK_DEADLOCK FALSE
