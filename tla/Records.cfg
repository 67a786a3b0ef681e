SPECIFICATION AllSpec
CONSTANTS
    Jobs = {j1, j2}
    Dispatchers = {d1, d2}
    NoJob = NoJob
    MaxFaults = 3
    Users = {u1}
    Owner = owner1
    Roles = {"admin", "viewer"}
    Invites = {q1}
    Requests = {q1, q2, q3}
    Guests = {u1}
    Links = {q1}
    Errands = {q1, q2}
    Readers = {q1, q2}
    Instances = {q3, q4}
    MaxChanges = 2
    NoList = NoList
    Degraded = Degraded
    Askers = {q1, q2}
    MaxTemplates = 1
    NoTemplateList = NoTemplateList
    NoGeneration = NoGeneration
    Callbacks = {q1, q2, q3}
    Reports = {u1, owner1}
    Archivers = {q1, q2}
    Rows = {q3, q4}
    Early = {q3}
    BatchSize = 2
    MaxRuns = 2
    NoArchiver = NoArchiver
    q1 = q1
    q2 = q2
    q3 = q3
    q4 = q4
    u1 = u1
    owner1 = owner1
    Runs = {1, 2}
    MaxTurns = 2
    LimitTokens = 2
    MaxRunFaults = 2
    LifeRequests = {q1, q2, q3, q4}
    Original = Original
    None = None
INVARIANTS
    DispatchedMeansQueued
    PartsTypeOK
    ContentKept
    RemovedStaysOut
    RemovedIsUnshared
    FreshAfterInvalidation
    TemplatesAreFresh
    NothingLost
    CallbacksCountOnce
    RunsAccounted
PROPERTIES
    RecordedJobIsDispatched
    ImplementsHandoff
    AdmitsWhilePending
CHECK_DEADLOCK FALSE
