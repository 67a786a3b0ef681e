SPECIFICATION AllSpec
CONSTANTS
    x1 = x1
    x2 = x2
    y1 = y1
    y2 = y2
    j1 = j1
    j2 = j2
    Writes = {x1, x2}
    Reads = {j1}
    TTL = 3
    MaxLag = 1
    CheckInterval = 1
    Delay = 1
    MaxTime = 3
    Requests = {y1, y2, j1, j2}
    Publishing = {j1, j2}
    UserOf <- MCUserOf
    Limit <- MCLimit
    FailOpen = TRUE
    MaxWindows = 1
    MaxLimitFaults = 1
    Completions = {x1, x2}
    Resolves = {y1, y2}
    MaxMediaFaults = 1
    Platforms = {j1, j2}
    Targets = {j1}
    MaxEdits = 2
    MaxGrowthFaults = 1
    Projects = {1, 2, 3, 4}
    CreatedAt <- MCCreatedAt
    Start = {1, 2, 3}
    PageSize = 2
    BatchSize = 2
    MaxProjectChanges = 2
INVARIANTS
    PartsTypeOK
    ReadsOwnWrites
    
    AdmissionBounded
    
    
SYMMETRY Symmetry
CHECK_DEADLOCK FALSE
