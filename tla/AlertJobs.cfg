SPECIFICATION AlertsSpec
CONSTANTS
    None = None
    Nil = Nil
    api = api
    worker = worker
    s1 = s1
    s2 = s2
    u1 = u1
    u2 = u2
    Requests = {r1}
    SessionIds = {s1, s2}
    Users = {u1, u2}
    MaxBatch = 1
    Secs <- MCSecs
    Opened <- MCOpened
    Batches <- MCBatches
    ClientTimes <- MCNoTimes
    MaxTime = 1
    MaxInFlight = 1
    Migrated <- MCMigrated
    MonthLength = 4
    Skew = 1
    Faults = FALSE
    Processes = {api, worker}
    Queues <- MCQueues
    JobIds = {j1}
    Attempts = 2
    MaxStalls = 1
    IdleThreshold = 2
    InactiveThreshold = 1
    OvertimeThreshold = 1
    DayLength = 1
    MaxFaults = 1
SYMMETRY Alike
INVARIANTS
    AlertsTypeOK
    NoRepeatByProcess
    QuietIsAlerted
    NoFalseAlarm
