SPECIFICATION AlertsSpec
CONSTANTS
    None = None
    Nil = Nil
    api = api
    worker = worker
    s1 = s1
    s2 = s2
    u1 = u1
    u2 = u2
    Requests = {r1, r2, r3}
    SessionIds = {s1, s2}
    Users = {u1}
    MaxBatch = 1
    Secs <- MCSecs
    Opened <- MCOneOpened
    Batches <- MCNoBatches
    ClientTimes <- MCNoTimes
    MaxTime = 2
    MaxInFlight = 1
    Migrated <- MCMigrated
    MonthLength = 4
    Skew = 1
    Faults = FALSE
    Processes = {api}
    Queues <- MCIdle
    JobIds = {j1, j2}
    Attempts = 1
    MaxStalls = 1
    IdleThreshold = 1
    InactiveThreshold = 0
    OvertimeThreshold = 1
    DayLength = 4
    MaxFaults = 0
SYMMETRY Anonymous
INVARIANTS
    QuietSessionIsAlerted
