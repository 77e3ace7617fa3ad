SPECIFICATION SummaryFairSpec
CONSTANTS
    None = None
    Nil = Nil
    r1 = r1
    s1 = s1
    s2 = s2
    u1 = u1
    Requests = {r1, r2}
    SessionIds = {s1, s2}
    Users = {u1}
    MaxBatch = 1
    Secs <- MCSecs
    Opened <- MCOpened
    Batches <- MCNoBatches
    ClientTimes <- MCNoTimes
    MaxTime = 0
    MaxInFlight = 2
    Migrated <- MCMigrated
    MonthLength = 4
    Skew = 1
    Faults = FALSE
    Processes = {api, worker}
    Queues <- MCQueues
    JobIds = {j1}
    Attempts = 2
    MaxStalls = 1
    Dates <- MCYesterday
    DayLength = 2
    WithApp <- MCAll
    JobFaults = TRUE
INVARIANTS
    SummaryTypeOK
    UsageCoversTotals
    QuietDayIsExact
PROPERTIES
    EveryJobEnds
