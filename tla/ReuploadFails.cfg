SPECIFICATION ActivitySpec
CONSTANTS
    Requests = {r1, r2}
    SessionIds = {s1}
    Users = {u1}
    s1 = s1
    s2 = s2
    u1 = u1
    c1 = c1
    c2 = c2
    None = None
    MaxBatch = 2
    Secs <- MCSecs
    Opened <- MCOpened
    Batches <- MCRepeated
    ClientTimes <- MCNoTimes
    MaxTime = 0
    MaxInFlight = 1
    Faults = FALSE
    Migrated <- MCMigrated
    MonthLength = 2
    Skew = 1
    r1 = r1
    r2 = r2
INVARIANTS
    DuplicatesAreSkipped
