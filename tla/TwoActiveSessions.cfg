SPECIFICATION Spec
CONSTANTS
    Requests = {r1, r2}
    SessionIds = {s1, s2}
    Users = {u1}
    s1 = s1
    s2 = s2
    u1 = u1
    u2 = u2
    None = None
    MaxBatch = 1
    Secs <- MCSecs
    Opened <- MCNothingOpened
    ClientTimes <- MCTimes
    MaxTime = 0
    MaxInFlight = 2
    Faults = FALSE
    r1 = r1
    r2 = r2
    r3 = r3
INVARIANTS
    OneActivePerUser
