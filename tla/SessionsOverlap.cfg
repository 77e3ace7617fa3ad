SPECIFICATION FairSpec
CONSTANTS
    Requests = {r1, r2, r3}
    SessionIds = {s1, s2}
    Users = {u1}
    s1 = s1
    s2 = s2
    u1 = u1
    u2 = u2
    None = None
    MaxBatch = 1
    Secs <- MCSecs
    Opened <- MCOpened
    ClientTimes <- MCTimes
    MaxTime = 1
    MaxInFlight = 3
    Faults = TRUE
    r1 = r1
    r2 = r2
    r3 = r3
INVARIANTS
    TypeOK
    CountedOnce
    AccurateUnlessRaced
    OneActiveUnlessRaced
PROPERTIES
    StoppedUnlessRaced
    ImplementsLedger
    EveryRequestEnds
