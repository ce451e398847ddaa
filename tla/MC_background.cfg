SPECIFICATION BackgroundSpec
CONSTANTS
    m1 = m1
    m2 = m2
    k1 = k1
    k2 = k2
    t1 = t1
    w1 = w1
    w2 = w2
    p1 = p1
    p2 = p2
    c1 = c1
    c2 = c2
    Messages = {m1, m2}
    Consumers = {k1, k2}
    MaxFailures = 2
    Tasks = {t1}
    Workers = {w1, w2}
    Polls = {p1, p2}
    MaxCrashes = 2
    Calls = {c1, c2}
    NoBucket = NoBucket
    Longest = 10
    MaxPasses = 3
    MaxJumps = 2
    Copies = {c1, c2}
    MonthlyLimit = 2
    MaxMonths = 2
    MaxSent = 4
    LongMonth = 4
    MaxTime = 11
    MaxPassed = 3
    EventKinds = {"success", "flip"}
    Healths = {"down"}
    Quota = 1
    LastEvent = 2
    MaxInFlight = 2
INVARIANTS
    
    RateKept
    StorageAskedAgain
    MonthlyKept
    DowntimesTrue
    
    
    ShownIsFiltered
PROPERTIES
    
    AcceptedGetResult
    PagesCatchUp
CHECK_DEADLOCK FALSE
