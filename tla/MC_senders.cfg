\* Two processes that may crash and be told to stop, two threads each, and pings.
CONSTANTS
    None = None
    c1 = c1
    c2 = c2
    s1 = s1
    s2 = s2
    q1 = q1
    q2 = q2
    r1 = r1
    MaxTime = 3
    Instants <- MCInstants
    Rids = {}
    Configs <- OneSimple
    NextElapse <- MCNextElapse
    Checks = {c1}
    Requests = {}
    Ops = {}
    PingActions = {"success", "fail"}
    MaxPings = 2
    Senders = {s1, s2}
    NumWorkers = 2
    ThrowingKinds = {}
    Hour = 2
    MaxCrashes = 1
    MaxSignals = 1
SPECIFICATION SSpec
SYMMETRY SenderSymmetry
INVARIANTS
    AlertedAtMostOnce
    ClaimedNotLost
    SeatsBalanced
    OneFlipPerOutage
    FlipsDeliverable
PROPERTIES
    DeliversAtMostOnce
