\* A ping between the SELECT and the UPDATE of handle_going_down.
CONSTANTS
    None = None
    c1 = c1
    c2 = c2
    s1 = s1
    s2 = s2
    q1 = q1
    q2 = q2
    r1 = r1
    MaxTime = 4
    Instants <- MCInstants
    Rids = {}
    Configs <- OneSimple
    NextElapse <- MCNextElapse
    Checks = {c1}
    Requests = {}
    Ops = {}
    PingActions = {"success"}
    MaxPings = 3
    Senders = {s1}
    NumWorkers = 1
    ThrowingKinds = {}
    Hour = 2
    MaxCrashes = 0
    MaxSignals = 0
SPECIFICATION SSpec
INVARIANTS
    DownMeansSilent
