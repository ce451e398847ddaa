\* One sender, one request of any kind, pings.
CONSTANTS
    None = None
    c1 = c1
    c2 = c2
    s1 = s1
    s2 = s2
    q1 = q1
    q2 = q2
    r1 = r1
    MaxTime = 3
    Instants <- MCInstants
    Rids = {}
    Configs <- SimpleCron
    NextElapse <- MCNextElapse
    Checks = {c1}
    Requests = {q1}
    Ops = {"pause", "resume", "timeout", "update", "filter", "clear", "remove"}
    PingActions = {"success", "fail", "start"}
    MaxPings = 2
    Senders = {s1}
    NumWorkers = 1
    ThrowingKinds = {}
    Hour = 2
    MaxCrashes = 0
    MaxSignals = 0
SPECIFICATION SSpec
INVARIANTS
    AlertAfterExact
    AssertionsHold
