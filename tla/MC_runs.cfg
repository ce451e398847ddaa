\* Runs with and without run ids: what timeout flips say.
CONSTANTS
    None = None
    c1 = c1
    c2 = c2
    s1 = s1
    s2 = s2
    q1 = q1
    q2 = q2
    r1 = r1
    MaxTime = 4
    Instants <- MCInstants
    Rids = {r1}
    Configs <- OneSimple
    NextElapse <- MCNextElapse
    Checks = {c1}
    Requests = {}
    Ops = {}
    PingActions = {"success", "fail", "start"}
    MaxPings = 3
    Senders = {s1}
    NumWorkers = 1
    ThrowingKinds = {}
    Hour = 2
    MaxCrashes = 0
    MaxSignals = 0
SPECIFICATION SSpec
INVARIANTS
    TimeoutFlipsTrue
