\* A ping between the read and the save of an API update.
CONSTANTS
    None = None
    c1 = c1
    c2 = c2
    s1 = s1
    s2 = s2
    q1 = q1
    q2 = q2
    r1 = r1
    MaxTime = 4
    Instants <- MCInstants
    Rids = {}
    Configs <- OneSimple
    NextElapse <- MCNextElapse
    Checks = {c1}
    Requests = {q1}
    Ops = {"update"}
    PingActions = {"success", "fail"}
    MaxPings = 3
SPECIFICATION Spec
INVARIANTS
    NeverUnwatched
CHECK_DEADLOCK FALSE
