\* One sender that may be told to stop, a check whose schedule may throw, and a
\* request that may leave an outdated alert_after behind.
CONSTANTS
    None = None
    c1 = c1
    c2 = c2
    s1 = s1
    s2 = s2
    q1 = q1
    q2 = q2
    r1 = r1
    MaxTime = 4
    Instants <- MCInstants
    Rids = {}
    Configs <- SimpleCron
    NextElapse <- MCNextElapse
    Checks = {c1}
    Requests = {q1}
    Ops = {"timeout"}
    PingActions = {"success"}
    MaxPings = 2
    Senders = {s1}
    NumWorkers = 1
    ThrowingKinds = {"cron"}
    Hour = 2
    MaxCrashes = 0
    MaxSignals = 1
SPECIFICATION FairSpec
PROPERTIES
    
    
    StopsWhenTold
