SPECIFICATION SiteSpec
CONSTANTS
    c1 = c1
    c2 = c2
    me = me
    other = other
    s1 = s1
    q1 = q1
    q2 = q2
    NoRow = NoRow
    ChannelIds = {c1, c2}
    Targets = {me, other}
    OwnAddress = me
    FirstKind <- MCFirstKind
    Fresh = {c1}
    Configured <- MCConfigured
    KindsOff = {"shell"}
    Threads = {s1}
    WebRequests = {q1, q2}
    MaxNotes = 2
    u1 = u1
    u2 = u2
    a1 = a1
    a2 = a2
    secret = secret
    Users = {u1, u2}
    FirstUsers = {u1}
    Browsers = {t1, t2}
    Addresses = {a1, a2}
    Passwords = {secret}
    Nothing = Nothing
    MaxLinks = 2
    MaxRequests = 6
    ann = ann
    bob = bob
    eve = eve
    p1 = p1
    p2 = p2
    k1 = k1
    k2 = k2
    k3 = k3
    h1 = h1
    People = {ann, bob, eve}
    ProjectIds = {p1, p2}
    FirstOwner <- MCOwner
    FirstMembers <- MCMembers
    FirstHome <- MCHome
    MemberIds = {1, 2}
    Checks = {k1, k2, k3}
    Hooks = {h1}
    Slots = {t1, t2}
    CheckLimit = 2
    Gone = Gone
    MaxBegun = 4
    MaxKeys = 1
    t1 = t1
    t2 = t2
    Places = {p1, p2}
    Tabs = {t1, t2}
    SettingsOn <- MCSettings
    Empty = Empty
    MaxFlows = 2
    MaxVisits = 4
    MaxForms = 1
    Handlers = {t1, t2}
    LogLimit = 1
    PruneEvery = 2
    MaxLog = 3
    RunIds = {"r1"}
    Arriving = {"start", "success"}
    LongestRun = 1
    VisiblePings = 3
    PageLimit = 3
    MaxMisses = 1
    LastMoment = 3
    MaxRows = 4
    ListedIn <- MCListedIn
    Tags = {"a"}
SYMMETRY SiteSymmetry
CONSTRAINT SiteBounds
INVARIANTS
    VerifiedIsProven
    AlertsGoToProven
    DisabledForCause
    DeadLinksStayDead
    SecondFactorAsked
    EmailProven
    OwnerWasAsked
    
    LimitKept
    GrantsGoHomeOnce
    OnlyPrunedGoes
    DurationsAgree
    SummariesAgree
CHECK_DEADLOCK FALSE
