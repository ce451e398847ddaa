\* One sendreports process that may crash and be told to stop, and a request
\* that saves an old copy of the profile.
CONSTANTS
    None = None
    c1 = c1
    s1 = s1
    s2 = s2
    u1 = u1
    u2 = u2
    q1 = q1
    j1 = j1
    Profiles = {1}
    Checks = {c1}
    Projects = {j1}
    ProjectOf <- MCProjectOf
    Members <- MCMembers
    QuietProfiles = {}
    NagPeriods = {1}
    StartingProfiles <- MCStartingProfiles
    ReportGap = 1
    Reporters = {s1}
    Updaters = {u1}
    Requests = {q1}
    ROps = {"other"}
    MaxTime = 2
    MaxChanges = 2
    MaxStops = 1
SPECIFICATION RFairSpec
PROPERTIES
    DueHandled
