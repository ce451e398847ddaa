\* Two sendreports processes, one caller of update_next_nag_dates, and a request
\* that unsubscribes or changes the settings.
CONSTANTS
    None = None
    c1 = c1
    s1 = s1
    s2 = s2
    u1 = u1
    u2 = u2
    q1 = q1
    j1 = j1
    Profiles = {1}
    Checks = {c1}
    Projects = {j1}
    ProjectOf <- MCProjectOf
    Members <- MCMembers
    QuietProfiles = {}
    NagPeriods = {1}
    StartingProfiles <- MCStartingProfiles
    ReportGap = 1
    Reporters = {s1, s2}
    Updaters = {u1}
    Requests = {q1}
    ROps = {"settings", "unsubscribe"}
    MaxTime = 3
    MaxChanges = 1
    MaxStops = 0
SPECIFICATION RSpec
SYMMETRY ReporterSymmetry
INVARIANTS
    ReportOnce
    NagsSpaced
PROPERTIES
    ClaimedOnlySubscribed
