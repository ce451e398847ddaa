\* An unsubscription while sendreports finds that there is nothing to nag about.
CONSTANTS
    None = None
    c1 = c1
    s1 = s1
    s2 = s2
    u1 = u1
    u2 = u2
    q1 = q1
    j1 = j1
    Profiles = {1}
    Checks = {c1}
    Projects = {j1}
    ProjectOf <- MCProjectOf
    Members <- MCMembers
    QuietProfiles = {}
    NagPeriods = {1}
    StartingProfiles <- MCStartingProfiles
    ReportGap = 1
    Reporters = {s1}
    Updaters = {}
    Requests = {q1}
    ROps = {"unsubscribe"}
    MaxTime = 2
    MaxChanges = 1
    MaxStops = 0
SPECIFICATION RSpec
PROPERTIES
    StaysUnsubscribed
