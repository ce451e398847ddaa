------------------------------ MODULE MCReports -------------------------------
(* Small instances of Reports for TLC. *)
EXTENDS Reports, TLC

CONSTANTS c1, s1, s2, u1, u2, q1, j1    \* model values

ReporterSymmetry == Permutations(Reporters)

\* One project, to which every profile has access.
MCProjectOf == [c \in Checks |-> j1]
MCMembers   == [j \in Projects |-> Profiles]

\* for_user creates a profile that has no date yet.  Where nags are on, one may
\* be due although the checks are up: clear_events leaves its date alone.
Row(report, period, nag) ==
    [reports |-> TRUE, nextReport |-> report, nagPeriod |-> period,
     nextNag |-> nag]

MCStartingProfiles ==
    {Row(None, NoNag, None), Row(0, NoNag, None)} \cup
    {Row(0, n, nag) : n \in NagPeriods, nag \in {None, 0}}
=============================================================================
