---------------------------- MODULE MonthlyLimits ----------------------------
(***************************************************************************)
(* The monthly limits of text messages and calls, which are counted in the *)
(* row of the profile.  Each delivery reads the whole row and saves the    *)
(* whole row, and so does everything else that changes a profile.  The two *)
(* counters work alike, so there is one.                                   *)
(***************************************************************************)
EXTENDS Naturals, Sequences, FiniteSets

CONSTANTS
    Copies,         \* copies of the row at a time
    MonthlyLimit,   \* sms_limit or call_limit
    MaxMonths,      \* bound: months
    MaxSent         \* bound: deliveries that are authorized

ASSUME MonthlyAssumption == MonthlyLimit \in Nat

VARIABLES
    thisMonth,
    counter,        \* of the row: sms_sent and the month of last_sms_date, 0 for None
    copy,           \* what is done with each copy
    sent,           \* history: the months of the authorized deliveries
    uncounted       \* history: those of them a save has overwritten

monthlyVars == <<thisMonth, counter, copy, sent, uncounted>>

NoCopy == [at |-> "none"]

MonthlyInit ==
    /\ thisMonth = 1
    /\ counter = [sent |-> 0, last |-> 0]
    /\ copy = [k \in Copies |-> NoCopy]
    /\ sent = <<>>
    /\ uncounted = {}

\* Mutant of SentThisMonth: the first delivery of a month is not counted.
SentBefore(c) == IF c.last = thisMonth /\ c.sent > 0 THEN c.sent - 1 ELSE 0

\* sms_sent_this_month, calls_sent_this_month.
SentThisMonth(c) == IF c.last = 0 \/ thisMonth > c.last THEN 0 ELSE c.sent

\* for_user, owner_profile, or any other query.
LoadProfile(k) ==
    /\ copy[k] = NoCopy
    /\ copy' = [copy EXCEPT ![k] =
                  [at |-> "loaded", row |-> counter, seen |-> Len(sent)]]
    /\ UNCHANGED <<thisMonth, counter, sent, uncounted>>

\* authorize_sms, authorize_call: the comparison.
CountSent(k) ==
    LET c == copy[k] IN
    /\ c.at = "loaded"
    /\ copy' = [copy EXCEPT ![k] =
                  IF SentThisMonth(c.row) >= MonthlyLimit THEN NoCopy
                  ELSE [c EXCEPT !.at = "counted", !.row.sent = SentThisMonth(c.row) + 1]]
    /\ UNCHANGED <<thisMonth, counter, sent, uncounted>>

\* What a save overwrites: the deliveries authorized since the row was read.
Overwrite(k) == uncounted' = uncounted \union (copy[k].seen + 1 .. Len(sent))

\* last_sms_date, with a clock of its own, and save.
SaveCounter(k) ==
    /\ copy[k].at = "counted"
    /\ Len(sent) < MaxSent
    /\ counter' = [copy[k].row EXCEPT !.last = thisMonth]
    /\ sent' = Append(sent, thisMonth)
    /\ Overwrite(k)
    /\ copy' = [copy EXCEPT ![k] = NoCopy]
    /\ UNCHANGED thisMonth

\* Settings, reports, nags, notices of inactivity: they save the row they read.
SaveProfile(k) ==
    /\ copy[k].at = "loaded"
    /\ counter' = copy[k].row
    /\ Overwrite(k)
    /\ copy' = [copy EXCEPT ![k] = NoCopy]
    /\ UNCHANGED <<thisMonth, sent>>

TurnMonth ==
    /\ thisMonth < MaxMonths
    /\ thisMonth' = thisMonth + 1
    /\ UNCHANGED <<counter, copy, sent, uncounted>>

MonthlyNext ==
    \/ \E k \in Copies : \/ LoadProfile(k) \/ CountSent(k)
                         \/ SaveCounter(k) \/ SaveProfile(k)
    \/ TurnMonth

MonthlySpec == MonthlyInit /\ [][MonthlyNext]_monthlyVars

-----------------------------------------------------------------------------

\* In a month no more is sent than the limit allows, except for deliveries
\* that a save of the profile has overwritten, whatever that save was for,
\* and also when the month turns in the middle (authorize_sms,
\* authorize_call).
MonthlyKept ==
    \A m \in 1 .. MaxMonths :
        Cardinality({i \in DOMAIN sent \ uncounted : sent[i] = m}) <= MonthlyLimit
=============================================================================
