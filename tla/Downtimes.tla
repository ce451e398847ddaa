----------------------------- MODULE Downtimes -------------------------------
(***************************************************************************)
(* The history of one check, as its flips tell it: what changes the status *)
(* and records a flip, what deletes flips, and the downtimes that pages    *)
(* and reports calculate back from the current status.                     *)
(*                                                                         *)
(* Time is discrete.  The status changes at odd times and a month begins   *)
(* at an even one, so that no flip is in the very microsecond in which a   *)
(* month begins.  Zones and daylight saving time are not modelled.         *)
(***************************************************************************)
EXTENDS Integers, Sequences, SequencesExt, FiniteSets, FiniteSetsExt

CONSTANTS
    LongMonth,      \* length of the longest month: 31 days in the code
    MaxTime         \* bound: the clock

ASSUME DowntimesAssumption ==
    LongMonth \in Nat \ {0} /\ LongMonth % 2 = 0 /\ MaxTime \in Nat

Conditions == {"up", "down", "paused"}

VARIABLES
    time,
    months,         \* the beginnings of all months so far, oldest first
    condition,      \* status, of which new and paused are the same here
    changes,        \* the flips
    unwritten,      \* sendalerts has changed the status and not yet inserted this
    changed,        \* history: when the status last changed
    wasDown,        \* history: n is in it when the check was down from n to n + 1
    blurred         \* history: when a flip was last lost, cleared, or passed over

downtimeVars ==
    <<time, months, condition, changes, unwritten, changed, wasDown,
      blurred>>

NoFlip == [at |-> 0, old |-> "none", new |-> "none"]

\* A check, created in the first month there is.
DowntimesInit ==
    /\ time = 1
    /\ months = <<0>>
    /\ condition = "paused"
    /\ changes = {}
    /\ unwritten = NoFlip
    /\ changed = 0
    /\ wasDown = {}
    /\ blurred = -1

-----------------------------------------------------------------------------

\* Check.create_flip and the new status, in one transaction: pings, pausing,
\* resuming, and a timeout that has become shorter.
ChangeStatus(new) ==
    /\ new # condition
    /\ changed < time
    /\ changed' = time
    /\ changes' = changes \union {[at |-> time, old |-> condition, new |-> new]}
    /\ condition' = new
    /\ UNCHANGED <<time, months, unwritten, wasDown, blurred>>

\* handle_going_down: the UPDATE.  The flip is dated back to when the grace
\* time ended.
GoDown(t) ==
    /\ condition = "up"
    /\ unwritten = NoFlip
    /\ t > changed
    /\ changed' = t
    /\ condition' = "down"
    /\ unwritten' = [at |-> t, old |-> "up", new |-> "down"]
    /\ wasDown' = wasDown \union t .. time - 1
    /\ UNCHANGED <<time, months, changes, blurred>>

InsertFlip ==
    /\ unwritten # NoFlip
    /\ changes' = changes \union {unwritten}
    /\ unwritten' = NoFlip
    /\ UNCHANGED <<time, months, condition, changed, wasDown, blurred>>

\* sendalerts ends in between.
LoseFlip ==
    /\ unwritten # NoFlip
    /\ unwritten' = NoFlip
    /\ blurred' = time
    /\ UNCHANGED <<time, months, condition, changes, changed, wasDown>>

\* clear_events: the status, and the flips.
ClearFlips ==
    /\ condition' = "paused"
    /\ changes' = {}
    /\ blurred' = time /\ changed' = time
    /\ UNCHANGED <<time, months, unwritten, wasDown>>

\* Mutant of PruneAge: two months are thought to be enough.
TwoMonths == 2 * LongMonth

\* Check.prune: 93 days.
PruneAge == 3 * LongMonth

\* Check.prune: older than 93 days and than the oldest ping.  A flip that
\* sendalerts has still to insert may be older than one of them.
PruneFlips(oldest) ==
    LET kept == {f \in changes : f.at >= Min({oldest, time - PruneAge})} IN
    /\ changes' = kept
    /\ blurred' = IF \E f \in changes \ kept : unwritten # NoFlip /\ f.at > unwritten.at
                  THEN time ELSE blurred
    /\ UNCHANGED <<time, months, condition, unwritten, changed, wasDown>>

\* A month may begin unless the current one is short, and must not be late.
Pass(begins) ==
    LET age == time + 1 - Last(months) IN
    /\ time + 2 <= MaxTime
    /\ IF begins THEN 2 * age >= LongMonth ELSE age < LongMonth
    /\ time' = time + 2
    /\ wasDown' = IF condition = "down" THEN wasDown \union {time, time + 1}
                  ELSE wasDown
    /\ months' = IF begins THEN Append(months, time + 1) ELSE months
    /\ UNCHANGED <<condition, changes, unwritten, changed, blurred>>

DowntimesNext ==
    \/ \E new \in Conditions : ChangeStatus(new)
    \/ \E t \in {n \in 1 .. time : n % 2 = 1} : GoDown(t)
    \/ InsertFlip \/ LoseFlip \/ ClearFlips
    \/ \E oldest \in {0, time} : PruneFlips(oldest)
    \/ \E begins \in BOOLEAN : Pass(begins)

DowntimesSpec == DowntimesInit /\ [][DowntimesNext]_downtimeVars

-----------------------------------------------------------------------------
(* downtimes_by_boundary.                                                  *)

\* month_boundaries(3): the current month and two before it, latest first.
Boundaries ==
    LET n == Min({3, Len(months)}) IN [i \in 1 .. n |-> months[Len(months) + 1 - i]]

\* The moments of the boundaries and of the flips since the oldest.
Events ==
    {t \in Last(Boundaries) .. time :
        t \in Range(Boundaries) \/ \E f \in changes : f.at = t}

\* prev_status, "---" at a boundary.
StatusBefore(t) ==
    IF t \in Range(Boundaries) THEN "---" ELSE (CHOOSE f \in changes : f.at = t).old

\* DowntimeRecorder.add: to the first interval that the moment is in.
RecordOf(when) == SelectInSeq(Boundaries, LAMBDA b : when >= b)

\* One turn of the loop.
Piece(acc, t) ==
    LET i == RecordOf(t) IN
    [dt      |-> t,
     status  |-> IF StatusBefore(t) = "---" THEN acc.status ELSE StatusBefore(t),
     records |-> IF acc.status # "down" THEN acc.records
                 ELSE [acc.records EXCEPT ![i] = [duration |-> @.duration + acc.dt - t,
                                                    count    |-> @.count + 1]]]

\* From now on back: the earliest event comes last.
downtimes_by_boundary ==
    MapThenFoldSet(LAMBDA t, acc : Piece(acc, t),
                   [dt |-> time, status |-> condition,
                    records |-> [i \in DOMAIN Boundaries |-> [duration |-> 0, count |-> 0]]],
                   LAMBDA t : t, LAMBDA ts : Min(ts), Events).records

\* Flip.down_duration, 0 for None.
DownDuration(f) ==
    LET before == {g \in changes : g.at < f.at} IN
    IF \E g \in before : g.new = "down" /\ \A h \in before : h.at <= g.at
    THEN f.at - Max({g.at : g \in before}) ELSE 0

-----------------------------------------------------------------------------

EndOf(i) == IF i = 1 THEN time ELSE Boundaries[i - 1]

\* Of an interval, when the check was down, and when it went down or the
\* interval began with it down.
DownIn(i) == wasDown \intersect (Boundaries[i] .. EndOf(i) - 1)
OutagesIn(i) == {n \in DownIn(i) : n = Boundaries[i] \/ n - 1 \notin wasDown}

\* Time and number of the outages that a page or a report shows for this
\* month and the two before are those there have been: flips that are pruned
\* are never needed, a flip that sendalerts dates back is counted from its
\* date, an outage is cut where a month ends.  Not so for a month in which a
\* flip was lost or cleared, or pruned before an earlier one was inserted, and
\* while sendalerts has changed the status and not inserted the flip; an
\* outage of this very moment has no length yet.
\* What a message says of an outage that is over is true of that outage.
DowntimesTrue ==
    LET d == downtimes_by_boundary IN
    unwritten = NoFlip =>
      /\ \A i \in DOMAIN Boundaries :
            Boundaries[i] > blurred =>
                /\ d[i].duration = Cardinality(DownIn(i))
                /\ d[i].count = Cardinality(OutagesIn(i))
                      + (IF i = 1 /\ condition = "down" /\ changed = time
                         THEN 1 ELSE 0)
      /\ \A f \in changes :
            f.old = "down" /\ blurred < f.at - DownDuration(f) =>
                /\ (f.at - DownDuration(f)) .. (f.at - 1) \subseteq wasDown
                /\ DownDuration(f) > 0 => f.at - DownDuration(f) - 1 \notin wasDown
=============================================================================
