------------------------------- MODULE PingLog -------------------------------
(***************************************************************************)
(* The pings of one check as pages and the API show them, with durations:  *)
(* Ping.duration looks for the start of a run in the table, and            *)
(* prepare_durations, where it can, among the pings it is given.           *)
(* Notifications and flips, which pages show too, have no durations and    *)
(* are left out.                                                           *)
(***************************************************************************)
EXTENDS Integers, Sequences, FiniteSets, FiniteSetsExt

CONSTANTS
    RunIds,         \* run ids; a ping may have none
    Arriving,       \* kinds of pings that arrive
    LongestRun,     \* MAX_DURATION
    VisiblePings,   \* ping_log_limit of the owner
    PageLimit,      \* pings on a page at most: 30 or 1000 in the code
    MaxMisses,      \* 10 in the code
    LastMoment,     \* bound: the clock
    MaxRows         \* bound: pings

ASSUME PingLogAssumption ==
    /\ Arriving \subseteq {"start", "success", "fail", "log"}
    /\ LongestRun \in Nat \ {0} /\ VisiblePings \in Nat \ {0}
    /\ PageLimit \in Nat \ {0} /\ MaxMisses \in Nat
    /\ LastMoment \in Nat /\ MaxRows \in Nat

NoRun == "no run"
StartKinds == {"start"}
Ends == {"success", "fail"}
ShownKinds == StartKinds \union Ends \union {"log"}     \* log and ign

VARIABLES
    moment,
    arrived,        \* all pings so far, of which n is the index and id the order
    deleted         \* those up to this one are no longer in the table

pingLogVars == <<moment, arrived, deleted>>

PingLogInit == moment = 1 /\ arrived = <<>> /\ deleted = 0

Proceed ==
    /\ moment < LastMoment
    /\ moment' = moment + 1
    /\ UNCHANGED <<arrived, deleted>>

\* Check.ping: the row.  The run id of a log or an ign is of no use.
AddPing(kind, run) ==
    /\ kind = "log" => run = NoRun
    /\ Len(arrived) < MaxRows
    /\ arrived' = Append(arrived, [created |-> moment, kind |-> kind, run |-> run])
    /\ UNCHANGED <<moment, deleted>>

\* Check.prune: the pings that are no longer visible.
DeleteInvisible ==
    /\ Len(arrived) - VisiblePings > deleted
    /\ deleted' = Len(arrived) - VisiblePings
    /\ UNCHANGED <<moment, arrived>>

\* clear_events: all pings; n goes on.
DeleteAll ==
    /\ deleted # Len(arrived)
    /\ deleted' = Len(arrived)
    /\ UNCHANGED <<moment, arrived>>

PingLogNext ==
    \/ Proceed
    \/ \E kind \in Arriving, run \in RunIds \union {NoRun} : AddPing(kind, run)
    \/ DeleteInvisible
    \/ DeleteAll

PingLogSpec == PingLogInit /\ [][PingLogNext]_pingLogVars

Table == deleted + 1 .. Len(arrived)

-----------------------------------------------------------------------------
(* Durations.                                                              *)

Unknown == -1

\* Ping.duration of ping n: of what began or ended its run last.
Duration(n) ==
    LET p == arrived[n]
        same == {m \in Table : /\ m < n
                               /\ arrived[m].created >= p.created - LongestRun
                               /\ arrived[m].run = p.run
                               /\ arrived[m].kind \in StartKinds \union Ends}
        last == Max(same) IN
    IF n = 1 \/ p.kind \notin Ends \/ same = {} THEN Unknown
    ELSE IF arrived[last].kind = "start"
         THEN p.created - arrived[last].created ELSE Unknown

\* prepare_durations, given a set of pings: what it has seen of a run when it
\* comes to ping n.
Seen(page, n) ==
    {m \in page : m < n /\ arrived[m].run = arrived[n].run
                        /\ arrived[m].kind \in StartKinds \union Ends}

\* Nothing is seen, and the page does not reach back far enough.
IsMiss(page, n) ==
    /\ arrived[n].kind \in Ends
    /\ Seen(page, n) = {}
    /\ arrived[n].created - arrived[Min(page)].created < LongestRun

\* Mutant of Prepared: an end does not end the run.
PreparedAgain(page, n) ==
    LET starts == {m \in Seen(page, n) : arrived[m].kind = "start"}
        length == arrived[n].created - arrived[Max(starts)].created IN
    IF starts # {} /\ length < LongestRun THEN length ELSE Unknown

\* A start that is seen, and that nothing seen since then has ended.
Prepared(page, n) ==
    LET last == Max(Seen(page, n))
        length == arrived[n].created - arrived[last].created IN
    IF Seen(page, n) # {} /\ arrived[last].kind = "start" /\ length < LongestRun
    THEN length ELSE Unknown

Misses(page) == {n \in page : IsMiss(page, n)}

\* What is shown for ping n.
ShownDuration(page, n) ==
    IF arrived[n].kind \notin Ends \/ Cardinality(Misses(page)) > MaxMisses THEN Unknown
    ELSE IF IsMiss(page, n) THEN Duration(n) ELSE Prepared(page, n)

-----------------------------------------------------------------------------
(* Pages.                                                                  *)

LatestOf(pings, limit) == {n \in pings : Cardinality({m \in pings : m > n}) < limit}

visible_pings == {n \in Table : n > Len(arrived) - VisiblePings}

\* _get_events.
GetEvents(limit, start, end, kinds) ==
    LatestOf({n \in visible_pings : /\ arrived[n].created \in start .. end
                                    /\ arrived[n].kind \in kinds}, limit)

OldestVisible == IF visible_pings = {} THEN 0 ELSE arrived[Min(visible_pings)].created

LogView == GetEvents(PageLimit, OldestVisible, moment, ShownKinds)

\* Since an event that was shown, or with filters.
log_events(since, end, kinds) ==
    GetEvents(PageLimit, Max({since, OldestVisible}), end, kinds)

status_single == GetEvents(PageLimit, 0, moment, ShownKinds)

\* pings of the API, the latest ones whether visible or not.
ApiPings == LatestOf(Table, Min({VisiblePings, PageLimit}))

\* Filters that show all that begins or ends a run, or no end.
Balanced ==
    {kinds \in SUBSET ShownKinds :
        StartKinds \union Ends \subseteq kinds \/ kinds \intersect Ends = {}}

Pages ==
    {LogView, status_single, ApiPings}
        \union {log_events(since, end, kinds) :
                  since \in 1 .. moment, end \in 1 .. moment, kinds \in Balanced}

-----------------------------------------------------------------------------

\* The optimization of prepare_durations gives what Ping.duration gives for
\* every ping of every page, wherever the page begins and ends, with runs that
\* overlap and starts that are gone; unless there are too many misses, when
\* no duration is shown.  A run that took exactly 72 hours has a duration only
\* for Ping.duration.  Not so when a filter hides starts, or successes, or
\* failures: then what it hides neither begins nor ends a run.
DurationsAgree ==
    \A page \in Pages : \A n \in page :
        \/ ShownDuration(page, n) = Duration(n)
        \/ Duration(n) = LongestRun /\ ShownDuration(page, n) = Unknown
        \/ Cardinality(Misses(page)) > MaxMisses /\ ShownDuration(page, n) = Unknown
=============================================================================
