------------------------------ MODULE LivePages ------------------------------
(***************************************************************************)
(* The pages that keep themselves up to date: the log of a check, which    *)
(* has filters and asks for what is new, the page of a check, which says   *)
(* what it has and is told when there is more, and the list of checks,     *)
(* which asks for everything.  adaptiveSetInterval decides when they ask;  *)
(* answers are late, come in any order, or not at all.                     *)
(***************************************************************************)
EXTENDS Integers, FiniteSets, FiniteSetsExt

CONSTANTS
    EventKinds,     \* kinds of events; a flip can be dated back
    Healths,        \* what the status can be after an event
    Quota,          \* 20 in the code: runs before the page is taken for idle
    LastEvent,      \* bound: events, and instants
    MaxInFlight     \* bound: requests that the page waits for

ASSUME LivePagesAssumption ==
    /\ Quota \in Nat \ {0} /\ LastEvent \in Nat /\ MaxInFlight \in Nat \ {0}

NoPage == "none"
Now == 0        \* the slider is at its end
NoDate == 0     \* there are no events
Unasked == -1   \* the page has not heard yet

VARIABLES
    events,         \* the pings, flips and notifications of the check
    instant,        \* moves on with every event
    health,         \* what Check.get_status says
    opened,         \* the page that is open
    loadedAt,       \* when; the slider of the log ends there
    view,           \* what it shows and what it remembers
    active,         \* activeRequest of the log is set
    requests,       \* requests in flight, with their answers
    quota,
    scheduled,      \* the timer that scheduledId is the id of is set
    loose           \* number of other timers

timerVars == <<quota, scheduled, loose>>
serverVars == <<events, instant, health>>
livePageVars ==
    <<serverVars, opened, loadedAt, view, active, requests, timerVars>>

Latest(es) == IF es = {} THEN NoDate ELSE Max({e.created : e \in es})

\* rows were given for forKinds and forEnd, the filters are kinds and end.
View(es, updated) ==
    [rows |-> es, forKinds |-> EventKinds, forEnd |-> Now, text |-> "",
     lastUpdated |-> updated, kinds |-> EventKinds, end |-> Now]

LivePagesInit ==
    /\ events = {} /\ instant = 1 /\ health = "new"
    /\ opened = NoPage /\ loadedAt = Now
    /\ view = View({}, Unasked)
    /\ active = FALSE /\ requests = {}
    /\ quota = 0 /\ scheduled = FALSE /\ loose = 0

-----------------------------------------------------------------------------
(* The server.                                                             *)

\* A ping, its flip, a notification; sendalerts dates a flip back to when
\* the check went down.
Occur(kind, created, status) ==
    /\ instant <= LastEvent
    /\ created \in 2 .. instant + 1 /\ (kind # "flip" => created = instant + 1)
    /\ instant' = instant + 1
    /\ events' = events \union {[kind |-> kind, created |-> created]}
    /\ health' = status
    /\ UNCHANGED <<opened, loadedAt, view, active, requests, timerVars>>

\* clear_events.
ForgetEvents ==
    /\ events # {}
    /\ events' = {} /\ health' = "new"
    /\ UNCHANGED <<instant, opened, loadedAt, view, active, requests, timerVars>>

\* log_events: what came since, or what the filters let through.
LogEvents(r) ==
    LET found == {e \in events :
                   /\ e.kind \in r.kinds
                   /\ IF r.since # NoDate THEN e.created > r.since
                                          ELSE r.end = Now \/ e.created <= r.end}
    IN [rows |-> found, given |-> TRUE, latest |-> Latest(found), text |-> ""]

\* Mutant of StatusSingle: the events only when the latest is later.
StatusSingleLater(r) ==
    [rows |-> events, given |-> Latest(events) > r.since,
     latest |-> Latest(events), text |-> health]

\* status_single: the events unless the page has the latest one.
StatusSingle(r) ==
    [rows |-> events, given |-> Latest(events) # r.since,
     latest |-> Latest(events), text |-> health]

\* status, for one check of the list.
Status == [rows |-> events, given |-> TRUE, latest |-> Latest(events),
           text |-> health]

NoAnswer == [rows |-> {}, given |-> FALSE, latest |-> NoDate, text |-> ""]

Answer(r) ==
    /\ r.answer = NoAnswer
    /\ requests' = (requests \ {r}) \union
         {[r EXCEPT !.answer = CASE opened = "log"     -> LogEvents(r)
                                 [] opened = "details" -> StatusSingle(r)
                                 [] opened = "checks"  -> Status]}
    /\ UNCHANGED <<serverVars, opened, loadedAt, view, active, timerVars>>

-----------------------------------------------------------------------------
(* Requests of the page.                                                   *)

Request(since, kinds, end, live) ==
    [since |-> since, kinds |-> kinds, end |-> end, live |-> live,
     answer |-> NoAnswer]

\* fetchNewEvents: unless a request is on its way.  The form that goes with
\* it has the value of the slider, the time the page was loaded at, which the
\* server heeds when there is no event to start from.
FetchNewEvents ==
    IF view.end = Now /\ ~active
    THEN /\ active' = TRUE
         /\ requests' = requests \union
              {Request(view.lastUpdated, view.kinds, loadedAt, TRUE)}
    ELSE UNCHANGED <<active, requests>>

\* refreshStatus of the list, and the function of the page of a check.  A
\* request more than MaxInFlight is one that times out.
RefreshStatus ==
    /\ requests' = IF Cardinality(requests) < MaxInFlight
                   THEN requests \union
                          {Request(view.lastUpdated, view.kinds, Now, TRUE)}
                   ELSE requests
    /\ active' = active

Refresh == IF opened = "log" THEN FetchNewEvents ELSE RefreshStatus

\* Mutant of ApplyFilters: the request that is on its way is let go on.
ApplyFiltersToo(kinds, end) ==
    /\ opened = "log" /\ <<kinds, end>> # <<view.kinds, view.end>>
    /\ view' = [view EXCEPT !.kinds = kinds, !.end = end]
    /\ active' = TRUE
    /\ Cardinality(requests) < MaxInFlight
    /\ requests' = requests \union {Request(NoDate, kinds, end, FALSE)}
    /\ UNCHANGED <<serverVars, opened, loadedAt, timerVars>>

\* applyFilters: aborts the request that is on its way.
ApplyFilters(kinds, end) ==
    /\ opened = "log" /\ <<kinds, end>> # <<view.kinds, view.end>>
    /\ view' = [view EXCEPT !.kinds = kinds, !.end = end]
    /\ active' = TRUE
    /\ requests' = {Request(NoDate, kinds, end, FALSE)}
    /\ UNCHANGED <<serverVars, opened, loadedAt, timerVars>>

-----------------------------------------------------------------------------
(* Answers.                                                                *)

Arrives(r) == r.answer # NoAnswer /\ requests' = requests \ {r}

\* The answer to new filters replaces what is shown.
OnFiltered(r) ==
    /\ opened = "log" /\ ~r.live /\ Arrives(r)
    /\ active' = FALSE
    /\ view' = [view EXCEPT !.rows = r.answer.rows,
                            !.lastUpdated = r.answer.latest,
                            !.forKinds = r.kinds, !.forEnd = r.end]
    /\ UNCHANGED <<serverVars, opened, loadedAt, timerVars>>

\* New events: their latest is remembered, and then the name dateFormat,
\* which is not defined, throws before the rows are added to the page.
OnNewEvents(r) ==
    /\ opened = "log" /\ r.live /\ Arrives(r)
    /\ active' = FALSE
    /\ view' = IF r.answer.rows = {} THEN view
               ELSE [view EXCEPT !.lastUpdated = r.answer.latest]
    /\ UNCHANGED <<serverVars, opened, loadedAt, timerVars>>

\* The page of a check: the status, and the events and downtimes if given.
OnSingle(r) ==
    /\ opened = "details" /\ Arrives(r)
    /\ view' = IF r.answer.given
               THEN [view EXCEPT !.text = r.answer.text, !.rows = r.answer.rows,
                                 !.lastUpdated = r.answer.latest]
               ELSE [view EXCEPT !.text = r.answer.text]
    /\ UNCHANGED <<serverVars, opened, loadedAt, active, timerVars>>

\* The list: the status and the last ping of each check.
OnStatus(r) ==
    /\ opened = "checks" /\ Arrives(r)
    /\ view' = [view EXCEPT !.text = r.answer.text, !.rows = r.answer.rows,
                            !.lastUpdated = r.answer.latest]
    /\ UNCHANGED <<serverVars, opened, loadedAt, active, timerVars>>

\* Two seconds without an answer.  applyFilters has no error handler:
\* activeRequest stays, and with it fetchNewEvents does nothing any more.
TimeOut(r) ==
    /\ requests' = requests \ {r}
    /\ active' = (active /\ ~r.live)
    /\ UNCHANGED <<serverVars, opened, loadedAt, view, timerVars>>

-----------------------------------------------------------------------------
(* adaptiveSetInterval.                                                    *)

\* Mutant of SetTimer: the timer that is set already is not cleared.
SetTimerToo(isSet) ==
    /\ scheduled' = TRUE
    /\ loose' = IF isSet THEN loose + 1 ELSE loose

\* clearTimeout(scheduledId), setTimeout.
SetTimer(isSet) == scheduled' = TRUE /\ UNCHANGED loose

\* scheduleRun, called by the timer.
ScheduleRun ==
    /\ scheduled
    /\ IF quota > 0 THEN quota' = quota - 1 /\ SetTimer(FALSE) /\ Refresh
       ELSE scheduled' = FALSE /\ UNCHANGED <<quota, loose, active, requests>>
    /\ UNCHANGED <<serverVars, opened, loadedAt, view>>

\* The mouse moves, or the tab becomes visible.
ResetQuota ==
    /\ opened # NoPage
    /\ IF quota = 0 THEN quota' = Quota - 1 /\ SetTimer(scheduled) /\ Refresh
       ELSE quota' = Quota /\ UNCHANGED <<scheduled, loose, active, requests>>
    /\ UNCHANGED <<serverVars, opened, loadedAt, view>>

ClearQuota ==
    /\ quota > 0 /\ quota' = 0
    /\ UNCHANGED <<serverVars, opened, loadedAt, view, active, requests,
                   scheduled, loose>>

EveryMinute ==
    /\ opened # NoPage /\ Refresh
    /\ UNCHANGED <<serverVars, opened, loadedAt, view, timerVars>>

\* log, details or checks: the page is loaded and sets its timer.
Open(p) ==
    /\ opened = NoPage /\ opened' = p
    /\ loadedAt' = instant
    /\ view' = CASE p = "log"    -> View(events, Latest(events))
                 [] p = "checks" -> View(events, Unasked)
                 [] OTHER        -> View({}, Unasked)
    /\ quota' = Quota /\ scheduled' = TRUE
    /\ UNCHANGED <<serverVars, active, requests, loose>>

-----------------------------------------------------------------------------

LivePagesNext ==
    \/ \E k \in EventKinds, t \in 2 .. instant + 1, s \in Healths : Occur(k, t, s)
    \/ ForgetEvents
    \/ \E p \in {"log", "details", "checks"} : Open(p)
    \/ \E kinds \in SUBSET EventKinds, end \in {Now} \union 2 .. loadedAt :
          ApplyFilters(kinds, end)
    \/ \E r \in requests :
          \/ Answer(r) \/ OnFiltered(r) \/ OnNewEvents(r) \/ OnSingle(r) \/ OnStatus(r)
          \/ TimeOut(r)
    \/ ScheduleRun \/ ResetQuota \/ ClearQuota \/ EveryMinute

\* The interval of a minute runs on whether or not the page is looked at; the
\* server answers, and not every answer comes too late.
LivePagesFairness ==
    /\ WF_livePageVars(EveryMinute)
    /\ SF_livePageVars(\E r \in requests : Answer(r))
    /\ SF_livePageVars(\E r \in requests : OnSingle(r) \/ OnStatus(r))

LivePagesSpec == LivePagesInit /\ [][LivePagesNext]_livePageVars /\ LivePagesFairness

-----------------------------------------------------------------------------

\* However tabs are hidden, shown and moved over before a timer runs out,
\* there is one chain of timers: the page does not ask more than every three
\* seconds for long.
OneTimer == loose = 0

\* The log, when it waits for nothing, shows what the filters ask for, and not
\* the late answer to earlier ones.
ShownIsFiltered ==
    opened = "log" /\ ~active =>
        /\ view.forKinds = view.kinds /\ view.forEnd = view.end
        /\ \A e \in view.rows : e.kind \in view.kinds

\* Though answers come late and in any order, and one may say that nothing is
\* new of events the page shows no longer, the page of a check and the list
\* end up with the status and the latest event.  (A flip that is dated back
\* before the latest event is not asked for until there is another.)
PagesCatchUp ==
    <>[](opened \in {"details", "checks"} =>
           view.text = health /\ view.lastUpdated = Latest(events))
=============================================================================
