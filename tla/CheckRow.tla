------------------------------ MODULE CheckRow ------------------------------
(***************************************************************************)
(* The row of the table api_check and the functions the code computes from *)
(* one row: when the grace period starts, when the check goes down, which  *)
(* status it has at a given time, and what a ping makes of it.             *)
(*                                                                         *)
(* A row is a record, so a copy of a row that a process keeps in memory    *)
(* while the table moves on is a value like any other.  Times are natural  *)
(* numbers; NULL (a missing time, or a schedule that never elapses) is     *)
(* None.                                                                   *)
(***************************************************************************)
EXTENDS Integers

CONSTANTS
    None,               \* NULL: no time, no run id
    Instants,           \* the times the clock can show
    Rids,               \* run ids a client may send with a ping
    Configs,            \* schedules a check can be given
    NextElapse(_, _)    \* next elapse of a cron or OnCalendar expression

Statuses == {"new", "up", "paused", "down"}
Kinds    == {"simple", "cron", "oncalendar"}
Actions  == {"success", "fail", "start", "log", "ign"}

Maybe(S) == S \cup {None}

ASSUME NoneAssumption    == None \notin Nat /\ None \notin Rids
ASSUME InstantAssumption == Instants \subseteq Nat

\* kind, timeout, schedule and grace, the columns that say when a ping is due.
ASSUME ConfigAssumption ==
    \A cfg \in Configs :
        /\ cfg.kind \in Kinds
        /\ cfg.timeout \in Nat \ {0}
        /\ cfg.grace \in Nat \ {0}

\* cronsim and oncalendar return a strictly later time; only an OnCalendar
\* expression may have none (get_grace_start catches StopIteration for it).
ASSUME NextElapseAssumption ==
    \A cfg \in Configs, t \in Instants :
        LET e == NextElapse(cfg.schedule, t) IN
            \/ cfg.kind = "oncalendar" /\ e = None
            \/ e \in Nat /\ e > t

Row == [status       : Statuses,
        lastPing     : Maybe(Instants),
        lastStart    : Maybe(Instants),
        lastStartRid : Maybe(Rids),
        alertAfter   : Maybe(Nat),
        cfg          : Configs,
        manualResume : BOOLEAN,
        renamed      : BOOLEAN]

NewRow(cfg, manual) ==
    [status |-> "new", lastPing |-> None, lastStart |-> None,
     lastStartRid |-> None, alertAfter |-> None, cfg |-> cfg,
     manualResume |-> manual, renamed |-> FALSE]

-----------------------------------------------------------------------------
(* When the next ping is due and when its grace time is over.              *)

\* The earlier of two times; None stands for NEVER.
Earlier(a, b) == IF a = None \/ (b # None /\ b < a) THEN b ELSE a

\* An "up" check expects a ping one period after the last one.
NextExpected(r) ==
    IF r.status # "up" THEN None
    ELSE IF r.cfg.kind = "simple" THEN r.lastPing + r.cfg.timeout
    ELSE NextElapse(r.cfg.schedule, r.lastPing)

GetGraceStart(r, withStarted) ==
    IF withStarted /\ r.lastStart # None /\ r.status # "down"
    THEN Earlier(NextExpected(r), r.lastStart)
    ELSE NextExpected(r)

GoingDownAfter(r) ==
    LET start == GetGraceStart(r, TRUE)
    IN  IF start = None THEN None ELSE start + r.cfg.grace

\* Check.get_status(with_started=False) at time t.
GetStatus(r, t) ==
    LET start == GetGraceStart(r, FALSE) IN
    IF r.lastStart # None /\ t >= r.lastStart + r.cfg.grace THEN "down"
    ELSE IF r.status # "up" THEN r.status
    ELSE IF start = None \/ t < start THEN "up"
    ELSE IF t < start + r.cfg.grace THEN "grace"
    ELSE "down"

-----------------------------------------------------------------------------
(* What Check.ping makes of the row it has locked.                         *)

\* A paused check with manual_resume set ignores every ping.
EffectiveAction(r, action) ==
    IF r.status = "paused" /\ r.manualResume THEN "ign" ELSE action

\* Mutant of EndsRun: a success without an id ends only a run without one.
EndsRunById(r, action, rid) == r.lastStartRid = rid \/ action = "fail"

\* The signal ends the run when its id matches; a failure, and a signal
\* without an id, end any run.
EndsRun(r, action, rid) ==
    r.lastStartRid = rid \/ action = "fail" \/ rid = None

Pinged(r, action, rid, t) ==
    LET after ==
          CASE action = "start" ->
                 [r EXCEPT !.lastStart = t, !.lastStartRid = rid]
            [] action \in {"success", "fail"} ->
                 [r EXCEPT !.lastPing  = t,
                           !.lastStart = IF EndsRun(r, action, rid)
                                         THEN None ELSE @,
                           !.status    = IF action = "fail"
                                         THEN "down" ELSE "up"]
            [] OTHER -> r
    IN  [after EXCEPT !.alertAfter = GoingDownAfter(after)]
=============================================================================
