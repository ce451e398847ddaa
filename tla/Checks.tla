------------------------------- MODULE Checks -------------------------------
(***************************************************************************)
(* The tables api_check, api_ping and api_flip, and the processes that     *)
(* write them on behalf of clients: pings, and the requests of the web UI  *)
(* and the API that pause, resume, reconfigure, clear and remove a check.  *)
(*                                                                         *)
(* Check.ping runs in a transaction that locks the row, so it is one step. *)
(* The requests take no lock and open no transaction (ATOMIC_REQUESTS is   *)
(* not set): each reads the row, keeps the copy, and writes a few columns  *)
(* computed from it, one statement after the other.  Every statement is a  *)
(* step here, and the copy is req[q].row.  uWSGI may kill a request        *)
(* between any two of them (harakiri in docker/uwsgi.ini).                 *)
(***************************************************************************)
EXTENDS CheckRow

CONSTANTS
    Checks,         \* the checks, all freshly created in the initial state
    Requests,       \* web and API requests, each served once
    Ops,            \* the operations those requests may ask for
    PingActions,    \* the actions pings may ask for
    MaxPings        \* bound: pings a check receives

AllOps == {"pause", "resume", "timeout", "update", "filter", "clear", "remove"}

ASSUME OpsAssumption == Ops \subseteq AllOps /\ PingActions \subseteq Actions
ASSUME BoundAssumption == MaxPings \in Nat /\ None \notin Checks
ASSUME StartAssumption == 0 \in Instants

VARIABLES
    now,        \* the clock
    table,      \* ids of the rows present in api_check
    row,        \* the row of each check; the last one for a deleted check
    nPings,     \* the column n_pings
    pings,      \* api_ping
    flips,      \* api_flip
    lastFlip,   \* the last id given out by the sequence of api_flip
    req,        \* what each request is doing, and its copy of the row
    outdated    \* history: checks whose alert_after was last computed from
                \* a copy that no longer agreed with the row

checkVars == <<now, table, row, nPings, pings, flips, lastFlip, req, outdated>>

Reasons == {"", "fail", "timeout"}

\* processed: "no" is NULL; "created" marks a flip born processed
\* (mark_as_processed), "claimed" one that sendalerts has picked up.
Flip == [id        : Nat,
         owner     : Checks,
         created   : Nat,
         oldStatus : Statuses,
         newStatus : Statuses,
         reason    : Reasons,
         processed : {"no", "created", "claimed"}]

Ping == [owner   : Checks,
         n       : Nat,
         created : Instants,
         kind    : Actions,
         rid     : Maybe(Rids)]

ReqSteps == {"decide", "flip", "save", "saveDown", "clearPings",
             "clearFlips", "rename", "collect", "delete", "collectAgain",
             "deleteAgain"}

\* What a form or a JSON document may carry: a schedule, manual_resume.
Input == [cfg : Maybe(Configs), manual : Maybe(BOOLEAN)]

\* mark is what a deletion has collected.
Request == [step : ReqSteps, op : AllOps, c : Checks, row : Row,
            input : Input, mark : Nat \X Nat]

\* A request that has not been served yet, or is finished, holds nothing.
Idle == [step |-> "idle"]
Done == [step |-> "done"]

Init ==
    /\ now = 0
    /\ table = Checks
    /\ row \in [Checks -> {NewRow(cfg, m) : cfg \in Configs, m \in BOOLEAN}]
    /\ nPings = [c \in Checks |-> 0]
    /\ pings = {}
    /\ flips = {}
    /\ lastFlip = 0
    /\ req = [q \in Requests |-> Idle]
    /\ outdated = {}

-----------------------------------------------------------------------------
(* Time and flips.                                                         *)

\* The clock stops at the last element of Instants.
Tick ==
    /\ now + 1 \in Instants
    /\ now' = now + 1
    /\ UNCHANGED <<table, row, nPings, pings, flips, lastFlip, req, outdated>>

\* Check.create_flip: old is the status in the caller's copy of the row.
AddFlip(c, created, old, new, reason, processed) ==
    /\ lastFlip' = lastFlip + 1
    /\ flips' = flips \cup
         {[id |-> lastFlip + 1, owner |-> c, created |-> created,
           oldStatus |-> old, newStatus |-> new, reason |-> reason,
           processed |-> processed]}

-----------------------------------------------------------------------------
(* Check.ping: one transaction, on the row it has locked.                  *)

\* A request that looked the check up before it was renamed still pings it.
ReceivePing(c, action, rid) ==
    LET done  == EffectiveAction(row[c], action)
        after == Pinged(row[c], done, rid, now)
    IN
    /\ c \in table
    /\ nPings[c] < MaxPings
    /\ row' = [row EXCEPT ![c] = after]
    /\ nPings' = [nPings EXCEPT ![c] = @ + 1]
    /\ pings' = pings \cup {[owner |-> c, n |-> nPings[c] + 1,
                             created |-> now, kind |-> done, rid |-> rid]}
    /\ IF after.status # row[c].status
       THEN AddFlip(c, now, row[c].status, after.status,
                    IF done = "fail" THEN "fail" ELSE "", "no")
       ELSE UNCHANGED <<flips, lastFlip>>
    /\ outdated' = outdated \ {c}
    /\ UNCHANGED <<now, table, req>>

-----------------------------------------------------------------------------
(* Requests.                                                               *)

\* The form of update_timeout has a schedule, that of filtering_rules
\* manual_resume; a document sent to the API may have either, both or none.
Inputs(op) ==
    CASE op = "timeout" -> [cfg : Configs, manual : {None}]
      [] op = "update"  -> Input
      [] op = "filter"  -> [cfg : {None}, manual : BOOLEAN]
      [] OTHER          -> [cfg : {None}, manual : {None}]

\* pause returns early on a paused check, resume refuses any other.
Refused(op, r) ==
    \/ op = "pause"  /\ r.status = "paused"
    \/ op = "resume" /\ r.status # "paused"

FirstStep(op) ==
    CASE op \in {"pause", "resume"} -> "flip"
      [] op = "timeout"             -> "decide"
      [] op = "remove"              -> "rename"
      [] OTHER                      -> "save"

Given(value, old) == IF value = None THEN old ELSE value

\* The copy as update_timeout and _update change it: the new schedule, if
\* one was given, and alert_after recomputed from the copy.
Reconfigured(q) ==
    LET r == [req[q].row EXCEPT !.cfg = Given(req[q].input.cfg, @)]
    IN  [r EXCEPT !.alertAfter = GoingDownAfter(r)]

\* The row is looked up by its code, which a renamed check no longer has.
ReadCheck(q) ==
    /\ req[q].step = "idle"
    /\ \E op \in Ops, c \in table : \E input \in Inputs(op) :
          /\ ~row[c].renamed
          /\ req' = [req EXCEPT ![q] =
                IF Refused(op, row[c]) THEN Done
                ELSE [step |-> FirstStep(op), op |-> op, c |-> c,
                      row |-> row[c], input |-> input, mark |-> <<0, 0>>]]
    /\ UNCHANGED <<now, table, row, nPings, pings, flips, lastFlip, outdated>>

Goto(q, step) == req' = [req EXCEPT ![q].step = step]
Finish(q)     == req' = [req EXCEPT ![q] = Done]

\* update_timeout asserts that a check that is "up" has a time to go down.
AssertFails(q) ==
    /\ req[q].row.status = "up"
    /\ Reconfigured(q).alertAfter = None

\* The new schedule is already overdue: the check goes down without alerts.
FlipsDown(q) ==
    /\ req[q].row.status = "up"
    /\ Reconfigured(q).alertAfter # None
    /\ Reconfigured(q).alertAfter < now

\* update_timeout, up to its first write.
Decide(q) ==
    /\ req[q].step = "decide"
    /\ \/ AssertFails(q) /\ Finish(q)
       \/ FlipsDown(q) /\ Goto(q, "flip")
       \/ ~AssertFails(q) /\ ~FlipsDown(q) /\ Goto(q, "save")
    /\ UNCHANGED <<now, table, row, nPings, pings, flips, lastFlip, outdated>>

TargetStatus(op) ==
    CASE op = "pause"              -> "paused"
      [] op \in {"resume", "clear"} -> "new"
      [] op = "timeout"            -> "down"

\* create_flip(..., mark_as_processed=True); the insert fails when the check
\* has been deleted, and the request with it.
CreateFlip(q) ==
    /\ req[q].step = "flip"
    /\ IF req[q].c \in table
       THEN /\ AddFlip(req[q].c, now, req[q].row.status,
                       TargetStatus(req[q].op), "", "created")
            /\ Goto(q, IF req[q].op = "timeout" THEN "saveDown" ELSE "save")
       ELSE UNCHANGED <<flips, lastFlip>> /\ Finish(q)
    /\ UNCHANGED <<now, table, row, nPings, pings, outdated>>

\* What the alert_after of a row is computed from.
Agree(a, b) ==
    /\ a.status = b.status
    /\ a.lastPing = b.lastPing
    /\ a.lastStart = b.lastStart
    /\ a.cfg = b.cfg

\* Mutant of Written: pause leaves last_start alone.
PauseKeepsStart(q, old) ==
    IF req[q].op = "pause"
    THEN [old EXCEPT !.status = "paused", !.alertAfter = None] ELSE old

\* Mutant of Written: clear_events forgets the ping but not the status.
ClearKeepsStatus(q, old) ==
    IF req[q].op = "clear"
    THEN [old EXCEPT !.lastStart = None, !.lastPing = None] ELSE old

\* check.save(update_fields=...): only the named columns are written.
Written(q, old) ==
    CASE req[q].op = "pause" ->
           [old EXCEPT !.status = "paused", !.lastStart = None,
                       !.alertAfter = None]
      [] req[q].op \in {"resume", "clear"} ->
           [old EXCEPT !.status = "new", !.lastStart = None,
                       !.lastPing = None, !.alertAfter = None]
      [] req[q].op = "filter" ->
           [old EXCEPT !.manualResume = req[q].input.manual]
      [] req[q].op \in {"timeout", "update"} ->
           [old EXCEPT !.cfg = Given(req[q].input.cfg, @),
                       !.manualResume = Given(req[q].input.manual, @),
                       !.alertAfter = Reconfigured(q).alertAfter]

\* Saving named columns of a deleted row is an error (DatabaseError).
Save(q) ==
    /\ req[q].step = "save"
    /\ LET c == req[q].c IN
       IF c \in table
       THEN /\ row' = [row EXCEPT ![c] = Written(q, @)]
            /\ outdated' =
                 CASE req[q].op = "filter" -> outdated
                   [] req[q].op \in {"timeout", "update"}
                      /\ ~Agree(req[q].row, row[c]) -> outdated \cup {c}
                   [] OTHER -> outdated \ {c}
            /\ IF req[q].op = "clear" THEN Goto(q, "clearPings") ELSE Finish(q)
       ELSE UNCHANGED <<row, outdated>> /\ Finish(q)
    /\ UNCHANGED <<now, table, nPings, pings, flips, lastFlip>>

\* update_timeout, when the new schedule is already overdue.
SaveDown(q) ==
    /\ req[q].step = "saveDown"
    /\ LET c == req[q].c IN
       IF c \in table
       THEN /\ row' = [row EXCEPT ![c].cfg = req[q].input.cfg,
                                  ![c].alertAfter = None,
                                  ![c].status = "down"]
            /\ outdated' = outdated \ {c}
       ELSE UNCHANGED <<row, outdated>>
    /\ Finish(q)
    /\ UNCHANGED <<now, table, nPings, pings, flips, lastFlip>>

\* clear_events, after its save.
ClearPings(q) ==
    /\ req[q].step = "clearPings"
    /\ pings' = {p \in pings : p.owner # req[q].c}
    /\ Goto(q, "clearFlips")
    /\ UNCHANGED <<now, table, row, nPings, flips, lastFlip, outdated>>

ClearFlips(q) ==
    /\ req[q].step = "clearFlips"
    /\ flips' = {f \in flips : f.owner # req[q].c}
    /\ Finish(q)
    /\ UNCHANGED <<now, table, row, nPings, pings, lastFlip, outdated>>

\* rename_and_delete: give the check a throwaway code ...
Rename(q) ==
    /\ req[q].step = "rename"
    /\ row' = IF req[q].c \in table
              THEN [row EXCEPT ![req[q].c].renamed = TRUE] ELSE row
    /\ Goto(q, "collect")
    /\ UNCHANGED <<now, table, nPings, pings, flips, lastFlip, outdated>>

\* ... delete the rows that refer to it ...
Collect(q) ==
    /\ req[q].step \in {"collect", "collectAgain"}
    /\ req' = [req EXCEPT ![q].mark = <<nPings[req[q].c], lastFlip>>,
                          ![q].step = IF req[q].step = "collect"
                                      THEN "delete" ELSE "deleteAgain"]
    /\ UNCHANGED <<now, table, row, nPings, pings, flips, lastFlip, outdated>>

\* A ping or a flip inserted since then makes the deletion of the row fail.
Referred(q) ==
    \/ nPings[req[q].c] > req[q].mark[1]
    \/ \E f \in flips : f.owner = req[q].c /\ f.id > req[q].mark[2]

\* ... and the row; the transaction that fails is rolled back and tried once
\* more.  The second failure leaves the renamed check behind.
Delete(q) ==
    /\ req[q].step \in {"delete", "deleteAgain"}
    /\ LET c == req[q].c IN
       \/ /\ ~Referred(q)
          /\ table' = table \ {c}
          /\ pings' = {p \in pings : p.owner # c}
          /\ flips' = {f \in flips : f.owner # c}
          /\ Finish(q)
       \/ /\ Referred(q)
          /\ IF req[q].step = "delete" THEN Goto(q, "collectAgain")
                                       ELSE Finish(q)
          /\ UNCHANGED <<table, pings, flips>>
    /\ UNCHANGED <<now, row, nPings, lastFlip, outdated>>

\* uWSGI kills the worker that serves the request (harakiri).
Abort(q) ==
    /\ req[q].step \in ReqSteps
    /\ Finish(q)
    /\ UNCHANGED <<now, table, row, nPings, pings, flips, lastFlip, outdated>>

RequestStep(q) ==
    \/ Decide(q) \/ CreateFlip(q) \/ Save(q) \/ SaveDown(q)
    \/ ClearPings(q) \/ ClearFlips(q)
    \/ Rename(q) \/ Collect(q) \/ Delete(q)

CheckStep ==
    \/ Tick
    \/ \E c \in Checks, action \in PingActions, rid \in Maybe(Rids) :
          ReceivePing(c, action, rid)
    \/ \E q \in Requests : ReadCheck(q) \/ RequestStep(q) \/ Abort(q)

\* The tables without the sendalerts processes: everything may stop.
Spec == Init /\ [][CheckStep]_checkVars

-----------------------------------------------------------------------------
(* Properties.                                                             *)

TypeOK ==
    /\ now \in Instants
    /\ table \subseteq Checks
    /\ row \in [Checks -> Row]
    /\ nPings \in [Checks -> Nat]
    /\ pings \subseteq Ping
    /\ flips \subseteq Flip
    /\ lastFlip \in Nat
    /\ req \in [Requests -> Request \cup {Idle, Done}]
    /\ outdated \subseteq Checks

\* The assertion of get_grace_start: a check that is "up", and the copy of
\* one that a request computes with, has been pinged.  resume and
\* clear_events forget the ping while a ping, or another request, is on its
\* way.
UpHasPing ==
    /\ \A c \in Checks : row[c].status = "up" => row[c].lastPing # None
    /\ \A q \in Requests :
          req[q].step \in ReqSteps =>
             (req[q].row.status = "up" => req[q].row.lastPing # None)

\* sendalerts finds the checks to look at by alert_after alone.  Whatever
\* pings and requests interleave, the column is the time the row goes down
\* after, unless update_timeout or _update has written it from a copy that
\* no longer agreed with the row, and then until the row is next written.
AlertAfterExact ==
    \A c \in Checks \ outdated : row[c].alertAfter = GoingDownAfter(row[c])

\* notify is only handed flips it can send: select_channels raises for other
\* statuses, and down_duration asserts that an "up" alert ends a downtime.
\* The old status comes from the locked row, or from a sender's copy.
FlipsDeliverable ==
    \A f \in flips : f.processed # "created" =>
        \/ f.newStatus = "up"   /\ f.oldStatus \in {"new", "paused", "down"}
        \/ f.newStatus = "down" /\ f.oldStatus \in {"new", "paused", "up"}

-----------------------------------------------------------------------------
(* What the docs and the code say, and concurrent steps make false.        *)

\* hc/api/views.py: _update saves only the fields of the document, since
\* "updating all fields risks overwriting concurrent changes with older
\* values".  Then a check that is up and has a time to go down would always
\* have an alert_after for sendalerts to find.
NeverUnwatched ==
    \A c \in table : row[c].status = "up" /\ GoingDownAfter(row[c]) # None
                        => row[c].alertAfter # None

\* hc/front/views.py: update_timeout asserts that a check that is up has a
\* time to go down, whatever valid schedule it is given.
TimeoutAssertHolds ==
    \A q \in Requests : req[q].step = "decide" => ~AssertFails(q)
=============================================================================
