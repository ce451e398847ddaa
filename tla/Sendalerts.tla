----------------------------- MODULE Sendalerts -----------------------------
(***************************************************************************)
(* The sendalerts command: any number of processes that run the same loop  *)
(* over the tables of module Checks.                                       *)
(*                                                                         *)
(* handle_going_down looks for a check that is overdue, computes from its  *)
(* copy of the row whether it is down, marks the row with an UPDATE that   *)
(* names the status it read, and, if a row was updated, inserts a flip in  *)
(* a statement of its own.  process_one_flip takes a seat in the pool,     *)
(* fetches an unprocessed flip, claims it with an UPDATE that names        *)
(* processed=NULL, and hands it to a thread that runs notify.  A signal    *)
(* makes the loop stop and wait for its threads; an exception ends it the  *)
(* same way; a crash loses what the process held.  uWSGI starts the        *)
(* command again (attach-daemon in docker/uwsgi.ini).                      *)
(***************************************************************************)
EXTENDS Checks, Sequences, FiniteSets

CONSTANTS
    Senders,        \* sendalerts processes
    NumWorkers,     \* --num-workers: seats, and threads of the executor
    ThrowingKinds,  \* kinds whose next elapse may fail to compute
    Hour,           \* how far a check that throws is pushed forward
    MaxCrashes,     \* bound: crashes of sendalerts processes
    MaxSignals      \* bound: SIGTERM and SIGINT received

ASSUME SenderAssumption ==
    /\ NumWorkers \in Nat \ {0}
    /\ Hour \in Nat \ {0}
    /\ ThrowingKinds \subseteq {"cron", "oncalendar"}
    /\ MaxCrashes \in Nat
    /\ MaxSignals \in Nat

VARIABLES
    pc,         \* where the main thread of each process is
    copy,       \* the row handle_going_down works on, with its id
    seat,       \* the BoundedSemaphore of each process
    fetched,    \* the flip process_one_flip has fetched
    jobs,       \* what each executor holds
    shutdown,   \* the flag the signal handler sets
    outbox,     \* history: ids of the flips whose alerts went out
    crashes,    \* number of crashes
    signals     \* number of signals

senderVars == <<pc, copy, seat, fetched, jobs, shutdown, outbox, crashes,
                signals>>
vars == <<checkVars, senderVars>>

\* A process without a copy, or without a flip, holds nothing.
Nothing == None

Steps == {"going", "picked", "postpone", "markDown", "saveFlip", "seats",
          "fetch", "claim", "sleep", "drain", "exited"}

\* A thread of the executor: running notify, or done and about to call back.
Job == [flip : Flip, finished : BOOLEAN]

SInit ==
    /\ Init
    /\ pc = [s \in Senders |-> "going"]
    /\ copy = [s \in Senders |-> Nothing]
    /\ seat = [s \in Senders |-> NumWorkers]
    /\ fetched = [s \in Senders |-> Nothing]
    /\ jobs = [s \in Senders |-> {}]
    /\ shutdown = [s \in Senders |-> FALSE]
    /\ outbox = <<>>
    /\ crashes = 0
    /\ signals = 0

Goes(s, step) == pc' = [pc EXCEPT ![s] = step]

-----------------------------------------------------------------------------
(* handle_going_down.                                                      *)

Overdue == {c \in table : /\ row[c].status # "down"
                          /\ row[c].alertAfter # None
                          /\ row[c].alertAfter < now}

\* handle_going_down returned True: go round again, unless told to stop.
Again(s) ==
    /\ Goes(s, IF shutdown[s] THEN "seats" ELSE "going")
    /\ copy' = [copy EXCEPT ![s] = Nothing]

PickOverdue(s) ==
    /\ pc[s] = "going"
    /\ \E c \in Overdue :
          /\ \A d \in Overdue : row[c].alertAfter <= row[d].alertAfter
          /\ copy' = [copy EXCEPT ![s] = [id |-> c, row |-> row[c]]]
    /\ Goes(s, "picked")
    /\ UNCHANGED <<checkVars, seat, fetched, jobs, shutdown, outbox, crashes,
                   signals>>

NoneOverdue(s) ==
    /\ pc[s] = "going"
    /\ Overdue = {}
    /\ Goes(s, "seats")
    /\ UNCHANGED <<checkVars, copy, seat, fetched, jobs, shutdown, outbox,
                   crashes, signals>>

\* Mutant of Calculate: alert_after is trusted.
CalculateNothing(s) ==
    /\ pc[s] = "picked"
    /\ Goes(s, "markDown")
    /\ UNCHANGED <<checkVars, copy, seat, fetched, jobs, shutdown, outbox,
                   crashes, signals>>

\* status = check.get_status(), which reads the clock again.
Calculate(s) ==
    /\ pc[s] = "picked"
    /\ Goes(s, IF GetStatus(copy[s].row, now) = "down"
               THEN "markDown" ELSE "postpone")
    /\ UNCHANGED <<checkVars, copy, seat, fetched, jobs, shutdown, outbox,
                   crashes, signals>>

\* Mutant of Matches: the UPDATE names the id only.
MatchesId(s) == copy[s].id \in table

\* q.update(...), where q names the id and the status that was read.
Matches(s) ==
    /\ copy[s].id \in table
    /\ row[copy[s].id].status = copy[s].row.status

\* Mutant of Postponed: alert_after stays as it was.
PostponedNot(s, time) == UNCHANGED <<row, outdated>>

\* The UPDATE sets only alert_after, computed from the copy or made up.
Postponed(s, time) ==
    LET c == copy[s].id IN
    IF Matches(s)
    THEN /\ row' = [row EXCEPT ![c].alertAfter = time]
         /\ outdated' = IF time = GoingDownAfter(row[c])
                        THEN outdated \ {c} ELSE outdated \cup {c}
    ELSE UNCHANGED <<row, outdated>>

\* get_status raises: push alert_after forward an hour and re-raise.
CalculateThrows(s) ==
    /\ pc[s] = "picked"
    /\ copy[s].row.status = "up"
    /\ copy[s].row.cfg.kind \in ThrowingKinds
    /\ Postponed(s, now + Hour)
    /\ Goes(s, "drain")
    /\ copy' = [copy EXCEPT ![s] = Nothing]
    /\ UNCHANGED <<now, table, nPings, pings, flips, lastFlip, req,
                   seat, fetched, jobs, shutdown, outbox, crashes, signals>>

\* It is not down yet: alert_after was wrong.
Postpone(s) ==
    /\ pc[s] = "postpone"
    /\ Postponed(s, GoingDownAfter(copy[s].row))
    /\ Again(s)
    /\ UNCHANGED <<now, table, nPings, pings, flips, lastFlip, req,
                   seat, fetched, jobs, shutdown, outbox, crashes, signals>>

\* num_updated = q.update(alert_after=None, status="down")
MarkDown(s) ==
    /\ pc[s] = "markDown"
    /\ IF Matches(s)
       THEN LET c == copy[s].id IN
            /\ row' = [row EXCEPT ![c].alertAfter = None,
                                  ![c].status = "down"]
            /\ outdated' = outdated \ {c}
            /\ Goes(s, "saveFlip")
            /\ UNCHANGED copy
       ELSE Again(s) /\ UNCHANGED <<row, outdated>>
    /\ UNCHANGED <<now, table, nPings, pings, flips, lastFlip, req,
                   seat, fetched, jobs, shutdown, outbox, crashes, signals>>

\* Mutant of SaveFlip: old_status is read after the UPDATE.
SaveFlipReread(s) ==
    /\ pc[s] = "saveFlip"
    /\ copy[s].id \in table
    /\ AddFlip(copy[s].id, GoingDownAfter(copy[s].row),
               row[copy[s].id].status, "down", "timeout", "no")
    /\ Again(s)
    /\ UNCHANGED <<now, table, row, nPings, pings, req, outdated,
                   seat, fetched, jobs, shutdown, outbox, crashes, signals>>

\* flip.save(); an IntegrityError when the check has been deleted.
SaveFlip(s) ==
    /\ pc[s] = "saveFlip"
    /\ LET c == copy[s].id IN
       IF c \in table
       THEN /\ AddFlip(c, GoingDownAfter(copy[s].row), copy[s].row.status,
                       "down", "timeout", "no")
            /\ Again(s)
       ELSE /\ Goes(s, "drain")
            /\ copy' = [copy EXCEPT ![s] = Nothing]
            /\ UNCHANGED <<flips, lastFlip>>
    /\ UNCHANGED <<now, table, row, nPings, pings, req, outdated,
                   seat, fetched, jobs, shutdown, outbox, crashes, signals>>

-----------------------------------------------------------------------------
(* process_one_flip.                                                       *)

Unprocessed == {f \in flips : f.processed = "no"}

\* Mutant of Return: the outer loop does not look at the flag.
ReturnForever(s, goOn) ==
    Goes(s, IF shutdown[s] THEN "going" ELSE IF goOn THEN "seats" ELSE "sleep")

\* It returned True (go on) or False (wait), unless told to stop.
Return(s, goOn) ==
    Goes(s, IF shutdown[s] THEN "drain" ELSE IF goOn THEN "seats" ELSE "sleep")

AcquireSeat(s) ==
    /\ pc[s] = "seats"
    /\ \/ /\ seat[s] > 0
          /\ seat' = [seat EXCEPT ![s] = @ - 1]
          /\ Goes(s, "fetch")
       \/ /\ seat[s] = 0            \* acquire(timeout=1) gave up
          /\ Return(s, FALSE)
          /\ UNCHANGED seat
    /\ UNCHANGED <<checkVars, copy, fetched, jobs, shutdown, outbox, crashes,
                   signals>>

\* Mutant of FetchFlip: the seat is kept when there is no flip.
FetchKeepsSeat(s) ==
    /\ pc[s] = "fetch"
    /\ Unprocessed = {}
    /\ Return(s, FALSE)
    /\ UNCHANGED <<checkVars, copy, seat, fetched, jobs, shutdown, outbox,
                   crashes, signals>>

\* Flip.objects.filter(processed=None).first(), in the order of the ids.
FetchFlip(s) ==
    /\ pc[s] = "fetch"
    /\ \/ /\ \E f \in Unprocessed :
                /\ \A g \in Unprocessed : f.id <= g.id
                /\ fetched' = [fetched EXCEPT ![s] = f]
          /\ Goes(s, "claim")
          /\ UNCHANGED seat
       \/ /\ Unprocessed = {}
          /\ seat' = [seat EXCEPT ![s] = @ + 1]
          /\ Return(s, FALSE)
          /\ UNCHANGED fetched
    /\ UNCHANGED <<checkVars, copy, jobs, shutdown, outbox, crashes, signals>>

\* Mutant of ClaimFlip: the UPDATE does not name processed=NULL.
ClaimUnguarded(s) ==
    /\ pc[s] = "claim"
    /\ flips' = {IF f.id = fetched[s].id
                 THEN [f EXCEPT !.processed = "claimed"] ELSE f : f \in flips}
    /\ jobs' = [jobs EXCEPT ![s] =
                  @ \cup {[flip |-> fetched[s], finished |-> FALSE]}]
    /\ fetched' = [fetched EXCEPT ![s] = Nothing]
    /\ Return(s, TRUE)
    /\ UNCHANGED <<now, table, row, nPings, pings, lastFlip, req, outdated,
                   copy, seat, shutdown, outbox, crashes, signals>>

\* Mark the flip processed where it still is not, and submit it if it was.
ClaimFlip(s) ==
    /\ pc[s] = "claim"
    /\ IF fetched[s] \in flips
       THEN /\ flips' = (flips \ {fetched[s]}) \cup
                          {[fetched[s] EXCEPT !.processed = "claimed"]}
            /\ jobs' = [jobs EXCEPT ![s] =
                          @ \cup {[flip |-> fetched[s], finished |-> FALSE]}]
            /\ UNCHANGED seat
       ELSE /\ seat' = [seat EXCEPT ![s] = @ + 1]
            /\ UNCHANGED <<flips, jobs>>
    /\ fetched' = [fetched EXCEPT ![s] = Nothing]
    /\ Return(s, TRUE)
    /\ UNCHANGED <<now, table, row, nPings, pings, lastFlip, req, outdated,
                   copy, shutdown, outbox, crashes, signals>>

-----------------------------------------------------------------------------
(* The threads, the main loop, and how a process ends.                     *)

\* select_channels: nobody hears of a check's first ping, or of one that
\* ends a pause.
Alerts(f) == ~(f.newStatus = "up" /\ f.oldStatus \in {"new", "paused"})

\* Mutant of Notify: the thread tries again after it has sent.
NotifyAgain(s) ==
    /\ \E j \in jobs[s] : outbox' = Append(outbox, j.flip.id)
    /\ UNCHANGED <<checkVars, pc, copy, seat, fetched, jobs, shutdown, crashes,
                   signals>>

\* notify; it raises when the check has been deleted.
Notify(s) ==
    /\ \E j \in jobs[s] :
          /\ ~j.finished
          /\ jobs' = [jobs EXCEPT ![s] =
                        (@ \ {j}) \cup {[j EXCEPT !.finished = TRUE]}]
          /\ outbox' = IF j.flip.owner \in table /\ Alerts(j.flip)
                       THEN Append(outbox, j.flip.id) ELSE outbox
    /\ UNCHANGED <<checkVars, pc, copy, seat, fetched, shutdown, crashes,
                   signals>>

\* Mutant of OnNotifyDone: the seat is not given back.
DoneKeepsSeat(s) ==
    /\ \E j \in jobs[s] : j.finished /\ jobs' = [jobs EXCEPT ![s] = @ \ {j}]
    /\ UNCHANGED <<checkVars, pc, copy, seat, fetched, shutdown, outbox, crashes,
                   signals>>

\* on_notify_done gives the seat back, whether notify raised or not.
OnNotifyDone(s) ==
    /\ \E j \in jobs[s] :
          /\ j.finished
          /\ jobs' = [jobs EXCEPT ![s] = @ \ {j}]
          /\ seat' = [seat EXCEPT ![s] = @ + 1]
    /\ UNCHANGED <<checkVars, pc, copy, fetched, shutdown, outbox, crashes,
                   signals>>

\* while not self.shutdown
Wake(s) ==
    /\ pc[s] = "sleep"
    /\ Goes(s, IF shutdown[s] THEN "drain" ELSE "going")
    /\ UNCHANGED <<checkVars, copy, seat, fetched, jobs, shutdown, outbox,
                   crashes, signals>>

\* Mutant of Exit: the process does not wait for its threads.
ExitNow(s) ==
    /\ pc[s] = "drain"
    /\ Goes(s, "exited")
    /\ jobs' = [jobs EXCEPT ![s] = {}]
    /\ UNCHANGED <<checkVars, copy, seat, fetched, shutdown, outbox, crashes,
                   signals>>

\* self.executor.shutdown(wait=True)
Exit(s) ==
    /\ pc[s] = "drain"
    /\ jobs[s] = {}
    /\ Goes(s, "exited")
    /\ UNCHANGED <<checkVars, copy, seat, fetched, jobs, shutdown, outbox,
                   crashes, signals>>

OnSignal(s) ==
    /\ pc[s] # "exited"
    /\ ~shutdown[s]
    /\ signals < MaxSignals
    /\ shutdown' = [shutdown EXCEPT ![s] = TRUE]
    /\ signals' = signals + 1
    /\ UNCHANGED <<checkVars, pc, copy, seat, fetched, jobs, outbox, crashes>>

Crash(s) ==
    /\ pc[s] # "exited"
    /\ crashes < MaxCrashes
    /\ crashes' = crashes + 1
    /\ Goes(s, "exited")
    /\ copy' = [copy EXCEPT ![s] = Nothing]
    /\ fetched' = [fetched EXCEPT ![s] = Nothing]
    /\ jobs' = [jobs EXCEPT ![s] = {}]
    /\ UNCHANGED <<checkVars, seat, shutdown, outbox, signals>>

\* A new process: a new semaphore, a new executor.
Restart(s) ==
    /\ pc[s] = "exited"
    /\ Goes(s, "going")
    /\ seat' = [seat EXCEPT ![s] = NumWorkers]
    /\ shutdown' = [shutdown EXCEPT ![s] = FALSE]
    /\ UNCHANGED <<checkVars, copy, fetched, jobs, outbox, crashes, signals>>

MainLoop(s) ==
    \/ PickOverdue(s) \/ NoneOverdue(s) \/ Calculate(s) \/ CalculateThrows(s)
    \/ Postpone(s) \/ MarkDown(s) \/ SaveFlip(s)
    \/ AcquireSeat(s) \/ FetchFlip(s) \/ ClaimFlip(s)
    \/ Wake(s) \/ Exit(s) \/ Restart(s)

Worker(s) == Notify(s) \/ OnNotifyDone(s)

SenderStep(s) == MainLoop(s) \/ Worker(s) \/ OnSignal(s) \/ Crash(s)

SNext ==
    \/ CheckStep /\ UNCHANGED senderVars
    \/ \E s \in Senders : SenderStep(s)

SSpec == SInit /\ [][SNext]_vars

\* The loop and the threads are run by the operating system, and uWSGI
\* restarts the command; nothing makes clients ping.
Fairness ==
    /\ \A s \in Senders : WF_vars(MainLoop(s)) /\ WF_vars(Worker(s))
    /\ WF_vars(Tick /\ UNCHANGED senderVars)

FairSpec == SSpec /\ Fairness

-----------------------------------------------------------------------------
(* Properties.                                                             *)

STypeOK ==
    /\ TypeOK
    /\ pc \in [Senders -> Steps]
    /\ copy \in [Senders -> [id : Checks, row : Row] \cup {Nothing}]
    /\ seat \in [Senders -> Nat]
    /\ fetched \in [Senders -> Flip \cup {Nothing}]
    /\ jobs \in [Senders -> SUBSET Job]
    /\ shutdown \in [Senders -> BOOLEAN]
    /\ outbox \in Seq(Nat)
    /\ crashes \in Nat
    /\ signals \in Nat

\* No alert is sent twice, however many processes look for flips, crash and
\* are restarted: process_one_flip claims a flip before it submits it.
AlertedAtMostOnce ==
    \A i, j \in 1 .. Len(outbox) : outbox[i] = outbox[j] => i = j

\* Unless a process crashes, a flip that was claimed is alerted or is still
\* with a thread: signals, exceptions, deleted checks and full pools lose
\* nothing.
ClaimedNotLost ==
    crashes = 0 =>
      \A f \in flips : f.processed = "claimed" /\ Alerts(f) =>
        \/ \E i \in 1 .. Len(outbox) : outbox[i] = f.id
        \/ \E s \in Senders : \E j \in jobs[s] : j.flip.id = f.id /\ ~j.finished

\* Seats are neither leaked nor invented: each one is free, held by the main
\* thread, or held by a thread.  A leak would stop all alerts for good.
SeatsBalanced ==
    \A s \in Senders : pc[s] \in Steps \ {"exited", "drain"} =>
        seat[s] + Cardinality(jobs[s])
                + (IF pc[s] \in {"fetch", "claim"} THEN 1 ELSE 0) = NumWorkers

\* The assertions handle_going_down relies on: the copy it computes with has
\* been pinged if it is "up", and a copy that is down has a time when it went
\* down, which is not in the future.
FlipTimeKnown ==
    \A s \in Senders : pc[s] \in {"picked", "postpone", "markDown", "saveFlip"} =>
        LET r == copy[s].row IN
        /\ r.status = "up" => r.lastPing # None
        /\ pc[s] \in {"markDown", "saveFlip"} =>
              GoingDownAfter(r) # None /\ GoingDownAfter(r) <= now

\* The assertions of the code: get_grace_start, of rows and of the copies of
\* requests and of senders, and handle_going_down.
AssertionsHold == UpHasPing /\ FlipTimeKnown

\* Ways a check has come up and gone down: every time it goes down, by a
\* ping or by a sender, there is one flip for it, and one for every time it
\* comes back, whichever way two senders and the pings interleave.  (For
\* pings, senders and requests that leave the status and the flips alone.)
FlipsOf(c, new) ==
    {f \in flips : f.owner = c /\ f.newStatus = new
                   /\ (new = "up" => f.oldStatus = "down")}

Saving(c) == {s \in Senders : pc[s] = "saveFlip" /\ copy[s].id = c}

OneFlipPerOutage ==
    crashes = 0 =>
      \A c \in table :
        Cardinality(FlipsOf(c, "down")) + Cardinality(Saving(c)) =
          Cardinality(FlipsOf(c, "up"))
            + (IF row[c].status = "down" THEN 1 ELSE 0)

\* The signals a check received in the period and grace time up to t.
Silent(c, t) ==
    \A p \in pings : p.owner = c /\ p.kind \in {"success", "fail"} =>
        p.created + row[c].cfg.timeout + row[c].cfg.grace <= t \/ p.created > t

\* A run that was started one grace time before t and had not ended by t.
Overrun(c, t) ==
    \E p \in pings :
        /\ p.owner = c /\ p.kind = "start"
        /\ p.created + row[c].cfg.grace = t
        /\ ~ \E e \in pings : /\ e.owner = c /\ e.n > p.n /\ e.created <= t
                              /\ \/ e.kind \in {"start", "fail"}
                                 \/ e.kind = "success" /\ e.rid \in {None, p.rid}

\* A timeout flip is true of the time it is dated with, even when the copy
\* it was computed from had been overtaken by a ping: at that time no signal
\* had come for a period and a grace time, or a run had overrun its grace
\* time.  (For checks whose simple schedule does not change.)
TimeoutFlipsTrue ==
    \A f \in flips : f.reason = "timeout" =>
        Silent(f.owner, f.created) \/ Overrun(f.owner, f.created)

-----------------------------------------------------------------------------
(* Liveness.                                                               *)

\* A check that is overdue is looked at, and either goes down, or gets the
\* right alert_after.
OverdueHandled == \A c \in Checks : c \in Overdue ~> c \notin Overdue

\* Every flip that waits for its alerts is picked up.
FlipsPickedUp == (Unprocessed # {}) ~> (Unprocessed = {})

\* A process that was told to stop does stop, after its threads have.
StopsWhenTold == \A s \in Senders : shutdown[s] ~> pc[s] = "exited"

-----------------------------------------------------------------------------
(* Refinement.                                                             *)

Delivery == INSTANCE AlertDelivery WITH
    last    <- lastFlip,
    waiting <- {f.id : f \in Unprocessed},
    claimed <- {j.flip.id : j \in {k \in UNION {jobs[s] : s \in Senders} :
                                      ~k.finished}},
    sent    <- {outbox[i] : i \in 1 .. Len(outbox)}

\* Processes that share nothing but the tables deliver every flip at most
\* once: each step of theirs is a step of module AlertDelivery, or none.
DeliversAtMostOnce == Delivery!DSpec

-----------------------------------------------------------------------------
(* What the docs say, and a late ping makes false.                         *)

\* templates/docs/introduction.md: a check is down when "the success signal
\* has not arrived yet, and the Grace Time has elapsed".  (For successes
\* alone: no failure signals, no runs.)
DownMeansSilent ==
    \A c \in table : row[c].status = "down" =>
        now >= row[c].lastPing + row[c].cfg.timeout + row[c].cfg.grace
=============================================================================
