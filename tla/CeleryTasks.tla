---------------------------- MODULE CeleryTasks -----------------------------
(***************************************************************************)
(* The tasks of the web API.  A request hands a task to Celery, whose      *)
(* worker acknowledges it late; the result goes to the database, events to *)
(* a journal, and an answer of the API about a task that is ready to a     *)
(* cache.                                                                  *)
(***************************************************************************)
EXTENDS Naturals

CONSTANTS
    Tasks,          \* ids of Celery tasks
    Workers,        \* Celery workers
    Polls,          \* web requests
    MaxCrashes      \* bound: workers lost

VARIABLES
    accepted,       \* history: tasks the API has answered 202 for
    unasked,        \* ids not used yet
    pending,        \* tasks waiting for a worker
    worker,         \* what each worker does
    result,         \* the table of results
    journal,        \* events recorded of each task
    cache,          \* cached answers of the API about tasks
    poll,           \* what each web request works on
    crashes         \* workers lost so far

celeryVars ==
    <<accepted, unasked, pending, worker, result, journal, cache, poll,
      crashes>>

apiVars == <<accepted, unasked, poll>>
workVars == <<pending, worker, result, journal, crashes>>

Free == [at |-> "free"]
NoPoll == [at |-> "none"]
Missed == [state |-> "missed"]

CeleryInit ==
    /\ accepted = {}
    /\ unasked = Tasks
    /\ pending = {}
    /\ worker = [w \in Workers |-> Free]
    /\ result = [t \in Tasks |-> "PENDING"]
    /\ journal = [t \in Tasks |-> {}]
    /\ cache = [t \in Tasks |-> Missed]
    /\ poll = [p \in Polls |-> NoPoll]
    /\ crashes = 0

-----------------------------------------------------------------------------

\* EventLog.record: an event is dropped when MongoDB is not available.
Record(t, event) ==
    \/ journal' = [journal EXCEPT ![t] = @ \union {event}]
    \/ UNCHANGED journal

\* run_task of the views: apply_async, then an event and the answer.
Enqueue(p, t) ==
    /\ poll[p] = NoPoll
    /\ t \in unasked
    /\ unasked' = unasked \ {t}
    /\ pending' = pending \union {t}
    /\ poll' = [poll EXCEPT ![p] = [at |-> "answer", t |-> t]]
    /\ UNCHANGED <<accepted, worker, result, journal, cache, crashes>>

Accept(p) ==
    /\ poll[p].at = "answer"
    /\ Record(poll[p].t, "enqueued")
    /\ accepted' = accepted \union {poll[p].t}
    /\ poll' = [poll EXCEPT ![p] = NoPoll]
    /\ UNCHANGED <<unasked, pending, worker, result, cache, crashes>>

\* _on_task_prerun.
Prerun(w, t) ==
    /\ worker[w] = Free
    /\ t \in pending
    /\ pending' = pending \ {t}
    /\ worker' = [worker EXCEPT ![w] = [at |-> "call", t |-> t]]
    /\ Record(t, "started")
    /\ UNCHANGED <<apiVars, result, cache, crashes>>

\* The task itself: an answer that is kept, or one of the service, which may
\* fail.  Nothing is kept while Redis is not available, so neither is sure.
CallApi(w, outcome) ==
    /\ worker[w].at = "call"
    /\ worker' = [worker EXCEPT
                    ![w] = [at |-> "store", t |-> @.t, outcome |-> outcome]]
    /\ UNCHANGED <<apiVars, pending, result, journal, cache, crashes>>

StoreResult(w) ==
    /\ worker[w].at = "store"
    /\ result' = [result EXCEPT ![worker[w].t] = worker[w].outcome]
    /\ worker' = [worker EXCEPT ![w].at = "post"]
    /\ UNCHANGED <<apiVars, pending, journal, cache, crashes>>

\* _on_task_postrun or _on_task_failure.
Postrun(w) ==
    /\ worker[w].at = "post"
    /\ Record(worker[w].t, IF worker[w].outcome = "SUCCESS" THEN "succeeded"
                           ELSE "failed")
    /\ worker' = [worker EXCEPT ![w].at = "ack"]
    /\ UNCHANGED <<apiVars, pending, result, cache, crashes>>

\* task_acks_late.
AckLate(w) ==
    /\ worker[w].at = "ack"
    /\ worker' = [worker EXCEPT ![w] = Free]
    /\ UNCHANGED <<apiVars, pending, result, journal, cache, crashes>>

\* Mutant of LoseWorker: a task is acknowledged when it is received.
LoseWorkerEarly(w) ==
    /\ worker[w] # Free
    /\ crashes < MaxCrashes
    /\ crashes' = crashes + 1
    /\ worker' = [worker EXCEPT ![w] = Free]
    /\ UNCHANGED <<apiVars, pending, result, journal, cache>>

\* task_reject_on_worker_lost: the task runs again, also when its result is
\* in the table already.
LoseWorker(w) ==
    /\ worker[w] # Free
    /\ crashes < MaxCrashes
    /\ crashes' = crashes + 1
    /\ pending' = pending \union {worker[w].t}
    /\ worker' = [worker EXCEPT ![w] = Free]
    /\ UNCHANGED <<apiVars, result, journal, cache>>

\* A time to live is over, or Redis lost the key.
Expire ==
    /\ \E t \in Tasks : /\ cache[t] # Missed
                        /\ cache' = [cache EXCEPT ![t] = Missed]
    /\ UNCHANGED <<apiVars, pending, worker, result, journal, crashes>>

Ready(state) == state # "PENDING"

\* task_result: a cached answer ends the request, else result.state is read.
ReadState(p, t) ==
    /\ poll[p] = NoPoll
    /\ cache[t] = Missed
    /\ poll' = [poll EXCEPT ![p] = [at |-> "ready", t |-> t,
                                    state |-> result[t]]]
    /\ UNCHANGED <<accepted, unasked, workVars, cache>>

\* result.ready(), which keeps what it reads once it is final; the result or
\* the error then belong to the state that was read last.
ReadReady(p) ==
    /\ poll[p].at = "ready"
    /\ LET now == IF Ready(poll[p].state) THEN poll[p].state
                  ELSE result[poll[p].t] IN
       poll' = [poll EXCEPT ![p] =
                  IF Ready(now) THEN [at |-> "cache", t |-> @.t,
                                      state |-> @.state, outcome |-> now]
                  ELSE NoPoll]
    /\ UNCHANGED <<accepted, unasked, workVars, cache>>

\* cache.set; nothing is cached while Redis is not available.
CacheAnswer(p) ==
    /\ poll[p].at = "cache"
    /\ \/ cache' = [cache EXCEPT ![poll[p].t] =
                      [state |-> poll[p].state, outcome |-> poll[p].outcome]]
       \/ UNCHANGED cache
    /\ poll' = [poll EXCEPT ![p] = NoPoll]
    /\ UNCHANGED <<accepted, unasked, workVars>>

WorkerStep(w) ==
    \/ \E t \in Tasks : Prerun(w, t)
    \/ \E outcome \in {"SUCCESS", "FAILURE"} : CallApi(w, outcome)
    \/ StoreResult(w)
    \/ Postrun(w)
    \/ AckLate(w)

CeleryNext ==
    \/ \E w \in Workers : WorkerStep(w) \/ LoseWorker(w)
    \/ \E p \in Polls : \/ \E t \in Tasks : Enqueue(p, t) \/ ReadState(p, t)
                        \/ Accept(p)
                        \/ ReadReady(p)
                        \/ CacheAnswer(p)
    \/ Expire

\* Workers take tasks, and do not stop in the middle of one.
CeleryFairness == \A w \in Workers : WF_celeryVars(WorkerStep(w))

CelerySpec == CeleryInit /\ [][CeleryNext]_celeryVars /\ CeleryFairness

-----------------------------------------------------------------------------
(* What the tasks promise.                                                 *)

\* A task the API has accepted gets a result, however many workers are lost
\* on the way (run_task, task_acks_late, task_reject_on_worker_lost).
AcceptedGetResult == \A t \in Tasks : t \in accepted ~> Ready(result[t])
=============================================================================
