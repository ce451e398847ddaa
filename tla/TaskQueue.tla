------------------------------ MODULE TaskQueue ------------------------------
(***************************************************************************)
(* The producer and the consumer of hc.mq.  The command-line producer      *)
(* publishes messages to a direct exchange; a consumer runs the task of    *)
(* one message at a time, writes a file with the result, and acknowledges  *)
(* the message after that.                                                 *)
(***************************************************************************)
EXTENDS Naturals, Sequences, FiniteSets

CONSTANTS
    Messages,       \* messages of the producer
    Consumers,
    MaxFailures     \* bound: failures of consumers

ASSUME TaskQueueAssumption == MaxFailures \in Nat

\* What the producer sends, JSON that is not an object, and anything else.
\* Whoever knows the broker can publish to the exchange.
Bodies == {"task", "array", "garbage"}

VARIABLES
    body,           \* what each message is
    unsent,         \* messages still to be published
    lost,           \* messages published before a queue was bound
    bound,          \* the queue is declared and bound to the exchange
    ready,          \* the queue
    consumer,       \* what each consumer does
    files,          \* outcomes written for each message
    settled,        \* messages acknowledged or rejected
    failures        \* failures so far

taskQueueVars ==
    <<body, unsent, lost, bound, ready, consumer, files, settled, failures>>

Outcomes == {"ok", "error"}
Stopped == [at |-> "stopped"]
Waiting == [at |-> "waiting"]

TaskQueueInit ==
    /\ body \in [Messages -> Bodies]
    /\ unsent = Messages
    /\ lost = {}
    /\ bound = FALSE
    /\ ready = <<>>
    /\ consumer = [k \in Consumers |-> Stopped]
    /\ files = [m \in Messages |-> {}]
    /\ settled = {}
    /\ failures = 0

-----------------------------------------------------------------------------

\* The broker confirms a message it has no queue for, and drops it.
Publish(m) ==
    /\ m \in unsent
    /\ unsent' = unsent \ {m}
    /\ IF bound THEN ready' = Append(ready, m) /\ UNCHANGED lost
                ELSE lost' = lost \union {m} /\ UNCHANGED ready
    /\ UNCHANGED <<body, bound, consumer, files, settled, failures>>

StartConsumer(k) ==
    /\ consumer[k] = Stopped
    /\ consumer' = [consumer EXCEPT ![k] = Waiting]
    /\ bound' = TRUE
    /\ UNCHANGED <<body, unsent, lost, ready, files, settled, failures>>

\* prefetch_count=1: one message at a time.
Deliver(k) ==
    /\ consumer[k] = Waiting
    /\ ready # <<>>
    /\ consumer' = [consumer EXCEPT ![k] = [at |-> "run", m |-> Head(ready)]]
    /\ ready' = Tail(ready)
    /\ UNCHANGED <<body, unsent, lost, bound, files, settled, failures>>

\* The message is settled, and the consumer waits for the next one.
Settled(k) ==
    /\ settled' = settled \union {consumer[k].m}
    /\ consumer' = [consumer EXCEPT ![k] = Waiting]

\* Not JSON: rejected without a file.
Discard(k) ==
    /\ consumer[k].at = "run"
    /\ body[consumer[k].m] = "garbage"
    /\ Settled(k)
    /\ UNCHANGED <<body, unsent, lost, bound, ready, files, failures>>

\* The consumer without its message, which goes back to where it was.
Requeued(k) ==
    /\ ready' = IF consumer[k] = Waiting THEN ready
                ELSE <<consumer[k].m>> \o ready
    /\ consumer' = [consumer EXCEPT ![k] = Stopped]

\* message.get of something that is not an object is not caught.
Choke(k) ==
    /\ consumer[k].at = "run"
    /\ body[consumer[k].m] = "array"
    /\ Requeued(k)
    /\ UNCHANGED <<body, unsent, lost, bound, files, settled, failures>>

\* run_task: the task answers, or anything at all is raised.
RunTask(k, outcome) ==
    /\ consumer[k].at = "run"
    /\ body[consumer[k].m] = "task"
    /\ consumer' = [consumer EXCEPT
                      ![k] = [at |-> "write", m |-> @.m, outcome |-> outcome]]
    /\ UNCHANGED <<body, unsent, lost, bound, ready, files, settled, failures>>

\* Mutant of WriteResult: the message is settled before its file is written.
SettleFirst(k) ==
    /\ consumer[k].at = "write"
    /\ settled' = settled \union {consumer[k].m}
    /\ consumer' = [consumer EXCEPT ![k].at = "settle"]
    /\ UNCHANGED <<body, unsent, lost, bound, ready, files, failures>>

WriteResult(k) ==
    /\ consumer[k].at = "write"
    /\ files' = [files EXCEPT ![consumer[k].m] = @ \union {consumer[k].outcome}]
    /\ consumer' = [consumer EXCEPT ![k].at = "settle"]
    /\ UNCHANGED <<body, unsent, lost, bound, ready, settled, failures>>

\* Mutant of SettleMessage: a task that failed is put back.
SettleRequeue(k) ==
    /\ consumer[k].at = "settle"
    /\ IF consumer[k].outcome = "ok" THEN Settled(k) /\ UNCHANGED ready
       ELSE /\ ready' = <<consumer[k].m>> \o ready
            /\ consumer' = [consumer EXCEPT ![k] = Waiting]
            /\ UNCHANGED settled
    /\ UNCHANGED <<body, unsent, lost, bound, files, failures>>

\* ack when the task answered, nack without requeue when it failed.
SettleMessage(k) ==
    /\ consumer[k].at = "settle"
    /\ Settled(k)
    /\ UNCHANGED <<body, unsent, lost, bound, ready, files, failures>>

\* A crash, a file that cannot be written, a lost connection.
FailConsumer(k) ==
    /\ consumer[k] # Stopped
    /\ failures < MaxFailures
    /\ failures' = failures + 1
    /\ Requeued(k)
    /\ UNCHANGED <<body, unsent, lost, bound, files, settled>>

ConsumerStep(k) ==
    \/ Deliver(k)
    \/ Discard(k)
    \/ Choke(k)
    \/ \E outcome \in Outcomes : RunTask(k, outcome)
    \/ WriteResult(k)
    \/ SettleMessage(k)

TaskQueueNext ==
    \/ \E m \in Messages : Publish(m)
    \/ \E k \in Consumers : \/ StartConsumer(k)
                            \/ ConsumerStep(k)
                            \/ FailConsumer(k)

\* A consumer does not stop in the middle of a message.  Nothing starts one
\* that has stopped.
TaskQueueFairness == \A k \in Consumers : WF_taskQueueVars(ConsumerStep(k))

TaskQueueSpec ==
    TaskQueueInit /\ [][TaskQueueNext]_taskQueueVars /\ TaskQueueFairness

-----------------------------------------------------------------------------
(* What the queue promises.                                                *)

InHands(m) == {k \in Consumers : consumer[k] \notin {Stopped, Waiting}
                                 /\ consumer[k].m = m}

\* A message the queue has taken is in exactly one place, whichever consumer
\* fails at whatever step: waiting, with one consumer, or settled.  Nothing
\* is run by two consumers at a time (callback, basic_qos).
OnePlace ==
    \A m \in Messages :
        m \notin unsent \union lost =>
            Cardinality(InHands(m))
              + Cardinality({i \in DOMAIN ready : ready[i] = m})
              + (IF m \in settled THEN 1 ELSE 0) = 1

\* Unless something has published an array: as long as a consumer runs, every
\* message in the queue is settled in the end, also when its task fails or a
\* consumer does (callback).
QueueDrains ==
    \A m \in Messages :
        m \notin unsent \union lost /\ (\A n \in Messages : body[n] # "array")
            ~> m \in settled \/ \A k \in Consumers : consumer[k] = Stopped
=============================================================================
