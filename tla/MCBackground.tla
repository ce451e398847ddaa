---------------------------- MODULE MCBackground -----------------------------
(* Small instances of the components behind the site, for TLC, one at a    *)
(* time: `part` says which, and the others stay as they are.               *)
EXTENDS TaskQueue, CeleryTasks, TokenBuckets, MonthlyLimits, Downtimes,
        Inactivity, LivePages, TLC

CONSTANTS m1, m2, k1, k2, t1, w1, w2, p1, p2, c1, c2

VARIABLE part

commandsVars == <<tokenVars, monthlyVars, downtimeVars, inactivityVars,
                  livePageVars>>
backgroundVars == <<taskQueueVars, celeryVars, commandsVars, part>>

\* A rate that tops up slowly, one that does so fast, and the one that is
\* taken whether or not there is a token.
SomeRates ==
    {authorize_totp_code, authorize_signal, record_s3_get_object_error}

BackgroundInit ==
    /\ TaskQueueInit /\ CeleryInit /\ TokensInit /\ MonthlyInit
    /\ DowntimesInit /\ InactivityInit /\ LivePagesInit
    /\ part \in {"queue", "celery", "tokens", "months", "downtimes",
                 "inactivity", "pages"}
    /\ part # "queue" => \A m \in Messages : body[m] = "task"
    /\ rate \in SomeRates
    /\ part # "tokens" =>
          rate = authorize_signal /\ first = Full /\ bucket = NoBucket
    /\ part # "inactivity" => ~teams

BackgroundNext ==
    /\ part' = part
    /\ \/ /\ part = "queue" /\ TaskQueueNext
          /\ UNCHANGED <<celeryVars, commandsVars>>
       \/ /\ part = "celery" /\ CeleryNext
          /\ UNCHANGED <<taskQueueVars, commandsVars>>
       \/ /\ part = "tokens" /\ TokensNext
          /\ UNCHANGED <<taskQueueVars, celeryVars, monthlyVars, downtimeVars,
                         inactivityVars, livePageVars>>
       \/ /\ part = "months" /\ MonthlyNext
          /\ UNCHANGED <<taskQueueVars, celeryVars, tokenVars, downtimeVars,
                         inactivityVars, livePageVars>>
       \/ /\ part = "downtimes" /\ DowntimesNext
          /\ UNCHANGED <<taskQueueVars, celeryVars, tokenVars, monthlyVars,
                         inactivityVars, livePageVars>>
       \/ /\ part = "inactivity" /\ InactivityNext
          /\ UNCHANGED <<taskQueueVars, celeryVars, tokenVars, monthlyVars,
                         downtimeVars, livePageVars>>
       \/ /\ part = "pages" /\ LivePagesNext
          /\ UNCHANGED <<taskQueueVars, celeryVars, tokenVars, monthlyVars,
                         downtimeVars, inactivityVars>>

BackgroundSpec ==
    /\ BackgroundInit /\ [][BackgroundNext]_backgroundVars
    /\ TaskQueueFairness /\ CeleryFairness /\ LivePagesFairness
=============================================================================
