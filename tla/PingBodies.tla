----------------------------- MODULE PingBodies ------------------------------
(***************************************************************************)
(* The log of one check: its pings, with their bodies in object storage,   *)
(* its notifications and its flips, and what makes the log shorter.        *)
(*                                                                         *)
(* A body is uploaded after the transaction that inserts the ping.  Every  *)
(* so many pings the request goes on to prune: a thread of its own removes *)
(* objects, while the request deletes rows.  Bodies that are small enough  *)
(* to be in the row itself are not modelled.  Times are numbers of pings:  *)
(* each ping has a flip and a notification, created right after it.        *)
(***************************************************************************)
EXTENDS Integers, FiniteSets, FiniteSetsExt

CONSTANTS
    Handlers,       \* requests served at a time, prunepingsslow
    LogLimit,       \* ping_log_limit of the owner
    PruneEvery,     \* 100 in the code
    MaxLog          \* bound: pings

ASSUME PingBodiesAssumption ==
    /\ LogLimit \in Nat \ {0} /\ PruneEvery \in Nat \ {0} /\ MaxLog \in Nat

VARIABLES
    created,        \* whether the check has been created
    nPings,
    log,            \* numbers of the pings that have a row
    notified,       \* numbers of the pings whose notification has a row
    flipped,        \* numbers of the pings whose flip has a row
    forgotten,      \* flips up to this number may be gone: events were cleared, or
                    \* the flips were older than 93 days when they were deleted
    objects,        \* numbers of the pings with an object under the check's code
    handler,        \* where each request is
    removal,        \* the thread each request has started
    sweep,          \* pruneobjects has not found the check's code
    uploaded,       \* history: pings whose upload has finished, but for those
                    \* a pruneobjects removed that had looked for checks before
                    \* this one existed
    removedTo,      \* history: the highest number removed without an error
    late            \* history: objects uploaded after a removal listed theirs

pingBodyVars == <<created, nPings, log, notified, flipped, forgotten, objects,
                  handler, removal, sweep, uploaded, removedTo, late>>

storage == <<objects, removal, sweep, uploaded, removedTo, late>>

AtEnd == [step |-> "end", n |-> 0]
NoRemoval == [step |-> "end", upto |-> 0, keys |-> {}]

PingBodiesInit ==
    /\ created = FALSE /\ nPings = 0
    /\ log = {} /\ notified = {} /\ flipped = {} /\ forgotten = 0
    /\ objects = {}
    /\ handler = [h \in Handlers |-> AtEnd]
    /\ removal = [h \in Handlers |-> NoRemoval]
    /\ sweep = FALSE
    /\ uploaded = {} /\ removedTo = 0 /\ late = {}

Goes(h, step, n) == handler' = [handler EXCEPT ![h] = [step |-> step, n |-> n]]

CreateRow ==
    /\ ~created
    /\ created' = TRUE
    /\ UNCHANGED <<nPings, log, notified, flipped, forgotten, handler, storage>>

-----------------------------------------------------------------------------
(* Check.ping.                                                             *)

\* The transaction.
InsertPing(h) ==
    /\ handler[h] = AtEnd
    /\ created
    /\ nPings < MaxLog
    /\ nPings' = nPings + 1
    /\ log' = log \union {nPings'}
    /\ notified' = notified \union {nPings'}
    /\ flipped' = flipped \union {nPings'}
    /\ Goes(h, "put", nPings')
    /\ UNCHANGED <<created, forgotten, storage>>

AfterPut(n) == IF n % PruneEvery = 0 THEN "prune" ELSE "end"

\* put_object tries again ten times, and only an InternalError; whatever else
\* goes wrong ends the request, with or without the object stored.
PutObject(h, stored, raises) ==
    LET r == handler[h]
        n == r.n IN
    /\ r.step = "put"
    /\ ~raises => stored
    /\ objects' = IF stored THEN objects \union {n} ELSE objects
    /\ uploaded' = IF stored THEN uploaded \union {n} ELSE uploaded
    /\ late' = IF stored /\ (n <= removedTo \/
                    \E g \in Handlers : removal[g].step = "delete" /\ n <= removal[g].upto)
               THEN late \union {n} ELSE late
    /\ handler' = [handler EXCEPT ![h] =
                     IF raises \/ AfterPut(n) = "end" THEN AtEnd
                     ELSE [r EXCEPT !.step = AfterPut(n)]]
    /\ UNCHANGED <<created, nPings, log, notified, flipped, forgotten, removal,
                   removedTo, sweep>>

-----------------------------------------------------------------------------
(* Check.prune.                                                            *)

\* prunepingsslow has a copy of the check.
SlowPrune(h) ==
    /\ handler[h] = AtEnd
    /\ nPings > PruneEvery
    /\ Goes(h, "prune", nPings)
    /\ UNCHANGED <<created, nPings, log, notified, flipped, forgotten, storage>>

Threshold(n) == n - LogLimit

\* Mutant of Listed: the listing starts one key earlier.
ListedPlus(upto) == {n \in objects : n < upto + 2}

\* Mutant of Listed: the listing starts after enc(upto).
ListedLess(upto) == {n \in objects : n < upto}

\* Keys sort from the newest ping to the oldest (enc), and the listing starts
\* after the key of the first ping to stay.
Listed(upto) == {n \in objects : n < upto + 1}

\* remove_objects starts a thread, unless there is nothing to remove, and the
\* thread lists the objects; a request has one such thread at a time here.
RemoveObjects(h) ==
    LET r == handler[h] IN
    /\ r.step = "prune"
    /\ removal[h] = NoRemoval
    /\ removal' = IF Threshold(r.n) <= 0 THEN removal
                  ELSE [removal EXCEPT ![h] =
                          [step |-> "delete", upto |-> Threshold(r.n),
                           keys |-> Listed(Threshold(r.n))]]
    /\ Goes(h, "rows", r.n)
    /\ UNCHANGED <<created, nPings, log, notified, flipped, forgotten, objects,
                   sweep, uploaded, removedTo, late>>

\* Errors, of single objects or of all that is left, are logged.
DeleteObjects(h, keys) ==
    LET t == removal[h] IN
    /\ t.step = "delete"
    /\ keys \subseteq t.keys
    /\ objects' = objects \ keys
    /\ removedTo' = IF keys = t.keys /\ t.upto > removedTo
                    THEN t.upto ELSE removedTo
    /\ removal' = [removal EXCEPT ![h] = NoRemoval]
    /\ UNCHANGED <<created, nPings, log, notified, flipped, forgotten, handler,
                   sweep, uploaded, late>>

DeleteRows(h) ==
    LET r == handler[h] IN
    /\ r.step = "rows"
    /\ log' = {n \in log : n > Threshold(r.n)}
    /\ Goes(h, "earliest", r.n)
    /\ UNCHANGED <<created, nPings, notified, flipped, forgotten, storage>>

\* With the earliest ping, which n is from here on.
DeleteNotes(h) ==
    /\ handler[h].step = "earliest"
    /\ IF log = {}
       THEN Goes(h, "end", 0) /\ UNCHANGED notified
       ELSE Goes(h, "flips", Min(log)) /\ notified' = {n \in notified : n >= Min(log)}
    /\ UNCHANGED <<created, nPings, log, flipped, forgotten, storage>>

DeleteFlips(h) ==
    LET r == handler[h] IN
    /\ r.step = "flips"
    /\ \E aged \in forgotten .. nPings :
          /\ flipped' = {n \in flipped : n >= Min({r.n, aged + 1})}
          /\ forgotten' = aged
    /\ Goes(h, "end", 0)
    /\ UNCHANGED <<created, nPings, log, notified, storage>>

-----------------------------------------------------------------------------
(* clear_events, whose steps are in Checks: objects stay, and so does      *)
(* n_pings.                                                                *)

ClearEvents ==
    /\ created
    /\ log' = {} /\ notified' = {} /\ flipped' = {}
    /\ forgotten' = nPings
    /\ UNCHANGED <<created, nPings, handler, storage>>

\* harakiri, between any two steps; DeleteObjects has what becomes of the
\* thread then.
EndHandler(h) ==
    /\ handler[h] # AtEnd
    /\ Goes(h, "end", 0)
    /\ UNCHANGED <<created, nPings, log, notified, flipped, forgotten, storage>>

-----------------------------------------------------------------------------
(* pruneobjects, with this check alone.                                    *)

\* It has read the codes of all checks, and this one's is not among them.
LookForChecks ==
    /\ ~created /\ ~sweep
    /\ sweep' = TRUE
    /\ UNCHANGED <<created, nPings, log, notified, flipped, forgotten, handler,
                   objects, removal, uploaded, removedTo, late>>

\* It reads the codes in the bucket, and removes the objects of the others.
SweepObjects ==
    /\ sweep
    /\ sweep' = FALSE
    /\ objects' = {}
    /\ uploaded' = uploaded \ objects
    /\ UNCHANGED <<created, nPings, log, notified, flipped, forgotten, handler,
                   removal, removedTo, late>>

-----------------------------------------------------------------------------

PingBodiesNext ==
    \/ CreateRow \/ ClearEvents \/ LookForChecks \/ SweepObjects
    \/ \E h \in Handlers :
          \/ InsertPing(h)
          \/ \E stored, raises \in BOOLEAN : PutObject(h, stored, raises)
          \/ SlowPrune(h) \/ RemoveObjects(h)
          \/ \E keys \in SUBSET removal[h].keys : DeleteObjects(h, keys)
          \/ DeleteRows(h) \/ DeleteNotes(h) \/ DeleteFlips(h)
          \/ EndHandler(h)

PingBodiesSpec == PingBodiesInit /\ [][PingBodiesNext]_pingBodyVars

-----------------------------------------------------------------------------
(* What readers get.                                                       *)

\* Ping.get_body_bytes, while the storage answers.
GetBody(n) == IF n \in objects THEN "body" ELSE "missing"

\* The view of the site, and a notification, which waits for the upload and
\* tries again.
FrontBody(n) == IF n \in log THEN GetBody(n) ELSE "not found"

\* The view of the API.
ApiBody(n) == IF n <= Threshold(nPings) THEN "not found" ELSE FrontBody(n)

-----------------------------------------------------------------------------
(* What pruning promises.                                                  *)

\* A ping of the log that is new enough has its body for the site and the API
\* once it is uploaded, its notifications, and everything has the flips of the
\* last three months, however many requests prune and clear at once, from
\* counts read before (prune, visible_pings).  Not so a body of a new check
\* that pruneobjects, having looked for checks before, takes for garbage.  And
\* a removal without an error leaves behind only objects that were uploaded
\* after their keys had been listed (remove_objects).
OnlyPrunedGoes ==
    /\ \A n \in log \intersect uploaded :
          n > Threshold(nPings) => FrontBody(n) = "body" /\ ApiBody(n) = "body"
    /\ \A n \in log : n > Threshold(nPings) => n \in notified
    /\ forgotten + 1 .. nPings \subseteq flipped
    /\ \A n \in 1 .. removedTo : n \in objects => n \in late
=============================================================================
