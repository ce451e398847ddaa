--------------------------- MODULE DeliveryProofs ----------------------------
(***************************************************************************)
(* What becomes of a flip, for any number of processes, crashes and        *)
(* restarts: it is alerted at most once, is one that can be alerted, and   *)
(* is not lost without a crash; the seats it is alerted from balance;      *)
(* Sendalerts implements AlertDelivery; an outage has one flip; and a      *)
(* timeout flip is true of the time it is dated with.                      *)
(*                                                                         *)
(* The argument for AlertedAtMostOnce: a flip that has been handed to a    *)
(* thread, or whose alerts went out, is spent -- api_flip holds no         *)
(* unprocessed row with its id, and the sequence never gives the id out    *)
(* again -- while a flip that can be claimed is unprocessed.  So no flip   *)
(* is handed out twice.  The later parts say theirs.                       *)
(***************************************************************************)
EXTENDS SendalertsProofs, FiniteSetTheorems

Spent(n) ==
    /\ n <= lastFlip
    /\ \A f \in flips : f.id = n => f.processed # "no"

\* The primary key of api_flip.
FlipIds ==
    /\ \A f \in flips : f.id <= lastFlip
    /\ \A f, g \in flips : f.id = g.id => f = g

HeldSpent ==
    /\ \A s \in Senders : \A j \in jobs[s] : Spent(j.flip.id)
    /\ \A i \in 1 .. Len(outbox) : Spent(outbox[i])

\* No two threads, of one process or of two, hold the same flip.
JobsDistinct ==
    \A s, t \in Senders : \A j \in jobs[s], k \in jobs[t] :
        j.flip.id = k.flip.id => s = t /\ j = k

\* A thread that has not run notify yet holds a flip nobody has alerted.
PendingUnsent ==
    \A s \in Senders : \A j \in jobs[s] :
        ~j.finished => \A i \in 1 .. Len(outbox) : outbox[i] # j.flip.id

DeliveryInv ==
    /\ FlipIds
    /\ HeldSpent
    /\ JobsDistinct
    /\ PendingUnsent
    /\ AlertedAtMostOnce

-----------------------------------------------------------------------------
(* How the steps treat flips, threads and alerts.                          *)

\* Flips are deleted and threads end; nothing is handed out.
LEMMA NothingNew ==
    ASSUME DeliveryInv, flips' \subseteq flips, lastFlip' = lastFlip,
           \A s \in Senders : jobs'[s] \subseteq jobs[s], outbox' = outbox
    PROVE  DeliveryInv'
<1>1. FlipIds'
  BY DEF DeliveryInv, FlipIds
<1>2. \A n : Spent(n) => Spent(n)'
  BY DEF Spent
<1>3. HeldSpent'
  BY <1>2 DEF DeliveryInv, HeldSpent
<1>4. JobsDistinct'
  BY DEF DeliveryInv, JobsDistinct
<1>5. PendingUnsent'
  BY DEF DeliveryInv, PendingUnsent
<1>6. AlertedAtMostOnce'
  BY DEF DeliveryInv, AlertedAtMostOnce
<1>7. QED BY <1>1, <1>3, <1>4, <1>5, <1>6 DEF DeliveryInv

\* A new flip has an id that was never given out.
LEMMA FlipAdded ==
    ASSUME SInv, DeliveryInv,
           NEW c \in Checks, NEW created \in Nat, NEW old, NEW new, NEW why,
           NEW processed, AddFlip(c, created, old, new, why, processed),
           UNCHANGED <<jobs, outbox>>
    PROVE  DeliveryInv'
<1>0. /\ lastFlip \in Nat /\ lastFlip' = lastFlip + 1
      /\ \A f \in flips : f.id \in Nat
      /\ \A s \in Senders : \A j \in jobs[s] : j.flip.id \in Nat
      /\ \A i \in 1 .. Len(outbox) : outbox[i] \in Nat
  BY SMTT(30) DEF SInv, TypeInv, SenderTypes, SenderVars, AddFlip, Flip, Job
<1>1. PICK new_flip :
        new_flip.id = lastFlip + 1 /\ flips' = flips \cup {new_flip}
  BY DEF AddFlip
<1>2. FlipIds'
  BY <1>0, <1>1 DEF DeliveryInv, FlipIds
<1>3. \A n \in Nat : Spent(n) => Spent(n)'
  BY <1>0, <1>1 DEF Spent
<1>4. HeldSpent'
  BY <1>0, <1>3 DEF DeliveryInv, HeldSpent
<1>5. JobsDistinct' /\ PendingUnsent' /\ AlertedAtMostOnce'
  BY DEF DeliveryInv, JobsDistinct, PendingUnsent, AlertedAtMostOnce
<1>6. QED BY <1>2, <1>4, <1>5 DEF DeliveryInv

\* Pings and requests.
LEMMA CheckStepDelivery ==
    ASSUME SInv, DeliveryInv, CheckStep, UNCHANGED senderVars
    PROVE  DeliveryInv'
<1>0. /\ UNCHANGED <<jobs, outbox>>
      /\ \A s \in Senders : jobs'[s] \subseteq jobs[s]
      /\ now \in Nat
  BY InstantAssumption DEF senderVars, SInv, TypeInv
<1>1. CASE Tick
  BY <1>0, <1>1, NothingNew DEF Tick
<1>2. ASSUME NEW c \in Checks, NEW action \in PingActions,
             NEW rid \in Maybe(Rids), ReceivePing(c, action, rid)
      PROVE  DeliveryInv'
  <2> DEFINE done  == EffectiveAction(row[c], action)
             after == Pinged(row[c], done, rid, now)
  <2>1. \/ AddFlip(c, now, row[c].status, after.status,
                   IF done = "fail" THEN "fail" ELSE "", "no")
        \/ UNCHANGED <<flips, lastFlip>>
    BY <1>2 DEF ReceivePing
  <2>2. QED
    <3>1. CASE UNCHANGED <<flips, lastFlip>>
      BY <1>0, <3>1, NothingNew
    <3>2. CASE AddFlip(c, now, row[c].status, after.status,
                       IF done = "fail" THEN "fail" ELSE "", "no")
      <4> HIDE DEF after, done
      <4>1. QED BY <1>0, <3>2, FlipAdded
    <3>3. QED BY <2>1, <3>1, <3>2
<1>3. ASSUME NEW q \in Requests, ReadCheck(q) \/ Abort(q) \/ RequestStep(q)
      PROVE  DeliveryInv'
  <2>1. CASE CreateFlip(q)
    <3>1. CASE req[q].c \in table
      <4>1. AddFlip(req[q].c, now, req[q].row.status,
                    TargetStatus(req[q].op), "", "created")
        BY <2>1, <3>1 DEF CreateFlip
      <4>2. req[q].c \in Checks
        BY <3>1 DEF SInv, TypeInv
      <4>3. QED BY <1>0, <4>1, <4>2, FlipAdded
    <3>2. CASE req[q].c \notin table
      BY <1>0, <2>1, <3>2, NothingNew DEF CreateFlip
    <3>3. QED BY <3>1, <3>2
  <2>2. CASE ClearFlips(q) \/ Delete(q)
    BY <1>0, <2>2, NothingNew DEF ClearFlips, Delete
  <2>3. CASE \/ ReadCheck(q) \/ Abort(q) \/ Decide(q) \/ Save(q) \/ SaveDown(q)
             \/ ClearPings(q) \/ Rename(q) \/ Collect(q)
    <3>1. UNCHANGED <<flips, lastFlip>>
      BY <2>3 DEF ReadCheck, Abort, Decide, Save, SaveDown, ClearPings,
                  Rename, Collect
    <3>2. QED BY <1>0, <3>1, NothingNew
  <2>4. QED BY <1>3, <2>1, <2>2, <2>3 DEF RequestStep
<1>4. QED BY <1>1, <1>2, <1>3 DEF CheckStep

\* A claimed flip was unprocessed, so nobody holds it and nobody sent it.
LEMMA ClaimDelivery ==
    ASSUME SInv, DeliveryInv, NEW s \in Senders, ClaimFlip(s)
    PROVE  DeliveryInv'
<1>0. /\ SenderVars /\ FetchedKnown(s) /\ pc[s] = "claim"
      /\ lastFlip' = lastFlip /\ outbox' = outbox
  BY DEF SInv, SenderTypes, ClaimFlip
<1>1. CASE fetched[s] \notin flips
  <2>1. UNCHANGED <<flips, jobs>>
    BY <1>1 DEF ClaimFlip
  <2>2. QED BY <1>0, <2>1, NothingNew
<1>2. CASE fetched[s] \in flips
  <2> DEFINE f == fetched[s]
             g == [f EXCEPT !.processed = "claimed"]
             new == [flip |-> f, finished |-> FALSE]
  <2>1. f \in Flip /\ f.processed = "no"
    BY <1>0 DEF FetchedKnown
  <2>2. /\ flips' = (flips \ {f}) \cup {g}
        /\ g.id = f.id /\ g.processed = "claimed"
    BY <1>2, <2>1 DEF ClaimFlip, Flip
  <2>3. /\ jobs'[s] = jobs[s] \cup {new}
        /\ \A t \in Senders : t # s => jobs'[t] = jobs[t]
        /\ new.flip = f /\ ~new.finished
    BY <1>0, <1>2 DEF ClaimFlip, SenderVars
  <2>4. \A n : Spent(n) => n # f.id
    BY <1>2, <2>1 DEF Spent
  <2> DEFINE SpentNext(n) ==
               n <= lastFlip' /\ \A h \in flips' : h.id = n => h.processed # "no"
  <2>5. \A n : Spent(n) => SpentNext(n)
    BY <1>0, <2>2 DEF Spent
  <2>6. SpentNext(f.id)
    <3>1. f \in flips /\ f.id <= lastFlip
      BY <1>2 DEF DeliveryInv, FlipIds
    <3>2. \A h \in flips' : h.id = f.id => h = g
      BY <2>2, <3>1 DEF DeliveryInv, FlipIds
    <3>3. QED BY <1>0, <2>2, <3>1, <3>2
  <2> HIDE DEF f, g, new
  <2>7. FlipIds'
    BY <1>0, <1>2, <2>2 DEF DeliveryInv, FlipIds, f
  <2>8. HeldSpent'
    <3>1. \A t \in Senders : \A j \in jobs'[t] : SpentNext(j.flip.id)
      <4> HIDE DEF SpentNext
      <4>1. QED BY <2>3, <2>5, <2>6 DEF DeliveryInv, HeldSpent
    <3>2. \A i \in 1 .. Len(outbox') : SpentNext(outbox'[i])
      <4> HIDE DEF SpentNext
      <4>1. QED BY <1>0, <2>5 DEF DeliveryInv, HeldSpent
    <3>3. QED BY <3>1, <3>2 DEF HeldSpent, Spent
  <2>9. JobsDistinct'
    BY <2>3, <2>4 DEF DeliveryInv, JobsDistinct, HeldSpent
  <2>10. PendingUnsent'
    BY <1>0, <2>3, <2>4 DEF DeliveryInv, PendingUnsent, HeldSpent
  <2>11. AlertedAtMostOnce'
    BY <1>0 DEF DeliveryInv, AlertedAtMostOnce
  <2>12. QED BY <2>7, <2>8, <2>9, <2>10, <2>11 DEF DeliveryInv
<1>3. QED BY <1>1, <1>2

\* A thread alerts the flip it alone holds, for the first time.
LEMMA NotifyDelivery ==
    ASSUME SInv, DeliveryInv, NEW s \in Senders, Notify(s)
    PROVE  DeliveryInv'
<1>0. SenderVars /\ lastFlip' = lastFlip /\ flips' = flips
  BY DEF SInv, SenderTypes, Notify, checkVars
<1>1. PICK j \in jobs[s] :
        /\ ~j.finished
        /\ jobs' = [jobs EXCEPT ![s] =
                      (@ \ {j}) \cup {[j EXCEPT !.finished = TRUE]}]
        /\ outbox' = IF j.flip.owner \in table /\ Alerts(j.flip)
                     THEN Append(outbox, j.flip.id) ELSE outbox
  BY DEF Notify
<1> DEFINE done == [j EXCEPT !.finished = TRUE]
<1>2. /\ j \in Job /\ done.flip = j.flip /\ done.finished
      /\ j.flip.id \in Nat
  BY <1>0 DEF SenderVars, Job, Flip
<1> HIDE DEF done
<1>3. /\ jobs'[s] = (jobs[s] \ {j}) \cup {done}
      /\ \A t \in Senders : t # s => jobs'[t] = jobs[t]
  BY <1>0, <1>1 DEF SenderVars, done
<1>4. FlipIds' /\ \A n : Spent(n) <=> Spent(n)'
  BY <1>0 DEF DeliveryInv, FlipIds, Spent
<1>5. outbox \in Seq(Nat)
  BY <1>0 DEF SenderVars
<1>6. \A i \in 1 .. Len(outbox') :
        \/ i \in 1 .. Len(outbox) /\ outbox'[i] = outbox[i]
        \/ i = Len(outbox) + 1 /\ outbox'[i] = j.flip.id
  BY <1>1, <1>2, <1>5
<1>7. HeldSpent'
  <2>1. \A t \in Senders : \A k \in jobs'[t] : Spent(k.flip.id)
    BY <1>1, <1>2, <1>3 DEF DeliveryInv, HeldSpent
  <2>2. \A i \in 1 .. Len(outbox') : Spent(outbox'[i])
    BY <1>1, <1>6 DEF DeliveryInv, HeldSpent
  <2>3. QED BY <1>4, <2>1, <2>2 DEF HeldSpent
<1>8. JobsDistinct'
  BY <1>1, <1>2, <1>3 DEF DeliveryInv, JobsDistinct
<1>9. PendingUnsent'
  <2> SUFFICES ASSUME NEW t \in Senders, NEW k \in jobs'[t], ~k.finished,
                      NEW i \in 1 .. Len(outbox')
               PROVE  outbox'[i] # k.flip.id
    BY DEF PendingUnsent
  <2>1. k \in jobs[t] /\ (t = s => k # j)
    BY <1>2, <1>3
  <2>2. k.flip.id # j.flip.id
    BY <1>1, <2>1 DEF DeliveryInv, JobsDistinct
  <2>3. QED BY <1>6, <2>1, <2>2 DEF DeliveryInv, PendingUnsent
<1>10. AlertedAtMostOnce'
  <2>1. \A i \in 1 .. Len(outbox) : outbox[i] # j.flip.id
    BY <1>1 DEF DeliveryInv, PendingUnsent
  <2>2. QED BY <1>6, <2>1 DEF DeliveryInv, AlertedAtMostOnce
<1>11. QED BY <1>4, <1>7, <1>8, <1>9, <1>10 DEF DeliveryInv

\* The other steps of a process hand nothing out.
LEMMA SenderDelivery ==
    ASSUME SInv, DeliveryInv, NEW s \in Senders, SenderStep(s)
    PROVE  DeliveryInv'
<1>0. SenderVars
  BY DEF SInv, SenderTypes
<1>1. CASE ClaimFlip(s)
  BY <1>1, ClaimDelivery
<1>2. CASE Notify(s)
  BY <1>2, NotifyDelivery
<1>3. CASE SaveFlip(s)
  <2>1. CASE copy[s].id \in table
    <3>1. AddFlip(copy[s].id, GoingDownAfter(copy[s].row), copy[s].row.status,
                  "down", "timeout", "no")
      BY <1>3, <2>1 DEF SaveFlip
    <3>2. copy[s].id \in Checks /\ GoingDownAfter(copy[s].row) \in Nat
      BY <1>3, <2>1 DEF SInv, TypeInv, SenderTypes, CopyKnown, SaveFlip
    <3>3. UNCHANGED <<jobs, outbox>>
      BY <1>3 DEF SaveFlip
    <3>4. QED BY <3>1, <3>2, <3>3, FlipAdded
  <2>2. CASE copy[s].id \notin table
    <3>1. UNCHANGED <<flips, lastFlip, jobs, outbox>>
      BY <1>3, <2>2 DEF SaveFlip
    <3>2. QED BY <3>1, NothingNew
  <2>3. QED BY <2>1, <2>2
<1>4. CASE OnNotifyDone(s) \/ Crash(s)
  <2>1. /\ UNCHANGED <<flips, lastFlip, outbox>>
        /\ \A t \in Senders : jobs'[t] \subseteq jobs[t]
    BY <1>0, <1>4, ZenonT(30) DEF OnNotifyDone, Crash, checkVars, SenderVars
  <2>2. QED BY <2>1, NothingNew
<1>5. CASE \/ PickOverdue(s) \/ NoneOverdue(s) \/ Calculate(s)
           \/ CalculateThrows(s) \/ Postpone(s) \/ MarkDown(s)
           \/ AcquireSeat(s) \/ FetchFlip(s) \/ Wake(s) \/ Exit(s)
           \/ Restart(s) \/ OnSignal(s)
  <2>1. UNCHANGED <<flips, lastFlip, jobs, outbox>>
    BY <1>5 DEF PickOverdue, NoneOverdue, Calculate, CalculateThrows,
       Postpone, MarkDown, AcquireSeat, FetchFlip, Wake, Exit, Restart,
       OnSignal, checkVars
  <2>2. QED BY <2>1, NothingNew
<1>6. QED BY <1>1, <1>2, <1>3, <1>4, <1>5 DEF SenderStep, MainLoop, Worker

-----------------------------------------------------------------------------
LEMMA DeliveryInvInit == SInit => DeliveryInv
BY DEF SInit, Init, DeliveryInv, FlipIds, HeldSpent, JobsDistinct,
       PendingUnsent, AlertedAtMostOnce

LEMMA DeliveryInvNext == SInv /\ DeliveryInv /\ [SNext]_vars => DeliveryInv'
<1> SUFFICES ASSUME SInv, DeliveryInv, [SNext]_vars PROVE DeliveryInv'
  OBVIOUS
<1>1. CASE CheckStep /\ UNCHANGED senderVars
  BY <1>1, CheckStepDelivery
<1>2. ASSUME NEW s \in Senders, SenderStep(s) PROVE DeliveryInv'
  BY <1>2, SenderDelivery
<1>3. CASE UNCHANGED vars
  BY <1>3, NothingNew DEF vars, checkVars, senderVars
<1>4. QED BY <1>1, <1>2, <1>3 DEF SNext

\* No alert is sent twice, whatever processes crash, restart and race.
THEOREM AtMostOnce == SSpec => []AlertedAtMostOnce
<1>1. DeliveryInv => AlertedAtMostOnce
  BY DEF DeliveryInv
<1>2. QED BY <1>1, SInvHolds, DeliveryInvInit, DeliveryInvNext, PTL DEF SSpec

-----------------------------------------------------------------------------
(* Every flip that is to be alerted can be.                                *)

Deliverable(f) ==
    \/ f.newStatus = "up"   /\ f.oldStatus \in {"new", "paused", "down"}
    \/ f.newStatus = "down" /\ f.oldStatus \in {"new", "paused", "up"}

\* A flip that is born processed, or has statuses notify can tell apart.
LEMMA DeliverableAdded ==
    ASSUME FlipsDeliverable,
           NEW c, NEW created, NEW old, NEW new, NEW why, NEW processed,
           AddFlip(c, created, old, new, why, processed),
           \/ processed = "created"
           \/ new = "up"   /\ old \in {"new", "paused", "down"}
           \/ new = "down" /\ old \in {"new", "paused", "up"}
    PROVE  FlipsDeliverable'
<1> DEFINE f == [id |-> lastFlip + 1, owner |-> c, created |-> created,
                 oldStatus |-> old, newStatus |-> new, reason |-> why,
                 processed |-> processed]
<1>1. flips' = flips \cup {f}
  BY DEF AddFlip
<1>2. f.processed = processed /\ f.oldStatus = old /\ f.newStatus = new
  OBVIOUS
<1> HIDE DEF f
<1>3. QED BY <1>1, <1>2 DEF FlipsDeliverable

LEMMA DeliverableKept ==
    FlipsDeliverable /\ flips' \subseteq flips => FlipsDeliverable'
BY DEF FlipsDeliverable

\* A ping that changes the status makes it up or down.
LEMMA PingDeliverable ==
    ASSUME TypeInv, FlipsDeliverable,
           NEW c \in Checks, NEW action \in PingActions,
           NEW rid \in Maybe(Rids), ReceivePing(c, action, rid)
    PROVE  FlipsDeliverable'
<1> DEFINE done  == EffectiveAction(row[c], action)
           after == Pinged(row[c], done, rid, now)
           why   == IF done = "fail" THEN "fail" ELSE ""
<1>1. /\ row[c] \in GoodRow /\ now \in Instants /\ done \in Actions
      /\ row[c].status \in Statuses
  BY OpsAssumption DEF TypeInv, EffectiveAction, Actions, GoodRow, Row
<1>2. after.status # row[c].status => after.status \in {"up", "down"}
  BY <1>1, PingedType
<1>3. IF after.status # row[c].status
      THEN AddFlip(c, now, row[c].status, after.status, why, "no")
      ELSE UNCHANGED <<flips, lastFlip>>
  BY DEF ReceivePing
<1> HIDE DEF after, done, why
<1>4. CASE after.status = row[c].status
  BY <1>3, <1>4, DeliverableKept
<1>5. CASE after.status # row[c].status
  BY <1>1, <1>2, <1>3, <1>5, DeliverableAdded DEF Statuses
<1>6. QED BY <1>4, <1>5

LEMMA CheckStepDeliverable ==
    ASSUME TypeInv, FlipsDeliverable, CheckStep
    PROVE  FlipsDeliverable'
<1>1. CASE Tick
  BY <1>1, DeliverableKept DEF Tick
<1>2. ASSUME NEW c \in Checks, NEW action \in PingActions,
             NEW rid \in Maybe(Rids), ReceivePing(c, action, rid)
      PROVE  FlipsDeliverable'
  BY <1>2, PingDeliverable
<1>3. ASSUME NEW q \in Requests, ReadCheck(q) \/ Abort(q) \/ RequestStep(q)
      PROVE  FlipsDeliverable'
  <2>1. CASE CreateFlip(q)
    <3>1. CASE req[q].c \in table
      <4>1. AddFlip(req[q].c, now, req[q].row.status,
                    TargetStatus(req[q].op), "", "created")
        BY <2>1, <3>1 DEF CreateFlip
      <4>2. QED BY <4>1, DeliverableAdded
    <3>2. CASE req[q].c \notin table
      BY <2>1, <3>2, DeliverableKept DEF CreateFlip
    <3>3. QED BY <3>1, <3>2
  <2>2. CASE \/ ReadCheck(q) \/ Abort(q) \/ Decide(q) \/ Save(q) \/ SaveDown(q)
             \/ ClearPings(q) \/ ClearFlips(q) \/ Rename(q) \/ Collect(q)
             \/ Delete(q)
    <3>1. flips' \subseteq flips
      BY <2>2 DEF ReadCheck, Abort, Decide, Save, SaveDown, ClearPings,
                  ClearFlips, Rename, Collect, Delete
    <3>2. QED BY <3>1, DeliverableKept
  <2>3. QED BY <1>3, <2>1, <2>2 DEF RequestStep
<1>4. QED BY <1>1, <1>2, <1>3 DEF CheckStep

LEMMA SenderDeliverable ==
    ASSUME SInv, FlipsDeliverable, NEW s \in Senders, SenderStep(s)
    PROVE  FlipsDeliverable'
<1>1. CASE SaveFlip(s)
  <2>1. CASE copy[s].id \in table
    <3>1. AddFlip(copy[s].id, GoingDownAfter(copy[s].row), copy[s].row.status,
                  "down", "timeout", "no")
      BY <1>1, <2>1 DEF SaveFlip
    <3>2. copy[s].row.status \in {"new", "paused", "up"}
      BY <1>1 DEF SInv, SenderTypes, CopyKnown, SaveFlip, Copy, GoodRow, Row,
                  Statuses
    <3>3. QED BY <3>1, <3>2, DeliverableAdded
  <2>2. CASE copy[s].id \notin table
    BY <1>1, <2>2, DeliverableKept DEF SaveFlip
  <2>3. QED BY <2>1, <2>2
<1>2. CASE ClaimFlip(s)
  <2>1. CASE fetched[s] \in flips
    <3> DEFINE f == fetched[s]
               g == [f EXCEPT !.processed = "claimed"]
    <3>1. f \in Flip /\ f.processed = "no"
      BY <1>2 DEF SInv, SenderTypes, FetchedKnown, ClaimFlip
    <3>2. /\ g.oldStatus = f.oldStatus /\ g.newStatus = f.newStatus
          /\ flips' = (flips \ {f}) \cup {g}
      BY <1>2, <2>1, <3>1 DEF ClaimFlip, Flip
    <3> HIDE DEF g
    <3>3. Deliverable(f)
      BY <2>1, <3>1 DEF FlipsDeliverable, Deliverable
    <3>4. QED BY <3>2, <3>3 DEF FlipsDeliverable, Deliverable
  <2>2. CASE fetched[s] \notin flips
    BY <1>2, <2>2, DeliverableKept DEF ClaimFlip
  <2>3. QED BY <2>1, <2>2
<1>3. CASE \/ PickOverdue(s) \/ NoneOverdue(s) \/ Calculate(s)
           \/ CalculateThrows(s) \/ Postpone(s) \/ MarkDown(s)
           \/ AcquireSeat(s) \/ FetchFlip(s) \/ Wake(s) \/ Exit(s)
           \/ Restart(s) \/ OnSignal(s) \/ Crash(s) \/ Worker(s)
  <2>1. flips' = flips
    BY <1>3 DEF PickOverdue, NoneOverdue, Calculate, CalculateThrows,
       Postpone, MarkDown, AcquireSeat, FetchFlip, Wake, Exit,
       Restart, OnSignal, Crash, Worker, Notify, OnNotifyDone, checkVars
  <2>2. QED BY <2>1, DeliverableKept
<1>4. QED BY <1>1, <1>2, <1>3 DEF SenderStep, MainLoop

\* Whatever pings, requests and senders interleave, notify is only handed
\* flips whose statuses it can make an alert of (select_channels raises for
\* others, and down_duration asserts).
THEOREM FlipsCanBeAlerted == SSpec => []FlipsDeliverable
<1>1. SInit => FlipsDeliverable
  BY DEF SInit, Init, FlipsDeliverable
<1>2. SInv /\ FlipsDeliverable /\ [SNext]_vars => FlipsDeliverable'
  <2> SUFFICES ASSUME SInv, FlipsDeliverable, [SNext]_vars
               PROVE  FlipsDeliverable'
    OBVIOUS
  <2>1. CASE CheckStep
    BY <2>1, CheckStepDeliverable DEF SInv
  <2>2. ASSUME NEW s \in Senders, SenderStep(s) PROVE FlipsDeliverable'
    BY <2>2, SenderDeliverable
  <2>3. CASE UNCHANGED vars
    BY <2>3, DeliverableKept DEF vars, checkVars
  <2>4. QED BY <2>1, <2>2, <2>3 DEF SNext
<1>3. QED BY <1>1, <1>2, SInvHolds, PTL DEF SSpec

-----------------------------------------------------------------------------
(* Seats.                                                                  *)

\* The seat the main thread has taken and not yet handed on.
HeldByMain(s) == IF pc[s] \in {"fetch", "claim"} THEN 1 ELSE 0

\* A process that has ended has no threads, whichever way it ended; any other
\* one has all its seats, also while it waits for its threads.
SeatsOf(s) ==
    /\ IsFiniteSet(jobs[s])
    /\ pc[s] = "exited" => jobs[s] = {}
    /\ pc[s] # "exited" => seat[s] + Cardinality(jobs[s]) + HeldByMain(s) = NumWorkers

SeatsInv == \A s \in Senders : SeatsOf(s)

\* Steps that leave seats and threads alone.
LEMMA SeatsKept ==
    ASSUME SeatsInv, NEW t \in Senders,
           seat'[t] = seat[t], jobs'[t] = jobs[t],
           \/ pc'[t] = pc[t]
           \/ /\ pc[t] \notin {"fetch", "claim", "exited"}
              /\ pc'[t] \notin {"fetch", "claim", "exited"}
           \/ pc[t] = "fetch" /\ pc'[t] = "claim"
           \/ pc'[t] = "exited" /\ jobs[t] = {}
    PROVE  SeatsOf(t)'
BY DEF SeatsInv, SeatsOf, HeldByMain

LEMMA SenderSeats ==
    ASSUME SInv, DeliveryInv, SeatsInv, NEW s \in Senders, SenderStep(s)
    PROVE  SeatsInv'
<1>0. SenderVars /\ SeatsOf(s) /\ Cardinality(jobs[s]) \in Nat
      /\ seat[s] \in Nat /\ NumWorkers \in Nat
  BY FS_CardinalityType, SenderAssumption DEF SInv, SenderTypes, SenderVars, SeatsInv, SeatsOf
<1>1. \A t \in Senders \ {s} :
        pc'[t] = pc[t] /\ seat'[t] = seat[t] /\ jobs'[t] = jobs[t]
  BY <1>0 DEF SenderVars, SenderStep, MainLoop, Worker, PickOverdue, NoneOverdue,
     Calculate, CalculateThrows, Postpone, MarkDown, SaveFlip, AcquireSeat,
     FetchFlip, ClaimFlip, Wake, Exit, Restart, Notify, OnNotifyDone, OnSignal,
     Crash, Goes, Again, Return
<1>2. SUFFICES SeatsOf(s)'
  <2>1. \A t \in Senders \ {s} : SeatsOf(t)'
    BY <1>1, SeatsKept
  <2>2. QED BY <2>1 DEF SeatsInv
<1>3. CASE \/ PickOverdue(s) \/ NoneOverdue(s) \/ Calculate(s)
           \/ CalculateThrows(s) \/ Postpone(s) \/ MarkDown(s)
           \/ SaveFlip(s) \/ Wake(s) \/ OnSignal(s)
  <2>1. /\ UNCHANGED <<seat, jobs>>
        /\ \/ pc' = pc
           \/ /\ pc[s] \in {"going", "picked", "postpone", "markDown", "saveFlip",
                            "sleep"}
              /\ pc'[s] \in {"going", "picked", "postpone", "markDown", "saveFlip",
                             "seats", "drain"}
    BY <1>0, <1>3 DEF SenderVars, PickOverdue, NoneOverdue, Calculate,
       CalculateThrows, Postpone, MarkDown, SaveFlip, Wake, OnSignal, Goes, Again
  <2>2. QED BY <2>1, SeatsKept
<1>4. CASE AcquireSeat(s)
  BY <1>0, <1>4 DEF SenderVars, AcquireSeat, Return, Goes, SeatsOf, HeldByMain
<1>5. CASE FetchFlip(s)
  BY <1>0, <1>5 DEF SenderVars, FetchFlip, Return, Goes, SeatsOf, HeldByMain
<1>6. CASE ClaimFlip(s)
  <2> DEFINE new == [flip |-> fetched[s], finished |-> FALSE]
  <2>1. /\ pc[s] = "claim" /\ pc'[s] \in {"drain", "seats"}
        /\ fetched[s].processed = "no"
    BY <1>0, <1>6 DEF SenderVars, SInv, SenderTypes, FetchedKnown, ClaimFlip, Return,
       Goes
  <2>2. CASE fetched[s] \in flips
    <3>1. new \notin jobs[s]
      <4>1. \A j \in jobs[s] : j.flip # fetched[s]
        BY <2>1, <2>2 DEF DeliveryInv, HeldSpent, Spent
      <4>2. QED BY <4>1
    <3>2. jobs'[s] = jobs[s] \cup {new} /\ seat'[s] = seat[s]
      BY <1>0, <1>6, <2>2 DEF SenderVars, ClaimFlip
    <3> HIDE DEF new
    <3>3. IsFiniteSet(jobs'[s]) /\ Cardinality(jobs'[s]) = Cardinality(jobs[s]) + 1
      BY <1>0, <3>1, <3>2, FS_AddElement DEF SeatsOf
    <3>4. QED BY <1>0, <2>1, <3>2, <3>3 DEF SeatsOf, HeldByMain
  <2>3. CASE fetched[s] \notin flips
    <3>1. jobs'[s] = jobs[s] /\ seat'[s] = seat[s] + 1
      BY <1>0, <1>6, <2>3 DEF SenderVars, ClaimFlip
    <3>2. QED BY <1>0, <2>1, <3>1 DEF SeatsOf, HeldByMain
  <2>4. QED BY <2>2, <2>3
<1>7. CASE Notify(s)
  <2>1. PICK j \in jobs[s] :
          /\ ~j.finished
          /\ jobs' = [jobs EXCEPT ![s] =
                        (@ \ {j}) \cup {[j EXCEPT !.finished = TRUE]}]
    BY <1>7 DEF Notify
  <2> DEFINE done == [j EXCEPT !.finished = TRUE]
  <2>2. j \in Job /\ done.finished /\ done.flip = j.flip
    BY <1>0 DEF SenderVars, Job
  <2>3. jobs'[s] = (jobs[s] \ {j}) \cup {done}
    BY <1>0, <2>1 DEF SenderVars
  <2> HIDE DEF done
  <2>4. done \notin jobs[s] \ {j}
    BY <2>1, <2>2 DEF DeliveryInv, JobsDistinct
  <2>5. /\ IsFiniteSet(jobs[s] \ {j})
        /\ Cardinality(jobs[s] \ {j}) = Cardinality(jobs[s]) - 1
    BY <1>0, FS_RemoveElement DEF SeatsOf
  <2>6. IsFiniteSet(jobs'[s]) /\ Cardinality(jobs'[s]) = Cardinality(jobs[s])
    <3> DEFINE others == jobs[s] \ {j}
    <3>1. /\ IsFiniteSet(others \cup {done})
          /\ Cardinality(others \cup {done}) = Cardinality(others) + 1
      <4> HIDE DEF others
      <4>1. IsFiniteSet(others) /\ done \notin others
        BY <2>4, <2>5 DEF others
      <4>2. QED BY <4>1, FS_AddElement
    <3>2. QED BY <1>0, <2>3, <2>5, <3>1
  <2>7. UNCHANGED <<pc, seat>> /\ jobs[s] # {}
    BY <1>7 DEF Notify
  <2>8. QED BY <1>0, <2>6, <2>7 DEF SeatsOf, HeldByMain
<1>8. CASE OnNotifyDone(s)
  <2>1. PICK j \in jobs[s] : jobs'[s] = jobs[s] \ {j} /\ seat'[s] = seat[s] + 1
    BY <1>0, <1>8 DEF SenderVars, OnNotifyDone
  <2>2. IsFiniteSet(jobs'[s]) /\ Cardinality(jobs'[s]) = Cardinality(jobs[s]) - 1
    BY <1>0, <2>1, FS_RemoveElement, SMTT(30) DEF SeatsOf
  <2>3. UNCHANGED pc /\ jobs[s] # {}
    BY <1>8, <2>1 DEF OnNotifyDone
  <2>4. QED BY <1>0, <2>1, <2>2, <2>3 DEF SeatsOf, HeldByMain
<1>9. CASE Exit(s) \/ Crash(s)
  <2>1. pc'[s] = "exited" /\ jobs'[s] = {}
    BY <1>0, <1>9 DEF SenderVars, Exit, Crash, Goes
  <2>2. QED BY <2>1, FS_EmptySet DEF SeatsOf
<1>10. CASE Restart(s)
  <2>1. pc'[s] = "going" /\ seat'[s] = NumWorkers /\ jobs'[s] = {}
    BY <1>0, <1>10 DEF SenderVars, Restart, Goes, SeatsOf
  <2>2. QED BY <1>0, <2>1, FS_EmptySet DEF SeatsOf, HeldByMain
<1>11. QED
  BY <1>3, <1>4, <1>5, <1>6, <1>7, <1>8, <1>9, <1>10
  DEF SenderStep, MainLoop, Worker

\* No exit of process_one_flip and no way a thread ends leaks a seat or gives
\* one back twice, for any number of seats, signals, crashes and restarts.
THEOREM NoSeatLeaks == SSpec => []SeatsBalanced
<1>1. SInit => SeatsInv
  <2>1. NumWorkers \in Nat
    BY SenderAssumption
  <2>2. QED BY <2>1, FS_EmptySet DEF SInit, SeatsInv, SeatsOf, HeldByMain
<1>2. SInv /\ DeliveryInv /\ SeatsInv /\ [SNext]_vars => SeatsInv'
  <2> SUFFICES ASSUME SInv, DeliveryInv, SeatsInv, [SNext]_vars PROVE SeatsInv'
    OBVIOUS
  <2>1. ASSUME NEW s \in Senders, SenderStep(s) PROVE SeatsInv'
    BY <2>1, SenderSeats
  <2>2. CASE UNCHANGED senderVars
    BY <2>2, SeatsKept DEF SeatsInv, senderVars
  <2>3. QED BY <2>1, <2>2 DEF SNext, vars
<1>3. SeatsInv => SeatsBalanced
  BY DEF SeatsInv, SeatsOf, SeatsBalanced, HeldByMain
<1>4. QED
  BY <1>1, <1>2, <1>3, SInvHolds, DeliveryInvInit, DeliveryInvNext, PTL DEF SSpec

-----------------------------------------------------------------------------
(* Claimed flips.                                                          *)

\* api_flip has a foreign key to api_check.
OwnersPresent == \A f \in flips : f.owner \in table

\* What a thread was handed is still what the table says, but for processed.
JobsCurrent ==
    \A s \in Senders : \A j \in jobs[s] : \A f \in flips :
        f.id = j.flip.id =>
            /\ f.owner = j.flip.owner
            /\ f.oldStatus = j.flip.oldStatus
            /\ f.newStatus = j.flip.newStatus

AlertedOrHeld(f) ==
    \/ \E i \in 1 .. Len(outbox) : outbox[i] = f.id
    \/ \E s \in Senders : \E j \in jobs[s] : j.flip.id = f.id /\ ~j.finished

ClaimedInv ==
    /\ OwnersPresent
    /\ JobsCurrent
    /\ ClaimedNotLost

\* Nobody is handed a flip, no thread is lost, and no flip of a check that
\* stays is added.
LEMMA NothingLost ==
    ASSUME ClaimedInv, crashes \in Nat, UNCHANGED <<jobs, outbox, crashes>>,
           flips' \subseteq flips, \A f \in flips' : f.owner \in table'
    PROVE  ClaimedInv'
BY DEF ClaimedInv, OwnersPresent, JobsCurrent, ClaimedNotLost, Alerts

LEMMA ClaimedAdded ==
    ASSUME SInv, DeliveryInv, ClaimedInv, NEW c \in table,
           NEW created, NEW old, NEW new, NEW why, NEW processed,
           AddFlip(c, created, old, new, why, processed), processed # "claimed",
           UNCHANGED <<table, jobs, outbox, crashes>>
    PROVE  ClaimedInv'
<1>0. /\ lastFlip \in Nat
      /\ \A s \in Senders : \A j \in jobs[s] : j.flip.id \in Nat /\ j.flip.id <= lastFlip
  BY DEF SInv, TypeInv, SenderTypes, SenderVars, Flip, Job, DeliveryInv, HeldSpent,
     Spent
<1>1. PICK f : /\ f.id = lastFlip + 1 /\ f.owner = c /\ f.processed # "claimed"
               /\ flips' = flips \cup {f}
  BY DEF AddFlip
<1>2. OwnersPresent'
  BY <1>1 DEF ClaimedInv, OwnersPresent
<1>3. JobsCurrent'
  BY <1>0, <1>1 DEF ClaimedInv, JobsCurrent
<1>4. ClaimedNotLost'
  BY <1>1 DEF ClaimedInv, ClaimedNotLost, Alerts
<1>5. QED BY <1>2, <1>3, <1>4 DEF ClaimedInv

LEMMA CheckStepClaimed ==
    ASSUME SInv, DeliveryInv, ClaimedInv, CheckStep, UNCHANGED senderVars
    PROVE  ClaimedInv'
<1>0. UNCHANGED <<jobs, outbox, crashes>> /\ crashes \in Nat
  BY DEF senderVars, SInv, SenderTypes, SenderVars
<1>1. CASE Tick
  BY <1>0, <1>1, NothingLost DEF Tick, ClaimedInv, OwnersPresent
<1>2. ASSUME NEW c \in Checks, NEW action \in PingActions,
             NEW rid \in Maybe(Rids), ReceivePing(c, action, rid)
      PROVE  ClaimedInv'
  <2> DEFINE done  == EffectiveAction(row[c], action)
             after == Pinged(row[c], done, rid, now)
             why   == IF done = "fail" THEN "fail" ELSE ""
  <2>1. /\ c \in table /\ UNCHANGED table
        /\ \/ AddFlip(c, now, row[c].status, after.status, why, "no")
           \/ UNCHANGED <<flips, lastFlip>>
    BY <1>2 DEF ReceivePing
  <2> HIDE DEF done, after, why
  <2>2. CASE UNCHANGED flips
    BY <1>0, <2>1, <2>2, NothingLost DEF ClaimedInv, OwnersPresent
  <2>3. CASE AddFlip(c, now, row[c].status, after.status, why, "no")
    BY <1>0, <2>1, <2>3, ClaimedAdded
  <2>4. QED BY <2>1, <2>2, <2>3
<1>3. ASSUME NEW q \in Requests, ReadCheck(q) \/ Abort(q) \/ RequestStep(q)
      PROVE  ClaimedInv'
  <2>1. CASE CreateFlip(q)
    <3>1. CASE req[q].c \in table
      <4>1. /\ AddFlip(req[q].c, now, req[q].row.status,
                       TargetStatus(req[q].op), "", "created")
            /\ UNCHANGED table
        BY <2>1, <3>1 DEF CreateFlip
      <4>2. QED BY <1>0, <3>1, <4>1, ClaimedAdded
    <3>2. CASE req[q].c \notin table
      BY <1>0, <2>1, <3>2, NothingLost DEF CreateFlip, ClaimedInv, OwnersPresent
    <3>3. QED BY <3>1, <3>2
  <2>2. CASE \/ ReadCheck(q) \/ Abort(q) \/ Decide(q) \/ Save(q) \/ SaveDown(q)
             \/ ClearPings(q) \/ ClearFlips(q) \/ Rename(q) \/ Collect(q)
    <3>1. flips' \subseteq flips /\ table' = table
      BY <2>2 DEF ReadCheck, Abort, Decide, Save, SaveDown, ClearPings,
                  ClearFlips, Rename, Collect
    <3>2. QED BY <1>0, <3>1, NothingLost DEF ClaimedInv, OwnersPresent
  <2>3. CASE Delete(q)
    <3>1. flips' \subseteq flips /\ \A f \in flips' : f.owner \in table'
      BY <2>3 DEF Delete, ClaimedInv, OwnersPresent
    <3>2. QED BY <1>0, <3>1, NothingLost
  <2>4. QED BY <1>3, <2>1, <2>2, <2>3 DEF RequestStep
<1>4. QED BY <1>1, <1>2, <1>3 DEF CheckStep

\* The flip that is claimed goes to a thread; the others are where they were.
LEMMA ClaimClaimed ==
    ASSUME SInv, DeliveryInv, ClaimedInv, NEW s \in Senders, ClaimFlip(s)
    PROVE  ClaimedInv'
<1>0. /\ SenderVars /\ fetched[s] \in Flip
      /\ crashes' = crashes /\ outbox' = outbox /\ table' = table
  BY DEF SInv, SenderTypes, FetchedKnown, ClaimFlip
<1>1. CASE fetched[s] \notin flips
  BY <1>0, <1>1, NothingLost DEF ClaimFlip, SenderVars, ClaimedInv, OwnersPresent
<1>2. CASE fetched[s] \in flips
  <2> DEFINE f == fetched[s]
             g == [f EXCEPT !.processed = "claimed"]
             new == [flip |-> f, finished |-> FALSE]
  <2>1. /\ flips' = (flips \ {f}) \cup {g}
        /\ g.id = f.id /\ g.owner = f.owner
        /\ g.oldStatus = f.oldStatus /\ g.newStatus = f.newStatus
    BY <1>0, <1>2 DEF ClaimFlip, Flip
  <2>2. /\ jobs'[s] = jobs[s] \cup {new}
        /\ \A t \in Senders : t # s => jobs'[t] = jobs[t]
        /\ new.flip = f /\ ~new.finished
    BY <1>0, <1>2 DEF ClaimFlip, SenderVars
  <2>3. \A h \in flips : h.id = f.id => h = f
    BY <1>2 DEF DeliveryInv, FlipIds
  <2>4. \A t \in Senders : \A j \in jobs[t] : j.flip.id # f.id
    BY <1>2 DEF SInv, SenderTypes, FetchedKnown, ClaimFlip, DeliveryInv, HeldSpent,
       Spent
  <2> HIDE DEF f, g, new
  <2>5. OwnersPresent'
    BY <1>0, <1>2, <2>1 DEF ClaimedInv, OwnersPresent, f
  <2>6. JobsCurrent'
    <3> SUFFICES ASSUME NEW t \in Senders, NEW j \in jobs'[t], NEW h \in flips',
                        h.id = j.flip.id
                 PROVE  /\ h.owner = j.flip.owner
                        /\ h.oldStatus = j.flip.oldStatus
                        /\ h.newStatus = j.flip.newStatus
      BY DEF JobsCurrent
    <3>1. CASE j \in jobs[t]
      BY <2>1, <2>4, <3>1 DEF ClaimedInv, JobsCurrent
    <3>2. CASE j = new
      BY <2>1, <2>2, <2>3, <3>2
    <3>3. QED BY <2>2, <3>1, <3>2
  <2>7. ClaimedNotLost'
    <3> SUFFICES ASSUME crashes = 0, NEW h \in flips', h.processed = "claimed",
                        Alerts(h)
                 PROVE  \/ \E i \in 1 .. Len(outbox') : outbox'[i] = h.id
                        \/ \E t \in Senders : \E j \in jobs'[t] :
                              j.flip.id = h.id /\ ~j.finished
      BY <1>0 DEF ClaimedNotLost, Alerts
    <3>1. CASE h \in flips
      BY <1>0, <2>2, <3>1 DEF ClaimedInv, ClaimedNotLost
    <3>2. CASE h = g
      BY <2>1, <2>2, <3>2
    <3>3. QED BY <2>1, <3>1, <3>2
  <2>8. QED BY <2>5, <2>6, <2>7 DEF ClaimedInv
<1>3. QED BY <1>1, <1>2

\* A thread alerts its flip, unless the check has gone, and the flip with it.
LEMMA NotifyClaimed ==
    ASSUME SInv, ClaimedInv, NEW s \in Senders, Notify(s)
    PROVE  ClaimedInv'
<1>0. SenderVars /\ flips' = flips /\ table' = table /\ crashes' = crashes
  BY DEF SInv, SenderTypes, Notify, checkVars
<1>1. PICK j \in jobs[s] :
        /\ ~j.finished
        /\ jobs' = [jobs EXCEPT ![s] =
                      (@ \ {j}) \cup {[j EXCEPT !.finished = TRUE]}]
        /\ outbox' = IF j.flip.owner \in table /\ Alerts(j.flip)
                     THEN Append(outbox, j.flip.id) ELSE outbox
  BY DEF Notify
<1> DEFINE done == [j EXCEPT !.finished = TRUE]
<1>2. done.flip = j.flip /\ j.flip.id \in Nat /\ outbox \in Seq(Nat)
  BY <1>0 DEF SenderVars, Job, Flip
<1>3. /\ jobs'[s] = (jobs[s] \ {j}) \cup {done}
      /\ \A t \in Senders : t # s => jobs'[t] = jobs[t]
  BY <1>0, <1>1 DEF SenderVars
<1> HIDE DEF done
<1>4. OwnersPresent' /\ JobsCurrent'
  BY <1>0, <1>2, <1>3 DEF ClaimedInv, OwnersPresent, JobsCurrent
<1>5. ClaimedNotLost'
  <2> SUFFICES ASSUME crashes = 0, NEW f \in flips, f.processed = "claimed",
                      Alerts(f)
               PROVE  \/ \E i \in 1 .. Len(outbox') : outbox'[i] = f.id
                      \/ \E t \in Senders : \E k \in jobs'[t] :
                            k.flip.id = f.id /\ ~k.finished
    BY <1>0 DEF ClaimedNotLost, Alerts
  <2>1. CASE \E i \in 1 .. Len(outbox) : outbox[i] = f.id
    BY <1>1, <1>2, <2>1
  <2>2. CASE f.id = j.flip.id
    <3>1. /\ f.owner = j.flip.owner /\ f.owner \in table
          /\ Alerts(j.flip)
      BY <2>2 DEF ClaimedInv, OwnersPresent, JobsCurrent, Alerts
    <3>2. outbox' = Append(outbox, f.id)
      BY <1>1, <2>2, <3>1
    <3>3. QED BY <1>2, <2>2, <3>2
  <2>3. CASE \E t \in Senders : \E k \in jobs[t] :
               k.flip.id = f.id /\ ~k.finished /\ k # j
    BY <1>3, <2>3
  <2>4. QED BY <2>1, <2>2, <2>3 DEF ClaimedInv, ClaimedNotLost
<1>6. QED BY <1>4, <1>5 DEF ClaimedInv

LEMMA SenderClaimed ==
    ASSUME SInv, DeliveryInv, ClaimedInv, NEW s \in Senders, SenderStep(s)
    PROVE  ClaimedInv'
<1>0. SenderVars /\ crashes \in Nat
  BY DEF SInv, SenderTypes, SenderVars
<1>1. CASE ClaimFlip(s)
  BY <1>1, ClaimClaimed
<1>2. CASE Notify(s)
  BY <1>2, NotifyClaimed
<1>3. CASE SaveFlip(s)
  <2>1. UNCHANGED <<table, jobs, outbox, crashes>>
    BY <1>3 DEF SaveFlip
  <2>2. CASE copy[s].id \in table
    <3>1. AddFlip(copy[s].id, GoingDownAfter(copy[s].row), copy[s].row.status,
                  "down", "timeout", "no")
      BY <1>3, <2>2 DEF SaveFlip
    <3>2. QED BY <2>1, <2>2, <3>1, ClaimedAdded
  <2>3. CASE copy[s].id \notin table
    BY <1>0, <1>3, <2>1, <2>3, NothingLost DEF SaveFlip, ClaimedInv, OwnersPresent
  <2>4. QED BY <2>2, <2>3
<1>4. CASE OnNotifyDone(s) \/ Crash(s)
  <2>1. /\ UNCHANGED <<flips, table, outbox>>
        /\ \A t \in Senders : jobs'[t] \subseteq jobs[t]
    BY <1>0, <1>4, ZenonT(30) DEF OnNotifyDone, Crash, checkVars, SenderVars
  <2>2. crashes' = 0 =>
          /\ crashes = 0
          /\ \A t \in Senders : \A j \in jobs[t] : ~j.finished => j \in jobs'[t]
    <3>1. CASE OnNotifyDone(s)
      BY <1>0, <3>1 DEF OnNotifyDone, SenderVars
    <3>2. CASE Crash(s)
      BY <1>0, <3>2 DEF Crash
    <3>3. QED BY <1>4, <3>1, <3>2
  <2>3. OwnersPresent' /\ JobsCurrent'
    BY <2>1 DEF ClaimedInv, OwnersPresent, JobsCurrent
  <2>4. ClaimedNotLost'
    BY <2>1, <2>2 DEF ClaimedInv, ClaimedNotLost, Alerts
  <2>5. QED BY <2>3, <2>4 DEF ClaimedInv
<1>5. CASE \/ PickOverdue(s) \/ NoneOverdue(s) \/ Calculate(s)
           \/ CalculateThrows(s) \/ Postpone(s) \/ MarkDown(s)
           \/ AcquireSeat(s) \/ FetchFlip(s) \/ Wake(s) \/ Exit(s)
           \/ Restart(s) \/ OnSignal(s)
  <2>1. UNCHANGED <<flips, table, jobs, outbox, crashes>>
    BY <1>5 DEF PickOverdue, NoneOverdue, Calculate, CalculateThrows,
       Postpone, MarkDown, AcquireSeat, FetchFlip, Wake, Exit, Restart,
       OnSignal, checkVars
  <2>2. QED BY <1>0, <2>1, NothingLost DEF ClaimedInv, OwnersPresent
<1>6. QED BY <1>1, <1>2, <1>3, <1>4, <1>5 DEF SenderStep, MainLoop, Worker

\* As long as no process crashes, a flip that was claimed and is to be alerted
\* is alerted or in the hands of a thread that will, whatever signals,
\* exceptions and deletions there are.
THEOREM ClaimedKept == SSpec => []ClaimedNotLost
<1>1. SInit => ClaimedInv
  BY DEF SInit, Init, ClaimedInv, OwnersPresent, JobsCurrent, ClaimedNotLost
<1>2. SInv /\ DeliveryInv /\ ClaimedInv /\ [SNext]_vars => ClaimedInv'
  <2> SUFFICES ASSUME SInv, DeliveryInv, ClaimedInv, [SNext]_vars
               PROVE  ClaimedInv'
    OBVIOUS
  <2>1. CASE CheckStep /\ UNCHANGED senderVars
    BY <2>1, CheckStepClaimed
  <2>2. ASSUME NEW s \in Senders, SenderStep(s) PROVE ClaimedInv'
    BY <2>2, SenderClaimed
  <2>3. CASE UNCHANGED vars
    BY <2>3, NothingLost DEF vars, checkVars, senderVars, SInv, SenderTypes, SenderVars,
       ClaimedInv, OwnersPresent
  <2>4. QED BY <2>1, <2>2, <2>3 DEF SNext
<1>3. ClaimedInv => ClaimedNotLost
  BY DEF ClaimedInv
<1>4. QED
  BY <1>1, <1>2, <1>3, SInvHolds, DeliveryInvInit, DeliveryInvNext, PTL DEF SSpec

-----------------------------------------------------------------------------
(* Sendalerts implements AlertDelivery.                                    *)

\* What the mapping makes of the tables and the threads.
WaitingIds == {f.id : f \in Unprocessed}
ClaimedIds == {j.flip.id : j \in {k \in UNION {jobs[s] : s \in Senders} :
                                     ~k.finished}}
SentIds == {outbox[i] : i \in 1 .. Len(outbox)}

AbstractStep ==
    \/ /\ lastFlip' = lastFlip + 1
       /\ \/ WaitingIds' = WaitingIds \cup {lastFlip + 1}
          \/ WaitingIds' = WaitingIds
       /\ UNCHANGED <<ClaimedIds, SentIds>>
    \/ \E n \in WaitingIds :
          /\ WaitingIds' = WaitingIds \ {n}
          /\ ClaimedIds' = ClaimedIds \cup {n}
          /\ UNCHANGED <<lastFlip, SentIds>>
    \/ \E n \in ClaimedIds :
          /\ ClaimedIds' = ClaimedIds \ {n}
          /\ SentIds' = SentIds \cup {n}
          /\ UNCHANGED <<lastFlip, WaitingIds>>
    \/ /\ WaitingIds' \subseteq WaitingIds
       /\ ClaimedIds' \subseteq ClaimedIds
       /\ UNCHANGED <<lastFlip, SentIds>>

LEMMA InClaimed ==
    \A n : n \in ClaimedIds
             <=> \E s \in Senders : \E j \in jobs[s] : j.flip.id = n /\ ~j.finished
BY DEF ClaimedIds

LEMMA InClaimedNext ==
    \A n : n \in ClaimedIds'
             <=> \E s \in Senders : \E j \in jobs'[s] : j.flip.id = n /\ ~j.finished
BY DEF ClaimedIds

\* Flips go, or threads end.
LEMMA Dropped ==
    ASSUME flips' \subseteq flips, UNCHANGED <<lastFlip, outbox>>,
           \A s \in Senders : jobs'[s] \subseteq jobs[s]
    PROVE  AbstractStep
<1>1. WaitingIds' \subseteq WaitingIds
  BY DEF WaitingIds, Unprocessed
<1>2. ClaimedIds' \subseteq ClaimedIds
  BY InClaimed, InClaimedNext
<1>3. SentIds' = SentIds
  BY DEF SentIds
<1>4. QED BY <1>1, <1>2, <1>3 DEF AbstractStep

LEMMA Recorded ==
    ASSUME NEW c, NEW created, NEW old, NEW new, NEW why, NEW processed,
           AddFlip(c, created, old, new, why, processed),
           UNCHANGED <<jobs, outbox>>
    PROVE  AbstractStep
<1>1. PICK f : /\ f.id = lastFlip + 1 /\ f.processed = processed
               /\ flips' = flips \cup {f} /\ lastFlip' = lastFlip + 1
  BY DEF AddFlip
<1>2. WaitingIds' = IF processed = "no" THEN WaitingIds \cup {lastFlip + 1}
                                         ELSE WaitingIds
  BY <1>1 DEF WaitingIds, Unprocessed
<1>3. UNCHANGED <<ClaimedIds, SentIds>>
  BY DEF ClaimedIds, SentIds
<1>4. QED BY <1>1, <1>2, <1>3 DEF AbstractStep

LEMMA CheckStepAbstract ==
    ASSUME CheckStep, UNCHANGED senderVars
    PROVE  AbstractStep
<1>0. /\ UNCHANGED <<jobs, outbox>>
      /\ \A s \in Senders : jobs'[s] \subseteq jobs[s]
  BY DEF senderVars
<1>1. CASE Tick
  BY <1>0, <1>1, Dropped DEF Tick
<1>2. ASSUME NEW c \in Checks, NEW action \in PingActions,
             NEW rid \in Maybe(Rids), ReceivePing(c, action, rid)
      PROVE  AbstractStep
  BY <1>0, <1>2, Dropped, Recorded DEF ReceivePing
<1>3. ASSUME NEW q \in Requests, ReadCheck(q) \/ Abort(q) \/ RequestStep(q)
      PROVE  AbstractStep
  <2>1. CASE CreateFlip(q)
    BY <1>0, <2>1, Dropped, Recorded DEF CreateFlip
  <2>2. CASE \/ ReadCheck(q) \/ Abort(q) \/ Decide(q) \/ Save(q) \/ SaveDown(q)
             \/ ClearPings(q) \/ ClearFlips(q) \/ Rename(q) \/ Collect(q)
             \/ Delete(q)
    <3>1. flips' \subseteq flips /\ lastFlip' = lastFlip
      BY <2>2 DEF ReadCheck, Abort, Decide, Save, SaveDown, ClearPings,
                  ClearFlips, Rename, Collect, Delete
    <3>2. QED BY <1>0, <3>1, Dropped
  <2>3. QED BY <1>3, <2>1, <2>2 DEF RequestStep
<1>4. QED BY <1>1, <1>2, <1>3 DEF CheckStep

LEMMA ClaimAbstract ==
    ASSUME SInv, DeliveryInv, NEW s \in Senders, ClaimFlip(s)
    PROVE  AbstractStep
<1>0. /\ SenderVars /\ fetched[s] \in Flip /\ fetched[s].processed = "no"
      /\ UNCHANGED <<lastFlip, outbox>>
  BY DEF SInv, SenderTypes, FetchedKnown, ClaimFlip
<1>1. CASE fetched[s] \notin flips
  BY <1>0, <1>1, Dropped DEF ClaimFlip, SenderVars
<1>2. CASE fetched[s] \in flips
  <2> DEFINE f == fetched[s]
             g == [f EXCEPT !.processed = "claimed"]
             new == [flip |-> f, finished |-> FALSE]
  <2>1. /\ flips' = (flips \ {f}) \cup {g}
        /\ g.id = f.id /\ g.processed = "claimed"
    BY <1>0, <1>2 DEF ClaimFlip, Flip
  <2>2. /\ jobs'[s] = jobs[s] \cup {new}
        /\ \A t \in Senders : t # s => jobs'[t] = jobs[t]
        /\ new.flip = f /\ ~new.finished
    BY <1>0, <1>2 DEF ClaimFlip, SenderVars
  <2>3. f.id \in WaitingIds /\ \A h \in flips : h.id = f.id => h = f
    BY <1>0, <1>2 DEF DeliveryInv, FlipIds, WaitingIds, Unprocessed
  <2>4. f.processed = "no"
    BY <1>0
  <2> HIDE DEF f, g, new
  <2>5. WaitingIds' = WaitingIds \ {f.id}
    BY <2>1, <2>3, <2>4 DEF WaitingIds, Unprocessed
  <2>6. ClaimedIds' = ClaimedIds \cup {f.id}
    <3>1. \A n : n \in ClaimedIds' <=> n \in ClaimedIds \/ n = f.id
      BY <2>2, InClaimed, InClaimedNext
    <3>2. QED BY <3>1
  <2>7. SentIds' = SentIds
    BY <1>0 DEF SentIds
  <2>8. QED BY <1>0, <2>3, <2>5, <2>6, <2>7 DEF AbstractStep
<1>3. QED BY <1>1, <1>2

LEMMA NotifyAbstract ==
    ASSUME SInv, DeliveryInv, NEW s \in Senders, Notify(s)
    PROVE  AbstractStep
<1>0. SenderVars /\ UNCHANGED <<lastFlip, flips>>
  BY DEF SInv, SenderTypes, Notify, checkVars
<1>1. PICK j \in jobs[s] :
        /\ ~j.finished
        /\ jobs' = [jobs EXCEPT ![s] =
                      (@ \ {j}) \cup {[j EXCEPT !.finished = TRUE]}]
        /\ outbox' = IF j.flip.owner \in table /\ Alerts(j.flip)
                     THEN Append(outbox, j.flip.id) ELSE outbox
  BY DEF Notify
<1> DEFINE done == [j EXCEPT !.finished = TRUE]
<1>2. done.flip = j.flip /\ done.finished /\ j.flip.id \in Nat /\ outbox \in Seq(Nat)
  BY <1>0 DEF SenderVars, Job, Flip
<1>3. /\ jobs'[s] = (jobs[s] \ {j}) \cup {done}
      /\ \A t \in Senders : t # s => jobs'[t] = jobs[t]
  BY <1>0, <1>1 DEF SenderVars
<1> HIDE DEF done
<1>4. j.flip.id \in ClaimedIds /\ ClaimedIds' = ClaimedIds \ {j.flip.id}
  <2>1. \A t \in Senders : \A k \in jobs[t] :
          k.flip.id = j.flip.id => t = s /\ k = j
    BY <1>1 DEF DeliveryInv, JobsDistinct
  <2>2. \A n : n \in ClaimedIds' <=> n \in ClaimedIds /\ n # j.flip.id
    BY <1>1, <1>2, <1>3, <2>1, InClaimed, InClaimedNext, SMTT(30)
  <2>3. QED BY <1>1, <2>2, InClaimed
<1>5. WaitingIds' = WaitingIds
  BY <1>0 DEF WaitingIds, Unprocessed
<1>6. CASE outbox' = outbox
  <2>1. SentIds' = SentIds
    BY <1>6 DEF SentIds
  <2>2. QED BY <1>0, <1>4, <1>5, <2>1 DEF AbstractStep
<1>7. CASE outbox' = Append(outbox, j.flip.id)
  <2>1. \A i \in 1 .. Len(outbox') :
          outbox'[i] = IF i = Len(outbox) + 1 THEN j.flip.id ELSE outbox[i]
    BY <1>2, <1>7
  <2>2. Len(outbox') = Len(outbox) + 1 /\ Len(outbox) \in Nat
    BY <1>2, <1>7
  <2>3. \A n : n \in SentIds' <=> n \in SentIds \/ n = j.flip.id
    <3>1. \A n : n \in SentIds' => n \in SentIds \/ n = j.flip.id
      BY <2>1, <2>2 DEF SentIds
    <3>2. \A n \in SentIds : n \in SentIds'
      BY <2>1, <2>2 DEF SentIds
    <3>3. j.flip.id \in SentIds'
      BY <2>1, <2>2 DEF SentIds
    <3>4. QED BY <3>1, <3>2, <3>3
  <2>4. SentIds' = SentIds \cup {j.flip.id}
    BY <2>3
  <2>5. QED BY <1>0, <1>4, <1>5, <2>4 DEF AbstractStep
<1>8. QED BY <1>1, <1>6, <1>7

LEMMA SenderAbstract ==
    ASSUME SInv, DeliveryInv, NEW s \in Senders, SenderStep(s)
    PROVE  AbstractStep
<1>0. SenderVars
  BY DEF SInv, SenderTypes
<1>1. CASE ClaimFlip(s)
  BY <1>1, ClaimAbstract
<1>2. CASE Notify(s)
  BY <1>2, NotifyAbstract
<1>3. CASE SaveFlip(s)
  BY <1>3, Dropped, Recorded DEF SaveFlip
<1>4. CASE \/ PickOverdue(s) \/ NoneOverdue(s) \/ Calculate(s)
           \/ CalculateThrows(s) \/ Postpone(s) \/ MarkDown(s)
           \/ AcquireSeat(s) \/ FetchFlip(s) \/ Wake(s) \/ Exit(s)
           \/ Restart(s) \/ OnSignal(s) \/ OnNotifyDone(s) \/ Crash(s)
  <2>1. /\ UNCHANGED <<flips, lastFlip, outbox>>
        /\ \A t \in Senders : jobs'[t] \subseteq jobs[t]
    BY <1>0, <1>4, ZenonT(30) DEF PickOverdue, NoneOverdue, Calculate, CalculateThrows,
       Postpone, MarkDown, AcquireSeat, FetchFlip, Wake, Exit, Restart,
       OnSignal, OnNotifyDone, Crash, checkVars, SenderVars
  <2>2. QED BY <2>1, Dropped
<1>5. QED BY <1>1, <1>2, <1>3, <1>4 DEF SenderStep, MainLoop, Worker

\* Any number of processes that share nothing but the tables, crash and are
\* restarted, deliver every flip at most once: Sendalerts implements
\* AlertDelivery.
THEOREM Delivers == SSpec => DeliversAtMostOnce
<1>1. SInit => Delivery!DInit
  <2> SUFFICES ASSUME SInit PROVE Delivery!DInit
    OBVIOUS
  <2>1. lastFlip = 0 /\ WaitingIds = {} /\ SentIds = {}
    BY DEF SInit, Init, WaitingIds, Unprocessed, SentIds
  <2>2. ClaimedIds = {}
    BY InClaimed DEF SInit
  <2>3. QED
    BY <2>1, <2>2 DEF Delivery!DInit, WaitingIds, ClaimedIds, SentIds
<1>2. SInv /\ DeliveryInv /\ [SNext]_vars => [Delivery!DNext]_(Delivery!dVars)
  <2> SUFFICES ASSUME SInv, DeliveryInv, [SNext]_vars
               PROVE  Delivery!DNext \/ UNCHANGED Delivery!dVars
    OBVIOUS
  <2>1. AbstractStep
    <3>1. CASE CheckStep /\ UNCHANGED senderVars
      BY <3>1, CheckStepAbstract
    <3>2. ASSUME NEW s \in Senders, SenderStep(s) PROVE AbstractStep
      BY <3>2, SenderAbstract
    <3>3. CASE UNCHANGED vars
      BY <3>3, Dropped DEF vars, checkVars, senderVars
    <3>4. QED BY <3>1, <3>2, <3>3 DEF SNext
  <2>2. AbstractStep => Delivery!DNext
    BY DEF AbstractStep, Delivery!DNext, Delivery!Record, Delivery!Claim,
       Delivery!Send, Delivery!Drop, WaitingIds, ClaimedIds, SentIds
  <2>3. QED BY <2>1, <2>2
<1>3. QED
  BY <1>1, <1>2, SInvHolds, DeliveryInvInit, DeliveryInvNext, PTL
  DEF SSpec, DeliversAtMostOnce, Delivery!DSpec

-----------------------------------------------------------------------------
(* One flip for each outage, when no request sets the status of a check.   *)

Harmless == {"filter", "update", "remove"}

\* Requests stay in the steps of these three.
HarmlessRequests ==
    \A q \in Requests : req[q].step \in ReqSteps =>
        /\ req[q].op \in Harmless
        /\ req[q].step = "save" => req[q].op # "remove"
        /\ req[q].step \notin {"decide", "flip", "saveDown", "clearPings", "clearFlips"}

WasDown(c) == IF row[c].status = "down" THEN 1 ELSE 0

Balanced(c) ==
    /\ IsFiniteSet(FlipsOf(c, "down"))
    /\ IsFiniteSet(FlipsOf(c, "up"))
    /\ IsFiniteSet(Saving(c))
    /\ Cardinality(FlipsOf(c, "down")) + Cardinality(Saving(c))
         = Cardinality(FlipsOf(c, "up")) + WasDown(c)

OutageInv ==
    /\ HarmlessRequests
    /\ crashes = 0 => \A c \in table : Balanced(c)

LEMMA BalancedKept ==
    ASSUME NEW c, Balanced(c), row'[c].status = row[c].status,
           FlipsOf(c, "down")' = FlipsOf(c, "down"),
           FlipsOf(c, "up")' = FlipsOf(c, "up"),
           Saving(c)' = Saving(c)
    PROVE  Balanced(c)'
BY DEF Balanced, WasDown

LEMMA CountsAreNat ==
    ASSUME NEW c, Balanced(c)
    PROVE  /\ Cardinality(FlipsOf(c, "down")) \in Nat
           /\ Cardinality(FlipsOf(c, "up")) \in Nat
           /\ Cardinality(Saving(c)) \in Nat
BY FS_CardinalityType DEF Balanced

LEMMA InFlipsOf ==
    ASSUME NEW c, NEW new
    PROVE  /\ \A f : f \in FlipsOf(c, new) <=>
                       /\ f \in flips /\ f.owner = c /\ f.newStatus = new
                       /\ new = "up" => f.oldStatus = "down"
           /\ \A f : f \in FlipsOf(c, new)' <=>
                       /\ f \in flips' /\ f.owner = c /\ f.newStatus = new
                       /\ new = "up" => f.oldStatus = "down"
BY DEF FlipsOf

\* What a new flip does to the counts of a check.
LEMMA CountAdded ==
    ASSUME SInv, DeliveryInv, NEW c, Balanced(c),
           NEW d, NEW created, NEW old, NEW new, NEW why, NEW processed,
           AddFlip(d, created, old, new, why, processed)
    PROVE  \A k \in {"up", "down"} :
             /\ IsFiniteSet(FlipsOf(c, k)')
             /\ Cardinality(FlipsOf(c, k)')
                  = IF d = c /\ new = k /\ (k = "up" => old = "down")
                    THEN Cardinality(FlipsOf(c, k)) + 1
                    ELSE Cardinality(FlipsOf(c, k))
<1>1. PICK f : /\ f.id = lastFlip + 1 /\ f.owner = d
               /\ f.oldStatus = old /\ f.newStatus = new
               /\ flips' = flips \cup {f}
  BY DEF AddFlip
<1>2. f \notin flips
  <2>1. lastFlip \in Nat /\ \A g \in flips : g.id \in Nat /\ g.id <= lastFlip
    BY DEF SInv, TypeInv, Flip, DeliveryInv, FlipIds
  <2>2. QED BY <1>1, <2>1
<1> SUFFICES ASSUME NEW k \in {"up", "down"}
             PROVE  /\ IsFiniteSet(FlipsOf(c, k)')
                    /\ Cardinality(FlipsOf(c, k)')
                         = IF d = c /\ new = k /\ (k = "up" => old = "down")
                           THEN Cardinality(FlipsOf(c, k)) + 1
                           ELSE Cardinality(FlipsOf(c, k))
  OBVIOUS
<1>3. IsFiniteSet(FlipsOf(c, k))
  BY DEF Balanced
<1>4. CASE d = c /\ new = k /\ (k = "up" => old = "down")
  <2> DEFINE before == FlipsOf(c, k)
  <2>1. FlipsOf(c, k)' = before \cup {f}
    BY <1>1, <1>4, InFlipsOf
  <2>2. f \notin before
    BY <1>2, InFlipsOf
  <2>3. IsFiniteSet(before)
    BY <1>3
  <2> HIDE DEF before
  <2>4. /\ IsFiniteSet(before \cup {f})
        /\ Cardinality(before \cup {f}) = Cardinality(before) + 1
    BY <2>2, <2>3, FS_AddElement
  <2>5. QED BY <1>4, <2>1, <2>4 DEF before
<1>5. CASE ~(d = c /\ new = k /\ (k = "up" => old = "down"))
  <2>1. FlipsOf(c, k)' = FlipsOf(c, k)
    BY <1>1, <1>5, InFlipsOf
  <2>2. QED BY <1>3, <1>5, <2>1
<1>6. QED BY <1>4, <1>5

\* A ping: the status and the count of flips change together.
LEMMA PingOutage ==
    ASSUME SInv, DeliveryInv, OutageInv, UNCHANGED senderVars,
           NEW c \in Checks, NEW action \in PingActions,
           NEW rid \in Maybe(Rids), ReceivePing(c, action, rid)
    PROVE  OutageInv'
<1> DEFINE done  == EffectiveAction(row[c], action)
           after == Pinged(row[c], done, rid, now)
           why   == IF done = "fail" THEN "fail" ELSE ""
<1>1. /\ row[c] \in GoodRow /\ now \in Instants /\ done \in Actions
      /\ row[c].status \in Statuses /\ row \in [Checks -> GoodRow]
      /\ table \subseteq Checks
  BY OpsAssumption DEF SInv, TypeInv, EffectiveAction, Actions, GoodRow, Row
<1>2. after.status # row[c].status => after.status \in {"up", "down"}
  BY <1>1, PingedType
<1>3. /\ row' = [row EXCEPT ![c] = after] /\ table' = table /\ req' = req
      /\ IF after.status # row[c].status
         THEN AddFlip(c, now, row[c].status, after.status, why, "no")
         ELSE UNCHANGED <<flips, lastFlip>>
  BY DEF ReceivePing
<1> HIDE DEF after, done, why
<1>4. HarmlessRequests'
  BY <1>3 DEF OutageInv, HarmlessRequests
<1>5. ASSUME crashes = 0, NEW d \in table PROVE Balanced(d)'
  <2>1. Balanced(d) /\ Saving(d)' = Saving(d)
    BY <1>5 DEF OutageInv, Saving, senderVars
  <2>2. row'[d] = IF d = c THEN after ELSE row[d]
    BY <1>1, <1>3
  <2>3. CASE after.status = row[c].status
    BY <1>3, <2>1, <2>2, <2>3, BalancedKept DEF FlipsOf
  <2>4. CASE after.status # row[c].status
    <3>1. AddFlip(c, now, row[c].status, after.status, why, "no")
      BY <1>3, <2>4
    <3>2. \A k \in {"up", "down"} :
            /\ IsFiniteSet(FlipsOf(d, k)')
            /\ Cardinality(FlipsOf(d, k)')
                 = IF c = d /\ after.status = k /\ (k = "up" => row[c].status = "down")
                   THEN Cardinality(FlipsOf(d, k)) + 1
                   ELSE Cardinality(FlipsOf(d, k))
      BY <2>1, <3>1, CountAdded
    <3>3. /\ IsFiniteSet(FlipsOf(d, "up")') /\ IsFiniteSet(FlipsOf(d, "down")')
          /\ Cardinality(FlipsOf(d, "up")')
               = IF c = d /\ after.status = "up" /\ row[c].status = "down"
                 THEN Cardinality(FlipsOf(d, "up")) + 1
                 ELSE Cardinality(FlipsOf(d, "up"))
          /\ Cardinality(FlipsOf(d, "down")')
               = IF c = d /\ after.status = "down"
                 THEN Cardinality(FlipsOf(d, "down")) + 1
                 ELSE Cardinality(FlipsOf(d, "down"))
      BY <3>2
    <3>4. CASE d # c
      BY <2>1, <2>2, <3>3, <3>4 DEF Balanced, WasDown
    <3>5. CASE d = c /\ after.status = "down"
      <4>1. WasDown(d) = 0 /\ WasDown(d)' = 1
        BY <2>2, <2>4, <3>5 DEF WasDown
      <4>2. QED
        BY <2>1, <3>3, <3>5, <4>1, CountsAreNat DEF Balanced
    <3>6. CASE d = c /\ after.status = "up" /\ row[c].status = "down"
      <4>1. WasDown(d) = 1 /\ WasDown(d)' = 0
        BY <2>2, <3>6 DEF WasDown
      <4>2. QED
        BY <2>1, <3>3, <3>6, <4>1, CountsAreNat DEF Balanced
    <3>7. CASE d = c /\ after.status = "up" /\ row[c].status # "down"
      <4>1. WasDown(d) = 0 /\ WasDown(d)' = 0
        BY <2>2, <3>7 DEF WasDown
      <4>2. QED
        BY <2>1, <3>3, <3>7, <4>1, CountsAreNat DEF Balanced
    <3>8. QED BY <1>2, <2>4, <3>4, <3>5, <3>6, <3>7
  <2>5. QED BY <2>3, <2>4
<1>6. QED BY <1>3, <1>4, <1>5 DEF OutageInv, senderVars

\* The steps of harmless requests.
LEMMA RequestOutage ==
    ASSUME Ops \subseteq Harmless, SInv, OutageInv, UNCHANGED senderVars,
           NEW q \in Requests, ReadCheck(q) \/ Abort(q) \/ RequestStep(q)
    PROVE  OutageInv'
<1>0. /\ row \in [Checks -> GoodRow] /\ table \subseteq Checks
      /\ req \in [Requests -> GoodRequest \cup {Idle, Done}]
      /\ Idle.step \notin ReqSteps /\ Done.step \notin ReqSteps
  BY DEF SInv, TypeInv, Idle, Done, ReqSteps
<1>1. \/ ReadCheck(q) \/ Abort(q) \/ Save(q) \/ Rename(q) \/ Collect(q) \/ Delete(q)
  <2>1. ~(Decide(q) \/ CreateFlip(q) \/ SaveDown(q) \/ ClearPings(q) \/ ClearFlips(q))
    BY DEF OutageInv, HarmlessRequests, ReqSteps, Decide, CreateFlip, SaveDown,
       ClearPings, ClearFlips
  <2>2. QED BY <2>1 DEF RequestStep
<1>2. HarmlessRequests'
  <2>1. CASE ReadCheck(q)
    <3>1. PICK op \in Ops, c \in table : \E input \in Inputs(op) :
            req' = [req EXCEPT ![q] =
                      IF Refused(op, row[c]) THEN Done
                      ELSE [step |-> FirstStep(op), op |-> op, c |-> c,
                            row |-> row[c], input |-> input, mark |-> <<0, 0>>]]
      BY <2>1 DEF ReadCheck
    <3>2. /\ op \in Harmless
          /\ FirstStep(op) = IF op = "remove" THEN "rename" ELSE "save"
      BY DEF Harmless, FirstStep
    <3>3. \A p \in Requests : p # q => req'[p] = req[p]
      BY <1>0, <3>1
    <3>4. \/ req'[q].step \notin ReqSteps
          \/ /\ req'[q].op = op
             /\ req'[q].step = IF op = "remove" THEN "rename" ELSE "save"
      BY <1>0, <3>1, <3>2
    <3>5. QED BY <3>2, <3>3, <3>4 DEF OutageInv, HarmlessRequests
  <2>2. CASE Abort(q) \/ Save(q) \/ Rename(q) \/ Collect(q) \/ Delete(q)
    <3>1. req[q].step \in ReqSteps /\ req[q] \in GoodRequest
      BY <1>0, <2>2 DEF Abort, Save, Rename, Collect, Delete, ReqSteps, Idle, Done
    <3>2. req[q].op \in Harmless
      BY <3>1 DEF OutageInv, HarmlessRequests
    <3>3. \A p \in Requests : p # q => req'[p] = req[p]
      BY <1>0, <2>2 DEF Abort, Save, Rename, Collect, Delete, Finish, Goto
    <3>4. \/ req'[q].step \notin ReqSteps
          \/ /\ req'[q].op = req[q].op
             /\ req'[q].step \in {"collect", "delete", "collectAgain", "deleteAgain"}
      <4>1. CASE Abort(q)
        BY <1>0, <4>1 DEF Abort, Finish
      <4>2. CASE Save(q)
        BY <1>0, <3>2, <4>2 DEF Save, Finish, Harmless
      <4>3. CASE Rename(q)
        BY <1>0, <3>1, <4>3 DEF Rename, Goto, GoodRequest, Request
      <4>4. CASE Collect(q)
        BY <1>0, <3>1, <4>4 DEF Collect, GoodRequest, Request
      <4>5. CASE Delete(q)
        BY <1>0, <3>1, <4>5 DEF Delete, Goto, Finish, GoodRequest, Request
      <4>6. QED BY <2>2, <4>1, <4>2, <4>3, <4>4, <4>5
    <3>5. QED BY <3>2, <3>3, <3>4 DEF OutageInv, HarmlessRequests
  <2>3. QED BY <1>1, <2>1, <2>2
<1>3. ASSUME crashes = 0, NEW c \in table' PROVE Balanced(c)'
  <2>1. c \in table /\ Balanced(c) /\ Saving(c)' = Saving(c)
    BY <1>1, <1>3 DEF OutageInv, Saving, senderVars, ReadCheck, Abort, Save, Rename,
       Collect, Delete
  <2>2. row'[c].status = row[c].status
    <3>1. CASE Save(q)
      <4>1. req[q].op \in {"filter", "update"}
        BY <3>1 DEF Save, OutageInv, HarmlessRequests, Harmless, ReqSteps
      <4>2. row[c] \in Row /\ Written(q, row[c]).status = row[c].status
        BY <1>0, <2>1, <4>1 DEF Written, GoodRow, Row
      <4>3. QED BY <1>0, <2>1, <3>1, <4>2 DEF Save
    <3>2. CASE Rename(q)
      <4>1. row[c] \in Row
        BY <1>0, <2>1 DEF GoodRow
      <4>2. QED BY <1>0, <2>1, <3>2, <4>1 DEF Rename, Row
    <3>3. CASE ReadCheck(q) \/ Abort(q) \/ Collect(q) \/ Delete(q)
      BY <3>3 DEF ReadCheck, Abort, Collect, Delete
    <3>4. QED BY <1>1, <3>1, <3>2, <3>3
  <2>3. \A k \in {"up", "down"} : FlipsOf(c, k)' = FlipsOf(c, k)
    <3>1. CASE Delete(q)
      <4>1. \A f : f.owner = c => (f \in flips' <=> f \in flips)
        BY <1>3, <3>1 DEF Delete
      <4>2. ASSUME NEW k \in {"up", "down"}
            PROVE  FlipsOf(c, k)' = FlipsOf(c, k)
        <5>1. \A f : f \in FlipsOf(c, k)' <=> f \in FlipsOf(c, k)
          BY <4>1, InFlipsOf
        <5>2. QED BY <5>1
      <4>3. QED BY <4>2
    <3>2. CASE ReadCheck(q) \/ Abort(q) \/ Collect(q) \/ Save(q) \/ Rename(q)
      BY <3>2 DEF ReadCheck, Abort, Collect, Save, Rename, FlipsOf
    <3>3. QED BY <1>1, <3>1, <3>2
  <2>4. QED BY <2>1, <2>2, <2>3, BalancedKept
<1>4. crashes' = crashes
  BY DEF senderVars
<1>5. QED BY <1>2, <1>3, <1>4 DEF OutageInv

\* The two steps of handle_going_down that count: the UPDATE, and the flip.
LEMMA MarkDownOutage ==
    ASSUME SInv, OutageInv, NEW s \in Senders, MarkDown(s)
    PROVE  OutageInv'
<1>0. /\ SenderVars /\ CopyKnown(s)
      /\ row \in [Checks -> GoodRow] /\ table \subseteq Checks
      /\ pc[s] = "markDown" /\ UNCHANGED <<table, flips, req, crashes>>
  BY DEF SInv, SenderTypes, TypeInv, MarkDown
<1>1. HarmlessRequests'
  BY <1>0 DEF OutageInv, HarmlessRequests
<1>2. ASSUME crashes = 0, NEW c \in table PROVE Balanced(c)'
  <2>1. Balanced(c)
    BY <1>2 DEF OutageInv
  <2>2. FlipsOf(c, "up")' = FlipsOf(c, "up") /\ FlipsOf(c, "down")' = FlipsOf(c, "down")
    BY <1>0 DEF FlipsOf
  <2>3. CASE Matches(s)
    <3>1. /\ row' = [row EXCEPT ![copy[s].id].alertAfter = None,
                                ![copy[s].id].status = "down"]
          /\ pc' = [pc EXCEPT ![s] = "saveFlip"] /\ copy' = copy
      BY <2>3 DEF MarkDown, Goes
    <3>2. copy[s].id \in table /\ row[copy[s].id].status # "down"
      BY <1>0, <2>3 DEF Matches, CopyKnown
    <3>3. CASE c = copy[s].id
      <4> DEFINE before == Saving(c)
      <4>1. Saving(c)' = before \cup {s} /\ s \notin before
        BY <1>0, <3>1, <3>3 DEF Saving, SenderVars
      <4>2. IsFiniteSet(before)
        BY <2>1 DEF Balanced
      <4>3. row[c] \in Row
        BY <1>0, <3>2, <3>3 DEF GoodRow
      <4>4. WasDown(c) = 0 /\ WasDown(c)' = 1
        BY <1>0, <3>1, <3>2, <3>3, <4>3 DEF WasDown, Row
      <4> HIDE DEF before
      <4>5. /\ IsFiniteSet(before \cup {s})
            /\ Cardinality(before \cup {s}) = Cardinality(before) + 1
        BY <4>1, <4>2, FS_AddElement
      <4>6. Cardinality(Saving(c)') = Cardinality(Saving(c)) + 1
            /\ IsFiniteSet(Saving(c)')
        BY <4>1, <4>5 DEF before
      <4>7. QED
        BY <2>1, <2>2, <4>4, <4>6, CountsAreNat DEF Balanced
    <3>4. CASE c # copy[s].id
      <4>1. Saving(c)' = Saving(c)
        BY <1>0, <3>1, <3>4 DEF Saving, SenderVars
      <4>2. row'[c] = row[c]
        BY <1>0, <3>1, <3>4
      <4>3. QED BY <2>1, <2>2, <4>1, <4>2, BalancedKept
    <3>5. QED BY <3>3, <3>4
  <2>4. CASE ~Matches(s)
    <3>1. /\ row' = row /\ pc' = [pc EXCEPT ![s] = pc'[s]]
          /\ pc'[s] # "saveFlip" /\ copy' = [copy EXCEPT ![s] = Nothing]
      BY <1>0, <2>4 DEF MarkDown, Again, Goes, SenderVars
    <3>2. Saving(c)' = Saving(c)
      BY <1>0, <3>1 DEF Saving, SenderVars
    <3>3. QED BY <2>1, <2>2, <3>1, <3>2, BalancedKept
  <2>5. QED BY <2>3, <2>4
<1>3. QED BY <1>0, <1>1, <1>2 DEF OutageInv

LEMMA SaveFlipOutage ==
    ASSUME SInv, DeliveryInv, OutageInv, NEW s \in Senders, SaveFlip(s)
    PROVE  OutageInv'
<1>0. /\ SenderVars /\ pc[s] = "saveFlip"
      /\ UNCHANGED <<row, table, req, crashes>>
  BY DEF SInv, SenderTypes, SaveFlip
<1>1. HarmlessRequests'
  BY <1>0 DEF OutageInv, HarmlessRequests
<1>2. /\ pc' = [pc EXCEPT ![s] = pc'[s]] /\ pc'[s] # "saveFlip"
      /\ copy' = [copy EXCEPT ![s] = Nothing]
  BY <1>0 DEF SaveFlip, Again, Goes, SenderVars
<1>3. ASSUME crashes = 0, NEW c \in table PROVE Balanced(c)'
  <2>1. Balanced(c) /\ WasDown(c)' = WasDown(c)
    BY <1>0, <1>3 DEF OutageInv, WasDown
  <2>2. CASE c = copy[s].id
    <3> DEFINE before == Saving(c)
    <3>1. Saving(c)' = before \ {s} /\ s \in before
      BY <1>0, <1>2, <2>2 DEF Saving, SenderVars
    <3>2. IsFiniteSet(before)
      BY <2>1 DEF Balanced
    <3> HIDE DEF before
    <3>3. /\ IsFiniteSet(before \ {s})
          /\ Cardinality(before \ {s}) = Cardinality(before) - 1
      BY <3>1, <3>2, FS_RemoveElement
    <3>4. IsFiniteSet(Saving(c)') /\ Cardinality(Saving(c)') = Cardinality(Saving(c)) - 1
      BY <3>1, <3>3 DEF before
    <3>5. AddFlip(c, GoingDownAfter(copy[s].row), copy[s].row.status,
                  "down", "timeout", "no")
      BY <1>3, <2>2 DEF SaveFlip
    <3>6. \A k \in {"up", "down"} :
            /\ IsFiniteSet(FlipsOf(c, k)')
            /\ Cardinality(FlipsOf(c, k)')
                 = IF c = c /\ "down" = k /\ (k = "up" => copy[s].row.status = "down")
                   THEN Cardinality(FlipsOf(c, k)) + 1
                   ELSE Cardinality(FlipsOf(c, k))
      BY <2>1, <3>5, CountAdded
    <3>7. /\ IsFiniteSet(FlipsOf(c, "up")') /\ IsFiniteSet(FlipsOf(c, "down")')
          /\ Cardinality(FlipsOf(c, "up")') = Cardinality(FlipsOf(c, "up"))
          /\ Cardinality(FlipsOf(c, "down")') = Cardinality(FlipsOf(c, "down")) + 1
      BY <3>6
    <3>8. QED BY <2>1, <3>4, <3>7, CountsAreNat DEF Balanced, WasDown
  <2>3. CASE c # copy[s].id
    <3>1. Saving(c)' = Saving(c)
      BY <1>0, <1>2, <2>3 DEF Saving, SenderVars
    <3>2. \A f : f.owner = c => (f \in flips' <=> f \in flips)
      BY <2>3 DEF SaveFlip, AddFlip
    <3>3. ASSUME NEW k \in {"up", "down"} PROVE FlipsOf(c, k)' = FlipsOf(c, k)
      <4>1. \A f : f \in FlipsOf(c, k)' <=> f \in FlipsOf(c, k)
        BY <3>2, InFlipsOf
      <4>2. QED BY <4>1
    <3>4. QED BY <1>0, <2>1, <3>1, <3>3, BalancedKept
  <2>4. QED BY <2>2, <2>3
<1>4. QED BY <1>0, <1>1, <1>3 DEF OutageInv

\* A claimed flip counts as it did before.
LEMMA ClaimOutage ==
    ASSUME SInv, DeliveryInv, OutageInv, NEW s \in Senders, ClaimFlip(s)
    PROVE  OutageInv'
<1>0. /\ SenderVars /\ fetched[s] \in Flip /\ fetched[s].processed = "no"
      /\ pc[s] = "claim" /\ UNCHANGED <<row, table, req, crashes, copy>>
  BY DEF SInv, SenderTypes, FetchedKnown, ClaimFlip
<1>1. HarmlessRequests'
  BY <1>0 DEF OutageInv, HarmlessRequests
<1>2. pc' = [pc EXCEPT ![s] = pc'[s]] /\ pc'[s] # "saveFlip"
  BY <1>0 DEF ClaimFlip, Return, Goes, SenderVars
<1>3. ASSUME crashes = 0, NEW c \in table PROVE Balanced(c)'
  <2>1. Balanced(c) /\ WasDown(c)' = WasDown(c)
    BY <1>0, <1>3 DEF OutageInv, WasDown
  <2>2. Saving(c)' = Saving(c)
    BY <1>0, <1>2 DEF Saving, SenderVars
  <2>3. ASSUME NEW k \in {"up", "down"}
        PROVE  /\ IsFiniteSet(FlipsOf(c, k)')
               /\ Cardinality(FlipsOf(c, k)') = Cardinality(FlipsOf(c, k))
    <3> DEFINE before == FlipsOf(c, k)
               f == fetched[s]
               g == [f EXCEPT !.processed = "claimed"]
    <3>1. IsFiniteSet(before)
      BY <2>1 DEF Balanced
    <3>2. CASE f \in before
      <4>1. f \in flips
        BY <3>2, InFlipsOf
      <4>2. /\ flips' = (flips \ {f}) \cup {g} /\ g # f
            /\ g.owner = f.owner /\ g.oldStatus = f.oldStatus
            /\ g.newStatus = f.newStatus /\ g.id = f.id
        BY <1>0, <4>1 DEF ClaimFlip, Flip
      <4>3. g \notin flips
        BY <4>1, <4>2 DEF DeliveryInv, FlipIds
      <4> DEFINE rest == before \ {f}
      <4>4. FlipsOf(c, k)' = rest \cup {g}
        <5> HIDE DEF g
        <5>1. \A h : h \in FlipsOf(c, k)' <=> h \in rest \cup {g}
          BY <3>2, <4>2, InFlipsOf
        <5> HIDE DEF rest
        <5>2. QED BY <5>1
      <4>5. g \notin rest
        BY <4>3, InFlipsOf
      <4> HIDE DEF before, g, f
      <4>6. IsFiniteSet(rest) /\ Cardinality(rest) = Cardinality(before) - 1
            /\ Cardinality(before) \in Nat
        BY <3>1, <3>2, FS_RemoveElement, FS_CardinalityType
      <4> HIDE DEF rest
      <4>7. /\ IsFiniteSet(rest \cup {g})
            /\ Cardinality(rest \cup {g}) = Cardinality(rest) + 1
        BY <4>5, <4>6, FS_AddElement
      <4>8. QED BY <4>4, <4>6, <4>7 DEF before
    <3>3. CASE f \notin before
      <4>1. FlipsOf(c, k)' = before
        <5>1. CASE f \in flips
          <6>1. /\ flips' = (flips \ {f}) \cup {g}
                /\ g.owner = f.owner /\ g.oldStatus = f.oldStatus
                /\ g.newStatus = f.newStatus
            BY <1>0, <5>1 DEF ClaimFlip, Flip
          <6> HIDE DEF g
          <6>2. \A h : h \in FlipsOf(c, k)' <=> h \in FlipsOf(c, k)
            BY <3>3, <5>1, <6>1, InFlipsOf
          <6>3. QED BY <6>2
        <5>2. CASE f \notin flips
          <6>1. flips' = flips
            BY <5>2 DEF ClaimFlip
          <6>2. QED BY <6>1 DEF FlipsOf
        <5>3. QED BY <5>1, <5>2
      <4>2. QED BY <3>1, <4>1
    <3>4. QED BY <3>2, <3>3
  <2>4. /\ IsFiniteSet(FlipsOf(c, "up")') /\ IsFiniteSet(FlipsOf(c, "down")')
        /\ Cardinality(FlipsOf(c, "up")') = Cardinality(FlipsOf(c, "up"))
        /\ Cardinality(FlipsOf(c, "down")') = Cardinality(FlipsOf(c, "down"))
    BY <2>3
  <2>5. QED BY <2>1, <2>2, <2>4 DEF Balanced, WasDown
<1>4. QED BY <1>0, <1>1, <1>3 DEF OutageInv

LEMMA SenderOutage ==
    ASSUME SInv, DeliveryInv, OutageInv, NEW s \in Senders, SenderStep(s)
    PROVE  OutageInv'
<1>0. /\ SenderVars /\ crashes \in Nat
      /\ row \in [Checks -> GoodRow] /\ table \subseteq Checks
  BY DEF SInv, SenderTypes, SenderVars, TypeInv
<1>1. CASE MarkDown(s)
  BY <1>1, MarkDownOutage
<1>2. CASE SaveFlip(s)
  BY <1>2, SaveFlipOutage
<1>3. CASE ClaimFlip(s)
  BY <1>3, ClaimOutage
<1>4. CASE \/ PickOverdue(s) \/ NoneOverdue(s) \/ Calculate(s)
           \/ CalculateThrows(s) \/ Postpone(s) \/ AcquireSeat(s)
           \/ FetchFlip(s) \/ Wake(s) \/ Exit(s) \/ Restart(s)
           \/ Worker(s) \/ OnSignal(s)
  <2>1. UNCHANGED <<table, flips, req, crashes>>
    BY <1>4 DEF PickOverdue, NoneOverdue, Calculate, CalculateThrows, Postpone,
       AcquireSeat, FetchFlip, Wake, Exit, Restart, Worker, Notify, OnNotifyDone,
       OnSignal, checkVars
  <2>2. \A c \in Checks : row'[c].status = row[c].status
    <3>1. CASE CalculateThrows(s) \/ Postpone(s)
      <4>1. PICK time : Postponed(s, time)
        BY <3>1 DEF CalculateThrows, Postpone
      <4>2. \A c \in Checks : row[c] \in Row
        BY <1>0 DEF GoodRow
      <4>3. QED BY <1>0, <4>1, <4>2 DEF Postponed, Row
    <3>2. CASE ~(CalculateThrows(s) \/ Postpone(s))
      BY <1>4, <3>2 DEF PickOverdue, NoneOverdue, Calculate,
         AcquireSeat, FetchFlip, Wake, Exit, Restart, Worker, Notify, OnNotifyDone,
         OnSignal, checkVars
    <3>3. QED BY <3>1, <3>2
  <2>3. /\ \A t \in Senders : t # s => pc'[t] = pc[t] /\ copy'[t] = copy[t]
        /\ \/ pc' = pc /\ copy' = copy
           \/ pc[s] # "saveFlip" /\ pc'[s] # "saveFlip"
    BY <1>0, <1>4 DEF PickOverdue, NoneOverdue, Calculate, CalculateThrows, Postpone,
       AcquireSeat, FetchFlip, Wake, Exit, Restart, Worker, Notify, OnNotifyDone,
       OnSignal, Again, Goes, Return, SenderVars
  <2>4. \A c \in table : Saving(c)' = Saving(c)
    BY <2>3 DEF Saving
  <2>5. \A c \in table : FlipsOf(c, "up")' = FlipsOf(c, "up")
                         /\ FlipsOf(c, "down")' = FlipsOf(c, "down")
    BY <2>1 DEF FlipsOf
  <2>6. HarmlessRequests'
    BY <2>1 DEF OutageInv, HarmlessRequests
  <2>7. QED
    BY <1>0, <2>1, <2>2, <2>4, <2>5, <2>6, BalancedKept DEF OutageInv
<1>5. CASE Crash(s)
  BY <1>0, <1>5 DEF Crash, OutageInv, HarmlessRequests, checkVars
<1>6. QED
  BY <1>1, <1>2, <1>3, <1>4, <1>5 DEF SenderStep, MainLoop

\* Unless a request sets the status, or a process crashes: every time a check
\* goes down, by a ping or by any of the senders, there is one flip for it, or
\* one process about to insert it, and one for every time it comes back.
THEOREM OutageHasOneFlip ==
    ASSUME Ops \subseteq Harmless
    PROVE  SSpec => []OneFlipPerOutage
<1>1. SInit => OutageInv
  <2> SUFFICES ASSUME SInit PROVE OutageInv
    OBVIOUS
  <2>1. HarmlessRequests
    BY DEF SInit, Init, HarmlessRequests, Idle, ReqSteps
  <2>2. ASSUME NEW c \in table PROVE Balanced(c)
    <3>1. /\ FlipsOf(c, "up") = {} /\ FlipsOf(c, "down") = {} /\ Saving(c) = {}
      BY DEF SInit, Init, FlipsOf, Saving
    <3>2. PICK cfg \in Configs, m \in BOOLEAN : row[c] = NewRow(cfg, m)
      BY DEF SInit, Init
    <3>3. WasDown(c) = 0
      BY <3>2 DEF WasDown, NewRow
    <3>4. QED BY <3>1, <3>3, FS_EmptySet DEF Balanced
  <2>3. QED BY <2>1, <2>2 DEF OutageInv
<1>2. SInv /\ DeliveryInv /\ OutageInv /\ [SNext]_vars => OutageInv'
  <2> SUFFICES ASSUME SInv, DeliveryInv, OutageInv, [SNext]_vars PROVE OutageInv'
    OBVIOUS
  <2>1. ASSUME NEW s \in Senders, SenderStep(s) PROVE OutageInv'
    BY <2>1, SenderOutage
  <2>2. ASSUME UNCHANGED checkVars, UNCHANGED senderVars PROVE OutageInv'
    <3>1. UNCHANGED <<table, flips, req, crashes, row, pc, copy>>
      BY <2>2 DEF checkVars, senderVars
    <3>2. HarmlessRequests'
      BY <3>1 DEF OutageInv, HarmlessRequests
    <3>3. \A c \in table : Saving(c)' = Saving(c)
             /\ FlipsOf(c, "up")' = FlipsOf(c, "up")
             /\ FlipsOf(c, "down")' = FlipsOf(c, "down")
      BY <3>1 DEF FlipsOf, Saving
    <3>4. QED BY <3>1, <3>2, <3>3, BalancedKept DEF OutageInv
  <2>3. ASSUME Tick, UNCHANGED senderVars PROVE OutageInv'
    <3>1. UNCHANGED <<table, flips, req, crashes, row, pc, copy>>
      BY <2>3 DEF Tick, senderVars
    <3>2. HarmlessRequests'
      BY <3>1 DEF OutageInv, HarmlessRequests
    <3>3. \A c \in table : Saving(c)' = Saving(c)
             /\ FlipsOf(c, "up")' = FlipsOf(c, "up")
             /\ FlipsOf(c, "down")' = FlipsOf(c, "down")
      BY <3>1 DEF FlipsOf, Saving
    <3>4. QED BY <3>1, <3>2, <3>3, BalancedKept DEF OutageInv
  <2>4. CASE CheckStep /\ UNCHANGED senderVars
    BY <2>3, <2>4, PingOutage, RequestOutage DEF CheckStep
  <2>5. QED BY <2>1, <2>2, <2>4 DEF SNext, vars
<1>3. OutageInv => OneFlipPerOutage
  BY DEF OutageInv, Balanced, WasDown, OneFlipPerOutage
<1>4. QED
  BY <1>1, <1>2, <1>3, SInvHolds, DeliveryInvInit, DeliveryInvNext, PTL DEF SSpec

-----------------------------------------------------------------------------
(* What timeout flips say.                                                 *)

\* Operations that leave schedules, pings and alert_after correct.
Gentle == {"pause", "resume", "filter", "remove"}

GentleRequests ==
    \A q \in Requests : req[q].step \in ReqSteps =>
        /\ req[q].op \in Gentle
        /\ req[q].step = "save" => req[q].op # "remove"
        /\ req[q].step \notin {"decide", "saveDown", "clearPings", "clearFlips"}

\* What ends the run that p started.
Ends(e, p) ==
    /\ e.owner = p.owner /\ e.n > p.n
    /\ e.kind \in {"start", "fail"} \/ (e.kind = "success" /\ e.rid \in {None, p.rid})

\* The row knows of the run that has not ended, and of the last signal.
RunKnown(c) ==
    row[c].lastStart # None =>
        \E p \in pings :
            /\ p.owner = c /\ p.kind = "start"
            /\ p.created = row[c].lastStart /\ p.rid = row[c].lastStartRid
            /\ \A e \in pings : ~Ends(e, p)

SignalKnown(c) ==
    row[c].status = "up" =>
        \A p \in pings : p.owner = c /\ p.kind \in {"success", "fail"} =>
            p.created <= row[c].lastPing

PingsCounted == \A p \in pings : p.n <= nPings[p.owner] /\ p.created <= now

TrueOf(c, t) == Silent(c, t) \/ Overrun(c, t)

\* The deadline of a copy had passed when the copy was read, so whatever comes
\* later is not about it.
CopyTimely(s) ==
    /\ pc[s] # "postpone"
    /\ pc[s] \in {"picked", "markDown", "saveFlip"} =>
          \E t \in Nat : /\ t = GoingDownAfter(copy[s].row) /\ t < now
                         /\ copy[s].id \in table => TrueOf(copy[s].id, t)

FlipsTimely ==
    \A f \in flips : f.reason = "timeout" =>
        f.owner \in table /\ f.created < now /\ TrueOf(f.owner, f.created)

TimeoutInv ==
    /\ GentleRequests /\ outdated = {} /\ PingsCounted
    /\ \A c \in table : RunKnown(c) /\ SignalKnown(c)
    /\ \A s \in Senders : CopyTimely(s)
    /\ FlipsTimely


\* What is true of a time stays true while the pings that come are later.
PastStays ==
    /\ now \in Nat /\ now' \in Nat /\ now <= now'
    /\ \A c \in table' :
          /\ c \in table /\ row'[c].cfg = row[c].cfg
          /\ \A p \in pings : p.owner = c => p \in pings'
          /\ \A p \in pings' : p.owner = c =>
                p \in pings \/ (p.created \in Nat /\ p.created >= now)

LEMMA TrueStays ==
    ASSUME PastStays, NEW c \in table', NEW t \in Nat, t < now, TrueOf(c, t)
    PROVE  TrueOf(c, t)'
<1>1. /\ now \in Nat /\ row'[c].cfg = row[c].cfg
      /\ \A p \in pings : p.owner = c => p \in pings'
      /\ \A p \in pings' : p.owner = c =>
            p \in pings \/ (p.created \in Nat /\ p.created > t)
  BY DEF PastStays
<1>2. CASE Silent(c, t)
  BY <1>1, <1>2 DEF Silent, TrueOf
<1>3. CASE Overrun(c, t)
  <2>1. PICK p \in pings :
          /\ p.owner = c /\ p.kind = "start" /\ p.created + row[c].cfg.grace = t
          /\ ~ \E e \in pings : /\ e.owner = c /\ e.n > p.n /\ e.created <= t
                                /\ \/ e.kind \in {"start", "fail"}
                                   \/ e.kind = "success" /\ e.rid \in {None, p.rid}
    BY <1>3 DEF Overrun
  <2>2. p \in pings' /\ p.created + row'[c].cfg.grace = t
    BY <1>1, <2>1
  <2>3. ASSUME NEW e \in pings', e.owner = c, e.created <= t PROVE e \in pings
    BY <1>1, <2>3
  <2>4. ~ \E e \in pings' : /\ e.owner = c /\ e.n > p.n /\ e.created <= t
                            /\ \/ e.kind \in {"start", "fail"}
                               \/ e.kind = "success" /\ e.rid \in {None, p.rid}
    BY <2>1, <2>3
  <2>5. Overrun(c, t)'
    BY <2>1, <2>2, <2>4 DEF Overrun
  <2>6. QED BY <2>5 DEF TrueOf
<1>4. QED BY <1>2, <1>3 DEF TrueOf

LEMMA TimelyStays ==
    ASSUME PastStays, NEW s \in Senders, CopyTimely(s), copy'[s] = copy[s],
           pc'[s] = pc[s] \/ pc'[s] \notin {"picked", "postpone", "markDown", "saveFlip"}
    PROVE  CopyTimely(s)'
<1>1. CASE pc'[s] \notin {"picked", "postpone", "markDown", "saveFlip"}
  BY <1>1 DEF CopyTimely
<1>2. CASE pc'[s] = pc[s] /\ pc[s] \in {"picked", "markDown", "saveFlip"}
  <2>1. PICK t \in Nat : /\ t = GoingDownAfter(copy[s].row) /\ t < now
                         /\ copy[s].id \in table => TrueOf(copy[s].id, t)
    BY <1>2 DEF CopyTimely
  <2>2. PICK c : c = copy[s].id
    OBVIOUS
  <2>3. t < now'
    BY <2>1 DEF PastStays
  <2>4. GoingDownAfter(copy[s].row)' = GoingDownAfter(copy[s].row)
    BY DEF GoingDownAfter, GetGraceStart, NextExpected
  <2>5. c \in table' => TrueOf(c, t)'
    BY <2>1, <2>2, TrueStays DEF PastStays
  <2>6. QED
    BY <1>2, <2>1, <2>2, <2>3, <2>4, <2>5 DEF CopyTimely
<1>3. QED BY <1>1, <1>2 DEF CopyTimely

LEMMA FlipsStay ==
    ASSUME SInv, PastStays, FlipsTimely,
           \A f \in flips' : f.reason = "timeout" =>
              /\ f.owner \in table'
              /\ \E g \in flips : /\ g.reason = "timeout" /\ g.owner = f.owner
                                  /\ g.created = f.created
    PROVE  FlipsTimely'
<1> SUFFICES ASSUME NEW f \in flips', f.reason = "timeout"
             PROVE  f.owner \in table' /\ f.created < now' /\ TrueOf(f.owner, f.created)'
  BY DEF FlipsTimely
<1>1. PICK g \in flips : /\ g.reason = "timeout" /\ g.owner = f.owner
                         /\ g.created = f.created
  OBVIOUS
<1>2. f.created \in Nat /\ f.created < now /\ TrueOf(f.owner, f.created)
  BY <1>1 DEF FlipsTimely, SInv, TypeInv, Flip
<1>3. QED
  BY <1>2, TrueStays DEF PastStays

\* A write that does not start a run, or bring a check up.
LEMMA KnownStays ==
    ASSUME NEW c, RunKnown(c), SignalKnown(c),
           \A p : p.owner = c => (p \in pings' <=> p \in pings),
           \/ row'[c].lastStart = None
           \/ row'[c].lastStart = row[c].lastStart /\ row'[c].lastStartRid = row[c].lastStartRid,
           row'[c].status = "up" =>
              row[c].status = "up" /\ row'[c].lastPing = row[c].lastPing
    PROVE  RunKnown(c)' /\ SignalKnown(c)'
<1>1. SignalKnown(c)'
  BY DEF SignalKnown
<1>2. ASSUME row'[c].lastStart # None
      PROVE  \E p \in pings' :
               /\ p.owner = c /\ p.kind = "start"
               /\ p.created = row'[c].lastStart /\ p.rid = row'[c].lastStartRid
               /\ \A e \in pings' : ~Ends(e, p)
  <2>1. PICK p \in pings : /\ p.owner = c /\ p.kind = "start"
                           /\ p.created = row[c].lastStart /\ p.rid = row[c].lastStartRid
                           /\ \A e \in pings : ~Ends(e, p)
    BY <1>2 DEF RunKnown
  <2>2. \A e \in pings' : ~Ends(e, p)
    BY <2>1 DEF Ends
  <2>3. QED BY <1>2, <2>1, <2>2
<1>3. RunKnown(c)'
  BY <1>2 DEF RunKnown, Ends
<1>4. QED BY <1>1, <1>3

\* The deadline of a row is true once it has passed.
LEMMA DeadlineTrue ==
    ASSUME TypeInv, \A cfg \in Configs : cfg.kind = "simple",
           NEW c \in table, RunKnown(c), SignalKnown(c),
           NEW t \in Nat, t = GoingDownAfter(row[c])
    PROVE  TrueOf(c, t)
<1>1. /\ c \in Checks /\ row[c] \in GoodRow /\ row[c].cfg \in Configs
      /\ row[c].lastPing \in Maybe(Instants) /\ row[c].lastStart \in Maybe(Instants)
  BY DEF TypeInv, GoodRow, Row
<1>2. /\ row[c].cfg.kind = "simple" /\ row[c].cfg.timeout \in Nat
      /\ row[c].cfg.grace \in Nat
  BY <1>1, ConfigAssumption
<1>3. row[c].status = "up" => row[c].lastPing \in Nat
  BY <1>1, InstantAssumption DEF GoodRow, Maybe
<1>4. \/ row[c].lastStart # None /\ t = row[c].lastStart + row[c].cfg.grace
      \/ row[c].status = "up"
           /\ t = row[c].lastPing + row[c].cfg.timeout + row[c].cfg.grace
  <2>1. GetGraceStart(row[c], TRUE) # None
        /\ t = GetGraceStart(row[c], TRUE) + row[c].cfg.grace
    BY NoneAssumption DEF GoingDownAfter
  <2>2. \/ row[c].lastStart # None /\ GetGraceStart(row[c], TRUE) = row[c].lastStart
        \/ GetGraceStart(row[c], TRUE) = NextExpected(row[c])
    BY <2>1 DEF GetGraceStart, Earlier
  <2>3. NextExpected(row[c]) # None =>
          /\ row[c].status = "up"
          /\ NextExpected(row[c]) = row[c].lastPing + row[c].cfg.timeout
    BY <1>2 DEF NextExpected
  <2>4. QED BY <2>1, <2>2, <2>3
<1>5. CASE row[c].lastStart # None /\ t = row[c].lastStart + row[c].cfg.grace
  <2>1. PICK p \in pings : /\ p.owner = c /\ p.kind = "start"
                           /\ p.created = row[c].lastStart
                           /\ \A e \in pings : ~Ends(e, p)
    BY <1>5 DEF RunKnown
  <2>2. Overrun(c, t)
    BY <1>5, <2>1 DEF Overrun, Ends
  <2>3. QED BY <2>2 DEF TrueOf
<1>6. CASE /\ row[c].status = "up"
           /\ t = row[c].lastPing + row[c].cfg.timeout + row[c].cfg.grace
  <2>1. ASSUME NEW p \in pings, p.owner = c, p.kind \in {"success", "fail"}
        PROVE  p.created + row[c].cfg.timeout + row[c].cfg.grace <= t
    <3>1. p.created \in Nat /\ p.created <= row[c].lastPing
      BY <1>6, <2>1, InstantAssumption DEF SignalKnown, TypeInv, Ping
    <3>2. QED BY <1>2, <1>3, <1>6, <3>1
  <2>2. Silent(c, t)
    BY <2>1 DEF Silent
  <2>3. QED BY <2>2 DEF TrueOf
<1>7. QED BY <1>4, <1>5, <1>6


\* What a ping writes of the columns that deadlines are computed from.
LEMMA PingWrites ==
    ASSUME NEW r \in Row, NEW action, NEW rid, NEW t, NEW after,
           after = Pinged(r, action, rid, t)
    PROVE  /\ after.cfg = r.cfg
           /\ action = "start" =>
                /\ after.lastStart = t /\ after.lastStartRid = rid
                /\ after.lastPing = r.lastPing /\ after.status = r.status
           /\ action \in {"success", "fail"} =>
                /\ after.lastPing = t /\ after.lastStartRid = r.lastStartRid
                /\ after.lastStart = IF EndsRun(r, action, rid) THEN None ELSE r.lastStart
           /\ action \notin {"start", "success", "fail"} =>
                /\ after.lastStart = r.lastStart /\ after.lastStartRid = r.lastStartRid
                /\ after.lastPing = r.lastPing /\ after.status = r.status
<1>1. CASE action = "start"
  BY <1>1 DEF Pinged, Row
<1>2. CASE action \in {"success", "fail"}
  BY <1>2 DEF Pinged, Row
<1>3. CASE action \notin {"start", "success", "fail"}
  BY <1>3 DEF Pinged, Row
<1>4. QED BY <1>1, <1>2, <1>3

LEMMA PingTimely ==
    ASSUME SInv, TimeoutInv, UNCHANGED senderVars, NEW c \in Checks,
           NEW action \in PingActions, NEW rid \in Maybe(Rids), ReceivePing(c, action, rid)
    PROVE  TimeoutInv'
<1>1. PICK done : done = EffectiveAction(row[c], action)
  OBVIOUS
<1>2. PICK after : after = Pinged(row[c], done, rid, now)
  OBVIOUS
<1>3. PICK p0 : p0 = [owner |-> c, n |-> nPings[c] + 1, created |-> now, kind |-> done,
                      rid |-> rid]
  OBVIOUS
<1>4. /\ c \in table /\ row' = [row EXCEPT ![c] = after]
      /\ nPings' = [nPings EXCEPT ![c] = @ + 1] /\ pings' = pings \cup {p0}
      /\ outdated' = outdated \ {c} /\ UNCHANGED <<now, table, req>>
      /\ \A f \in flips' : f \in flips \/ f.reason \in {"", "fail"}
  <2>1. PICK why \in {"", "fail"} : why = IF done = "fail" THEN "fail" ELSE ""
    OBVIOUS
  <2>2. /\ c \in table /\ row' = [row EXCEPT ![c] = after]
        /\ nPings' = [nPings EXCEPT ![c] = @ + 1] /\ pings' = pings \cup {p0}
        /\ outdated' = outdated \ {c} /\ UNCHANGED <<now, table, req>>
        /\ \/ AddFlip(c, now, row[c].status, after.status, why, "no")
           \/ flips' = flips
    BY <1>1, <1>2, <1>3, <2>1 DEF ReceivePing
  <2>3. CASE AddFlip(c, now, row[c].status, after.status, why, "no")
    <3>1. PICK f : f.reason = why /\ flips' = flips \cup {f}
      BY <2>3 DEF AddFlip
    <3>2. QED BY <2>1, <2>2, <3>1
  <2>4. QED BY <2>2, <2>3
<1>5. /\ row \in [Checks -> GoodRow] /\ row[c] \in Row /\ now \in Nat /\ table \subseteq Checks
      /\ nPings \in [Checks -> Nat] /\ pings \subseteq Ping
  BY InstantAssumption DEF SInv, TypeInv, GoodRow
<1>6. /\ after.cfg = row[c].cfg
      /\ done = "start" =>
           /\ after.lastStart = now /\ after.lastStartRid = rid
           /\ after.lastPing = row[c].lastPing /\ after.status = row[c].status
      /\ done \in {"success", "fail"} =>
           /\ after.lastPing = now /\ after.lastStartRid = row[c].lastStartRid
           /\ after.lastStart = IF EndsRun(row[c], done, rid) THEN None ELSE row[c].lastStart
      /\ done \notin {"start", "success", "fail"} =>
           /\ after.lastStart = row[c].lastStart /\ after.lastStartRid = row[c].lastStartRid
           /\ after.lastPing = row[c].lastPing /\ after.status = row[c].status
  BY <1>2, <1>5, PingWrites
<1>7. row'[c] = after /\ \A d \in Checks \ {c} : row'[d] = row[d]
  BY <1>4, <1>5
<1>8. /\ p0.owner = c /\ p0.n = nPings[c] + 1 /\ p0.created = now /\ p0.kind = done
      /\ p0.rid = rid
  BY <1>3
<1>9. PastStays
  <2>1. \A d \in table : row'[d].cfg = row[d].cfg
    BY <1>5, <1>6, <1>7
  <2>2. \A p \in pings' : p \in pings \/ p.created = now
    BY <1>4, <1>8
  <2>3. \A p \in pings : p \in pings'
    BY <1>4
  <2>4. table' = table /\ now' = now /\ now \in Nat
    BY <1>4, <1>5
  <2>5. QED BY <2>1, <2>2, <2>3, <2>4 DEF PastStays
<1>10. PingsCounted'
  <2>1. ASSUME NEW p \in pings'
        PROVE  p.n <= nPings'[p.owner] /\ p.created <= now
    <3>1. CASE p = p0
      <4>1. nPings[c] \in Nat /\ nPings'[c] = nPings[c] + 1 /\ now \in Nat
        BY <1>4, <1>5
      <4>2. p.owner = c /\ p.n = nPings[c] + 1 /\ p.created = now
        BY <1>8, <3>1
      <4>3. QED BY <4>1, <4>2
    <3>2. CASE p \in pings
      <4>1. p.owner \in Checks /\ p.n \in Nat /\ p.n <= nPings[p.owner] /\ p.created <= now
        BY <1>5, <3>2 DEF TimeoutInv, PingsCounted, Ping
      <4>2. nPings'[p.owner] \in {nPings[p.owner], nPings[p.owner] + 1}
        BY <1>4, <1>5, <4>1
      <4>3. QED BY <1>5, <4>1, <4>2
    <3>3. QED BY <1>4, <2>1, <3>1, <3>2
  <2>2. QED BY <1>4, <2>1 DEF PingsCounted
<1>11. ASSUME NEW d \in table, d # c PROVE RunKnown(d)' /\ SignalKnown(d)'
  BY <1>4, <1>5, <1>7, <1>8, <1>11, KnownStays DEF TimeoutInv
<1>12. SignalKnown(c)'
  <2>1. CASE done \in {"success", "fail"}
    BY <1>4, <1>6, <1>7, <1>10, <2>1 DEF SignalKnown, PingsCounted
  <2>2. CASE done \notin {"success", "fail"}
    BY <1>4, <1>6, <1>7, <1>8, <2>2 DEF TimeoutInv, SignalKnown
  <2>3. QED BY <2>1, <2>2
<1>13. RunKnown(c)'
  <2>1. CASE done = "start"
    <3>1. \A e \in pings' : ~Ends(e, p0)
      <4>1. nPings[c] \in Nat /\ p0.n = nPings[c] + 1 /\ p0.owner = c
        BY <1>5, <1>8
      <4>2. \A e \in pings : e.owner = c => e.n \in Nat /\ e.n <= nPings[c]
        BY <1>5 DEF TimeoutInv, PingsCounted, Ping
      <4>3. \A e \in pings : ~Ends(e, p0)
        BY <4>1, <4>2 DEF Ends
      <4>4. ~Ends(p0, p0)
        BY <4>1 DEF Ends
      <4>5. QED BY <1>4, <4>3, <4>4
    <3>2. \E p \in pings' : /\ p.owner = c /\ p.kind = "start"
                            /\ p.created = row'[c].lastStart /\ p.rid = row'[c].lastStartRid
                            /\ \A e \in pings' : ~Ends(e, p)
      BY <1>4, <1>6, <1>7, <1>8, <2>1, <3>1
    <3>3. QED BY <3>2 DEF RunKnown, Ends
  <2>2. CASE done # "start" /\ after.lastStart # None
    <3>1. /\ after.lastStart = row[c].lastStart /\ after.lastStartRid = row[c].lastStartRid
          /\ done \in {"success", "fail"} => ~EndsRun(row[c], done, rid)
      BY <1>6, <2>2
    <3>2. PICK p \in pings : /\ p.owner = c /\ p.kind = "start"
                             /\ p.created = row[c].lastStart /\ p.rid = row[c].lastStartRid
                             /\ \A e \in pings : ~Ends(e, p)
      BY <1>4, <2>2, <3>1 DEF TimeoutInv, RunKnown
    <3>3. ~Ends(p0, p)
      BY <1>8, <2>2, <3>1, <3>2 DEF Ends, EndsRun
    <3>4. p \in pings' /\ \A e \in pings' : ~Ends(e, p)
      BY <1>4, <3>2, <3>3
    <3>5. \E w \in pings' : /\ w.owner = c /\ w.kind = "start"
                            /\ w.created = row'[c].lastStart /\ w.rid = row'[c].lastStartRid
                            /\ \A e \in pings' : ~Ends(e, w)
      BY <1>7, <3>1, <3>2, <3>4
    <3>6. QED BY <3>5 DEF RunKnown, Ends
  <2>3. CASE after.lastStart = None
    BY <1>7, <2>3 DEF RunKnown
  <2>4. QED BY <2>1, <2>2, <2>3
<1>14. FlipsTimely'
  <2>1. \A f \in flips' : f.reason = "timeout" => f \in flips /\ f.owner \in table'
    BY <1>4 DEF TimeoutInv, FlipsTimely
  <2>2. QED BY <1>9, <2>1, FlipsStay DEF TimeoutInv
<1>15. \A s \in Senders : CopyTimely(s)'
  BY <1>9, TimelyStays DEF TimeoutInv, senderVars
<1>16. GentleRequests' /\ outdated' = {}
  BY <1>4 DEF TimeoutInv, GentleRequests
<1>17. QED
  BY <1>4, <1>10, <1>11, <1>12, <1>13, <1>14, <1>15, <1>16 DEF TimeoutInv

\* Requests that pause, resume, filter and remove.
LEMMA RequestTimely ==
    ASSUME Ops \subseteq Gentle, SInv, TimeoutInv, UNCHANGED senderVars,
           NEW q \in Requests, ReadCheck(q) \/ Abort(q) \/ RequestStep(q)
    PROVE  TimeoutInv'
<1>0. /\ row \in [Checks -> GoodRow] /\ table \subseteq Checks /\ now \in Nat
      /\ req \in [Requests -> GoodRequest \cup {Idle, Done}]
      /\ Idle.step \notin ReqSteps /\ Done.step \notin ReqSteps
      /\ \A c \in Checks : row[c] \in Row
  BY InstantAssumption DEF SInv, TypeInv, Idle, Done, ReqSteps, GoodRow
<1>1. \/ ReadCheck(q) \/ Abort(q) \/ CreateFlip(q) \/ Save(q) \/ Rename(q)
      \/ Collect(q) \/ Delete(q)
  <2>1. ~(Decide(q) \/ SaveDown(q) \/ ClearPings(q) \/ ClearFlips(q))
    BY DEF TimeoutInv, GentleRequests, ReqSteps, Decide, SaveDown, ClearPings, ClearFlips
  <2>2. QED BY <2>1 DEF RequestStep
<1>2. GentleRequests'
  <2>1. CASE ReadCheck(q)
    <3>1. PICK op \in Ops, c \in table : \E input \in Inputs(op) :
            req' = [req EXCEPT ![q] =
                      IF Refused(op, row[c]) THEN Done
                      ELSE [step |-> FirstStep(op), op |-> op, c |-> c,
                            row |-> row[c], input |-> input, mark |-> <<0, 0>>]]
      BY <2>1 DEF ReadCheck
    <3>2. /\ op \in Gentle /\ FirstStep(op) \in {"flip", "rename", "save"}
          /\ FirstStep(op) = "save" => op # "remove"
      BY DEF Gentle, FirstStep
    <3>3. \A p \in Requests : p # q => req'[p] = req[p]
      BY <1>0, <3>1
    <3>4. \/ req'[q].step \notin ReqSteps
          \/ req'[q].op = op /\ req'[q].step = FirstStep(op)
      BY <1>0, <3>1
    <3>5. QED BY <3>2, <3>3, <3>4 DEF TimeoutInv, GentleRequests
  <2>2. CASE \/ Abort(q) \/ CreateFlip(q) \/ Save(q) \/ Rename(q) \/ Collect(q)
             \/ Delete(q)
    <3>1. req[q].step \in ReqSteps /\ req[q] \in GoodRequest
      BY <1>0, <2>2 DEF Abort, CreateFlip, Save, Rename, Collect, Delete, ReqSteps, Idle, Done
    <3>2. req[q].op \in Gentle
      BY <3>1 DEF TimeoutInv, GentleRequests
    <3>3. \A p \in Requests : p # q => req'[p] = req[p]
      BY <1>0, <2>2 DEF Abort, CreateFlip, Save, Rename, Collect, Delete, Finish, Goto
    <3>4. \/ req'[q].step \notin ReqSteps
          \/ /\ req'[q].op = req[q].op
             /\ req'[q].step \in {"save", "collect", "delete", "collectAgain", "deleteAgain"}
             /\ req'[q].step = "save" => req[q].op # "remove"
      <4>1. CASE Abort(q)
        BY <1>0, <4>1 DEF Abort, Finish
      <4>2. CASE Save(q)
        BY <1>0, <3>2, <4>2 DEF Save, Finish, Gentle
      <4>3. CASE Rename(q)
        BY <1>0, <3>1, <4>3 DEF Rename, Goto, GoodRequest, Request
      <4>4. CASE Collect(q)
        BY <1>0, <3>1, <4>4 DEF Collect, GoodRequest, Request
      <4>5. CASE Delete(q)
        BY <1>0, <3>1, <4>5 DEF Delete, Goto, Finish, GoodRequest, Request
      <4>6. CASE CreateFlip(q)
        <5>1. req[q].op \in {"pause", "resume"}
          BY <3>1, <3>2, <4>6 DEF CreateFlip, GoodRequest, Gentle
        <5>2. req' = [req EXCEPT ![q].step = "save"] \/ req' = [req EXCEPT ![q] = Done]
          BY <4>6, <5>1 DEF CreateFlip, Goto, Finish
        <5>3. req[q] \in Request
          BY <3>1 DEF GoodRequest
        <5>4. QED BY <1>0, <5>1, <5>2, <5>3 DEF Request
      <4>7. QED BY <2>2, <4>1, <4>2, <4>3, <4>4, <4>5, <4>6
    <3>5. QED BY <3>2, <3>3, <3>4 DEF TimeoutInv, GentleRequests
  <2>3. QED BY <1>1, <2>1, <2>2
<1>3. /\ now' = now /\ nPings' = nPings /\ pings' \subseteq pings /\ table' \subseteq table
      /\ \A p \in pings : p.owner \in table' => p \in pings'
      /\ \A f \in flips' : f.reason = "timeout" => f \in flips /\ f.owner \in table'
  <2>1. CASE ReadCheck(q) \/ Abort(q) \/ Save(q) \/ Rename(q) \/ Collect(q)
    BY <2>1 DEF ReadCheck, Abort, Save, Rename, Collect, TimeoutInv, FlipsTimely
  <2>2. CASE CreateFlip(q)
    <3>1. /\ UNCHANGED <<now, nPings, pings, table>>
          /\ \/ AddFlip(req[q].c, now, req[q].row.status, TargetStatus(req[q].op), "",
                        "created")
             \/ flips' = flips
      BY <2>2 DEF CreateFlip
    <3>2. \A f \in flips' : f \in flips \/ f.reason = ""
      <4>1. CASE AddFlip(req[q].c, now, req[q].row.status, TargetStatus(req[q].op), "",
                         "created")
        <5>1. PICK f : f.reason = "" /\ flips' = flips \cup {f}
          BY <4>1 DEF AddFlip
        <5>2. QED BY <5>1
      <4>2. QED BY <3>1, <4>1
    <3>3. QED BY <3>1, <3>2 DEF TimeoutInv, FlipsTimely
  <2>3. CASE Delete(q)
    BY <2>3 DEF Delete, TimeoutInv, FlipsTimely
  <2>4. QED BY <1>1, <2>1, <2>2, <2>3
<1>4. ASSUME NEW c \in table
      PROVE  /\ row'[c].cfg = row[c].cfg
             /\ \/ row'[c].lastStart = None
                \/ /\ row'[c].lastStart = row[c].lastStart
                   /\ row'[c].lastStartRid = row[c].lastStartRid
             /\ row'[c].status = "up" =>
                  row[c].status = "up" /\ row'[c].lastPing = row[c].lastPing
  <2>1. CASE Save(q)
    <3>1. req[q].op \in {"pause", "resume", "filter"}
      BY <2>1 DEF Save, TimeoutInv, GentleRequests, Gentle, ReqSteps
    <3>2. PICK w : w = Written(q, row[c])
      OBVIOUS
    <3>3. /\ w.cfg = row[c].cfg
          /\ w.lastStart \in {None, row[c].lastStart} /\ w.lastStartRid = row[c].lastStartRid
          /\ w.status = "up" => row[c].status = "up" /\ w.lastPing = row[c].lastPing
      BY <1>0, <3>1, <3>2, <1>4 DEF Written, Row
    <3>4. row'[c] = row[c] \/ row'[c] = w
      BY <1>0, <1>4, <2>1, <3>2 DEF Save
    <3>5. QED BY <3>3, <3>4
  <2>2. CASE Rename(q)
    <3>1. row[c] \in Row
      BY <1>0, <1>4
    <3>2. row'[c] = row[c] \/ row'[c] = [row[c] EXCEPT !.renamed = TRUE]
      BY <1>0, <1>4, <2>2 DEF Rename
    <3>3. QED BY <3>1, <3>2 DEF Row
  <2>3. CASE ReadCheck(q) \/ Abort(q) \/ CreateFlip(q) \/ Collect(q) \/ Delete(q)
    BY <2>3 DEF ReadCheck, Abort, CreateFlip, Collect, Delete
  <2>4. QED BY <1>1, <2>1, <2>2, <2>3
<1>5. PastStays
  BY <1>0, <1>3, <1>4 DEF PastStays
<1>6. outdated' = {}
  <2>1. CASE Save(q)
    <3>1. req[q].op \in {"pause", "resume", "filter"}
      BY <2>1 DEF Save, TimeoutInv, GentleRequests, Gentle, ReqSteps
    <3>2. QED BY <2>1, <3>1 DEF Save, TimeoutInv
  <2>2. CASE ~Save(q)
    BY <1>1, <2>2 DEF ReadCheck, Abort, CreateFlip, Rename, Collect, Delete, TimeoutInv
  <2>3. QED BY <2>1, <2>2
<1>7. PingsCounted'
  BY <1>3 DEF TimeoutInv, PingsCounted
<1>8. \A c \in table' : RunKnown(c)' /\ SignalKnown(c)'
  BY <1>3, <1>4, KnownStays DEF TimeoutInv
<1>9. \A s \in Senders : CopyTimely(s)'
  BY <1>5, TimelyStays DEF TimeoutInv, senderVars
<1>10. FlipsTimely'
  BY <1>3, <1>5, FlipsStay DEF TimeoutInv
<1>11. QED
  BY <1>2, <1>6, <1>7, <1>8, <1>9, <1>10 DEF TimeoutInv


\* handle_going_down picks a row whose deadline has passed, and says so.
LEMMA PickTimely ==
    ASSUME SInv, TimeoutInv, \A cfg \in Configs : cfg.kind = "simple",
           NEW s \in Senders, PickOverdue(s)
    PROVE  CopyTimely(s)'
<1>1. PICK c \in Overdue : copy' = [copy EXCEPT ![s] = [id |-> c, row |-> row[c]]]
  BY DEF PickOverdue
<1>2. /\ copy \in [Senders -> Copy \cup {Nothing}] /\ pc \in [Senders -> Steps]
      /\ TypeInv /\ AlertAfterExact /\ table \subseteq Checks /\ row \in [Checks -> GoodRow]
  BY DEF SInv, SenderTypes, SenderVars, TypeInv
<1>3. c \in table /\ row[c].alertAfter # None /\ row[c].alertAfter < now
  BY <1>1 DEF Overdue
<1>4. PICK t : t = GoingDownAfter(row[c])
  OBVIOUS
<1>5. row[c].alertAfter = t
  BY <1>2, <1>3, <1>4 DEF AlertAfterExact, TimeoutInv
<1>6. t \in Nat /\ t < now
  BY <1>2, <1>3, <1>5 DEF GoodRow, Row, Maybe
<1>7. TrueOf(c, t)
  BY <1>2, <1>3, <1>4, <1>6, DeadlineTrue DEF TimeoutInv
<1>8. /\ copy'[s].id = c /\ copy'[s].row = row[c] /\ pc'[s] = "picked"
      /\ UNCHANGED <<now, table, row, pings>>
  BY <1>1, <1>2 DEF PickOverdue, Goes, checkVars
<1>9. GoingDownAfter(copy[s].row)' = t
  BY <1>4, <1>8 DEF GoingDownAfter, GetGraceStart, NextExpected
<1>10. TrueOf(c, t)'
  BY <1>7, <1>8 DEF TrueOf, Silent, Overrun
<1>11. PICK d : d = copy'[s].id
  OBVIOUS
<1>12. QED BY <1>6, <1>8, <1>9, <1>10 DEF CopyTimely

\* Then get_status finds it down, whatever the clock says by now.
LEMMA CalculateTimely ==
    ASSUME SInv, TimeoutInv, NEW s \in Senders, Calculate(s)
    PROVE  pc'[s] = "markDown"
<1>1. PICK r : r = copy[s].row
  OBVIOUS
<1>2. /\ pc \in [Senders -> Steps] /\ pc[s] = "picked" /\ now \in Nat
      /\ r \in GoodRow /\ r.status # "down"
  BY <1>1, InstantAssumption
  DEF SInv, SenderTypes, SenderVars, CopyKnown, Copy, Calculate, TypeInv
<1>3. PICK t \in Nat : t = GoingDownAfter(r) /\ t < now
  BY <1>1, <1>2 DEF TimeoutInv, CopyTimely
<1>4. GetStatus(r, now) = "down"
  BY <1>2, <1>3, StatusAgrees, NoneAssumption
<1>5. QED BY <1>1, <1>2, <1>4 DEF Calculate, Goes

\* The flip is dated with the deadline of the copy.
LEMMA SaveFlipTimely ==
    ASSUME SInv, TimeoutInv, NEW s \in Senders, SaveFlip(s)
    PROVE  FlipsTimely'
<1>1. UNCHANGED <<now, table, row, pings>>
  BY DEF SaveFlip
<1>2. PastStays
  BY <1>1, InstantAssumption DEF PastStays, SInv, TypeInv
<1>3. CASE copy[s].id \notin table
  BY <1>1, <1>2, <1>3, FlipsStay DEF SaveFlip, TimeoutInv, FlipsTimely
<1>4. CASE copy[s].id \in table
  <2>1. PICK c : c = copy[s].id
    OBVIOUS
  <2>2. PICK t \in Nat : t = GoingDownAfter(copy[s].row) /\ t < now /\ TrueOf(c, t)
    BY <1>4, <2>1 DEF SaveFlip, TimeoutInv, CopyTimely
  <2>3. PICK old : old = copy[s].row.status
    OBVIOUS
  <2>4. AddFlip(c, t, old, "down", "timeout", "no")
    BY <1>4, <2>1, <2>2, <2>3 DEF SaveFlip
  <2>5. \A f \in flips' : f \in flips \/ (f.owner = c /\ f.created = t)
    BY <2>4 DEF AddFlip
  <2>6. \A f \in flips' : f.reason = "timeout" =>
           f.owner \in table /\ f.created < now /\ TrueOf(f.owner, f.created)
    BY <1>4, <2>1, <2>2, <2>5 DEF TimeoutInv, FlipsTimely
  <2>7. \A d, u : TrueOf(d, u)' = TrueOf(d, u)
    BY <1>1 DEF TrueOf, Silent, Overrun
  <2>8. QED BY <1>1, <2>6, <2>7 DEF FlipsTimely
<1>5. QED BY <1>3, <1>4

LEMMA SenderTimely ==
    ASSUME SInv, TimeoutInv, \A cfg \in Configs : cfg.kind = "simple",
           NEW s \in Senders, SenderStep(s)
    PROVE  TimeoutInv'
<1>0. /\ SenderVars /\ row \in [Checks -> GoodRow] /\ table \subseteq Checks /\ now \in Nat
      /\ flips \subseteq Flip /\ \A t \in Senders : CopyTimely(t) /\ CopyKnown(t)
      /\ FetchedKnown(s)
  BY InstantAssumption DEF SInv, TypeInv, SenderTypes, TimeoutInv
<1>1. /\ UNCHANGED <<now, table, nPings, pings, req>>
      /\ ~Postpone(s) /\ ~CalculateThrows(s)
  <2>1. ~Postpone(s)
    BY <1>0 DEF Postpone, CopyTimely
  <2>2. ~CalculateThrows(s)
    <3>1. CalculateThrows(s) => copy[s].row.cfg \in Configs
      BY <1>0 DEF CalculateThrows, CopyKnown, Copy, GoodRow, Row
    <3>2. QED BY <3>1, SenderAssumption DEF CalculateThrows
  <2>3. UNCHANGED <<now, table, nPings, pings, req>>
    BY <2>1, <2>2 DEF SenderStep, MainLoop, Worker, PickOverdue, NoneOverdue, Calculate,
       MarkDown, SaveFlip, AcquireSeat, FetchFlip, ClaimFlip, Notify, OnNotifyDone, Wake,
       Exit, Restart, OnSignal, Crash, checkVars
  <2>4. QED BY <2>1, <2>2, <2>3
<1>2. /\ outdated' = {}
      /\ \A c \in table :
            /\ row'[c].cfg = row[c].cfg /\ row'[c].lastStart = row[c].lastStart
            /\ row'[c].lastStartRid = row[c].lastStartRid
            /\ row'[c].lastPing = row[c].lastPing
            /\ row'[c].status = "up" => row[c].status = "up"
  <2>1. CASE MarkDown(s)
    <3>1. outdated' \subseteq outdated
      BY <2>1 DEF MarkDown
    <3>2. \A c \in table : row[c] \in Row /\ c \in Checks
      BY <1>0 DEF GoodRow
    <3>3. PICK d : d = copy[s].id
      OBVIOUS
    <3>4. \/ row' = row
          \/ row' = [row EXCEPT ![d].alertAfter = None, ![d].status = "down"]
      BY <2>1, <3>3 DEF MarkDown
    <3>5. ASSUME NEW c \in table
          PROVE  \/ row'[c] = row[c]
                 \/ row'[c] = [row[c] EXCEPT !.alertAfter = None, !.status = "down"]
      BY <1>0, <3>2, <3>4
    <3>6. QED BY <3>1, <3>2, <3>5 DEF TimeoutInv, Row
  <2>2. CASE ~MarkDown(s)
    <3>1. UNCHANGED <<row, outdated>>
      BY <1>1, <2>2 DEF SenderStep, MainLoop, Worker, PickOverdue, NoneOverdue, Calculate,
         SaveFlip, AcquireSeat, FetchFlip, ClaimFlip, Notify, OnNotifyDone, Wake,
         Exit, Restart, OnSignal, Crash, checkVars
    <3>2. QED BY <3>1 DEF TimeoutInv
  <2>3. QED BY <2>1, <2>2
<1>3. PastStays
  BY <1>0, <1>1, <1>2 DEF PastStays
<1>4. \A c \in table' : RunKnown(c)' /\ SignalKnown(c)'
  BY <1>1, <1>2, KnownStays DEF TimeoutInv
<1>5. GentleRequests' /\ PingsCounted'
  BY <1>1 DEF TimeoutInv, GentleRequests, PingsCounted
<1>6. FlipsTimely'
  <2>1. CASE SaveFlip(s)
    BY <2>1, SaveFlipTimely
  <2>2. CASE ClaimFlip(s)
    <3>1. fetched[s] \in Flip
      BY <1>0, <2>2 DEF ClaimFlip, FetchedKnown
    <3>2. PICK g : g = [fetched[s] EXCEPT !.processed = "claimed"]
      OBVIOUS
    <3>3. g.reason = fetched[s].reason /\ g.owner = fetched[s].owner
          /\ g.created = fetched[s].created
      BY <3>1, <3>2 DEF Flip
    <3>4. \A f \in flips' : f \in flips \/ (f = g /\ fetched[s] \in flips)
      BY <2>2, <3>2 DEF ClaimFlip
    <3>5. QED BY <1>1, <1>3, <3>3, <3>4, FlipsStay DEF TimeoutInv, FlipsTimely
  <2>3. CASE ~SaveFlip(s) /\ ~ClaimFlip(s)
    <3>1. flips' = flips
      BY <1>1, <2>3 DEF SenderStep, MainLoop, Worker, PickOverdue, NoneOverdue, Calculate,
         MarkDown, AcquireSeat, FetchFlip, Notify, OnNotifyDone, Wake, Exit, Restart,
         OnSignal, Crash, checkVars
    <3>2. QED BY <1>1, <1>3, <3>1, FlipsStay DEF TimeoutInv, FlipsTimely
  <2>4. QED BY <2>1, <2>2, <2>3
<1>7. ASSUME NEW t \in Senders PROVE CopyTimely(t)'
  <2>1. CASE PickOverdue(s) /\ t = s
    BY <2>1, PickTimely
  <2>2. CASE /\ t = s /\ copy' = copy /\ pc[s] \in {"picked", "markDown"}
             /\ pc'[s] \in {"markDown", "saveFlip"}
    <3>1. PICK u \in Nat : /\ u = GoingDownAfter(copy[s].row) /\ u < now
                           /\ copy[s].id \in table => TrueOf(copy[s].id, u)
      BY <1>0, <2>2 DEF CopyTimely
    <3>2. GoingDownAfter(copy[s].row)' = GoingDownAfter(copy[s].row)
      BY <2>2 DEF GoingDownAfter, GetGraceStart, NextExpected
    <3>3. PICK c : c = copy[s].id
      OBVIOUS
    <3>4. c \in table' => TrueOf(c, u)'
      BY <1>1, <1>3, <3>1, <3>3, TrueStays
    <3>5. QED BY <1>1, <2>2, <3>1, <3>2, <3>3, <3>4 DEF CopyTimely
  <2>3. CASE \/ pc'[t] \notin {"picked", "postpone", "markDown", "saveFlip"}
             \/ pc'[t] = pc[t] /\ copy'[t] = copy[t]
    <3>1. CASE pc'[t] = pc[t] /\ copy'[t] = copy[t]
      BY <1>0, <1>3, <3>1, TimelyStays
    <3>2. CASE pc'[t] \notin {"picked", "postpone", "markDown", "saveFlip"}
      BY <3>2 DEF CopyTimely
    <3>3. QED BY <2>3, <3>1, <3>2
  <2>4. \/ PickOverdue(s) /\ t = s
        \/ /\ t = s /\ copy' = copy /\ pc[s] \in {"picked", "markDown"}
           /\ pc'[s] \in {"markDown", "saveFlip"}
        \/ pc'[t] \notin {"picked", "postpone", "markDown", "saveFlip"}
        \/ pc'[t] = pc[t] /\ copy'[t] = copy[t]
    <3>1. CASE PickOverdue(s)
      BY <1>0, <3>1 DEF PickOverdue, Goes, SenderVars
    <3>2. CASE Calculate(s)
      BY <1>0, <3>2, CalculateTimely DEF Calculate, Goes, SenderVars
    <3>3. CASE MarkDown(s)
      BY <1>0, <3>3 DEF MarkDown, Again, Goes, SenderVars
    <3>4. CASE SaveFlip(s)
      BY <1>0, <3>4 DEF SaveFlip, Again, Goes, SenderVars
    <3>5. CASE Notify(s) \/ OnNotifyDone(s) \/ OnSignal(s)
      BY <3>5 DEF Notify, OnNotifyDone, OnSignal
    <3>6. CASE NoneOverdue(s) \/ Wake(s) \/ Exit(s) \/ Restart(s)
      BY <1>0, <3>6 DEF NoneOverdue, Wake, Exit, Restart, Goes, SenderVars
    <3>7. CASE AcquireSeat(s) \/ FetchFlip(s) \/ ClaimFlip(s)
      BY <1>0, <3>7 DEF AcquireSeat, FetchFlip, ClaimFlip, Return, Goes, SenderVars
    <3>8. CASE Crash(s)
      BY <1>0, <3>8 DEF Crash, Goes, SenderVars
    <3>9. QED
      BY <1>1, <3>1, <3>2, <3>3, <3>4, <3>5, <3>6, <3>7, <3>8
      DEF SenderStep, MainLoop, Worker
  <2>5. QED BY <2>1, <2>2, <2>3, <2>4
<1>8. QED
  BY <1>1, <1>2, <1>4, <1>5, <1>6, <1>7 DEF TimeoutInv

LEMMA OthersTimely ==
    ASSUME SInv, TimeoutInv, UNCHANGED <<table, row, nPings, pings, flips, req, outdated>>,
           UNCHANGED senderVars, now' = now \/ now' = now + 1
    PROVE  TimeoutInv'
<1>1. now \in Nat /\ now' \in Nat /\ now <= now' /\ pings \subseteq Ping
  BY InstantAssumption DEF SInv, TypeInv
<1>2. PastStays
  BY <1>1 DEF PastStays
<1>3. GentleRequests' /\ \A c \in table' : RunKnown(c)' /\ SignalKnown(c)'
  BY DEF TimeoutInv, GentleRequests, RunKnown, SignalKnown, Ends
<1>4. PingsCounted'
  <2>1. \A p \in pings : p.created \in Nat
    BY <1>1, InstantAssumption DEF Ping
  <2>2. QED BY <1>1, <2>1 DEF TimeoutInv, PingsCounted
<1>5. FlipsTimely'
  BY <1>2, FlipsStay DEF TimeoutInv, FlipsTimely
<1>6. \A s \in Senders : CopyTimely(s)'
  BY <1>2, TimelyStays DEF TimeoutInv, senderVars
<1>7. QED BY <1>3, <1>4, <1>5, <1>6 DEF TimeoutInv

\* Among checks with simple schedules, and requests that leave schedules and
\* pings alone, a timeout flip is true of the time that handle_going_down dates
\* it with, however old its copy: the deadline had passed when it read the row.
THEOREM TimeoutsAreTrue ==
    ASSUME Ops \subseteq Gentle, \A cfg \in Configs : cfg.kind = "simple"
    PROVE  SSpec => []TimeoutFlipsTrue
<1>1. SInit => TimeoutInv
  <2> SUFFICES ASSUME SInit PROVE TimeoutInv
    OBVIOUS
  <2>1. GentleRequests /\ outdated = {} /\ PingsCounted /\ FlipsTimely
    BY DEF SInit, Init, GentleRequests, PingsCounted, FlipsTimely, Idle, ReqSteps
  <2>2. ASSUME NEW c \in table PROVE RunKnown(c) /\ SignalKnown(c)
    <3>1. PICK cfg \in Configs, m \in BOOLEAN : row[c] = NewRow(cfg, m)
      BY DEF SInit, Init
    <3>2. QED BY <3>1 DEF NewRow, RunKnown, SignalKnown
  <2>3. \A s \in Senders : CopyTimely(s)
    BY DEF SInit, CopyTimely
  <2>4. QED BY <2>1, <2>2, <2>3 DEF TimeoutInv
<1>2. SInv /\ TimeoutInv /\ [SNext]_vars => TimeoutInv'
  <2> SUFFICES ASSUME SInv, TimeoutInv, [SNext]_vars PROVE TimeoutInv'
    OBVIOUS
  <2>1. ASSUME NEW s \in Senders, SenderStep(s) PROVE TimeoutInv'
    BY <2>1, SenderTimely
  <2>2. CASE UNCHANGED vars
    BY <2>2, OthersTimely DEF vars, checkVars
  <2>3. CASE Tick /\ UNCHANGED senderVars
    BY <2>3, OthersTimely DEF Tick
  <2>4. CASE CheckStep /\ UNCHANGED senderVars
    BY <2>3, <2>4, PingTimely, RequestTimely DEF CheckStep
  <2>5. QED BY <2>1, <2>2, <2>4 DEF SNext
<1>3. TimeoutInv => TimeoutFlipsTrue
  BY DEF TimeoutInv, FlipsTimely, TrueOf, TimeoutFlipsTrue
<1>4. QED
  BY <1>1, <1>2, <1>3, SInvHolds, PTL DEF SSpec
=============================================================================
