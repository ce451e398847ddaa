-------------------------- MODULE SendalertsProofs --------------------------
(***************************************************************************)
(* Theorems about module Sendalerts, for any number of processes, threads, *)
(* checks and requests.                                                    *)
(***************************************************************************)
EXTENDS Sendalerts, ChecksProofs

-----------------------------------------------------------------------------
(* Types, and what a process knows of the copy it works on.                *)

Copy == [id : Checks, row : GoodRow]

\* The copy of a process that is at work on one is not that of a down check.
CopyKnown(s) ==
    pc[s] \in {"picked", "postpone", "markDown", "saveFlip"} =>
      /\ copy[s] \in Copy
      /\ copy[s].row.status # "down"
      /\ pc[s] \in {"markDown", "saveFlip"} =>
           /\ GoingDownAfter(copy[s].row) \in Nat
           /\ GoingDownAfter(copy[s].row) <= now

FetchedKnown(s) ==
    pc[s] = "claim" => fetched[s] \in Flip /\ fetched[s].processed = "no"

SenderVars ==
    /\ pc \in [Senders -> Steps]
    /\ copy \in [Senders -> Copy \cup {Nothing}]
    /\ seat \in [Senders -> Nat]
    /\ fetched \in [Senders -> Flip \cup {Nothing}]
    /\ jobs \in [Senders -> SUBSET Job]
    /\ shutdown \in [Senders -> BOOLEAN]
    /\ outbox \in Seq(Nat)
    /\ crashes \in Nat
    /\ signals \in Nat

SenderTypes ==
    /\ SenderVars
    /\ \A s \in Senders : CopyKnown(s) /\ FetchedKnown(s)

SInv == TypeInv /\ AlertAfterExact /\ SenderTypes

LEMMA SInitGood == SInit => SInv
<1> SUFFICES ASSUME SInit PROVE SInv
  OBVIOUS
<1>1. TypeInv /\ AlertAfterExact
  BY InitGood DEF SInit
<1>2. SenderTypes
  BY SenderAssumption
  DEF SInit, SenderTypes, SenderVars, Steps, CopyKnown, FetchedKnown, Nothing, Copy
<1>3. QED BY <1>1, <1>2 DEF SInv

\* The clock never goes back, and other steps leave it alone.
LEMMA ClockAdvances ==
    ASSUME TypeInv, CheckStep
    PROVE  now' \in Nat /\ now <= now'
<1>1. now \in Nat
  BY InstantAssumption DEF TypeInv
<1>2. now' = now \/ now' = now + 1
  BY DEF CheckStep, Tick, ReceivePing, ReadCheck, RequestStep, Decide,
     CreateFlip, Save, SaveDown, ClearPings, ClearFlips, Rename, Collect,
     Delete, Abort
<1>3. QED BY <1>1, <1>2

LEMMA CheckStepTypes ==
    ASSUME SInv, CheckStep, UNCHANGED senderVars
    PROVE  SInv'
<1>1. TypeInv' /\ AlertAfterExact'
  BY CheckStepGood DEF SInv
<1>2. now \in Nat /\ now' \in Nat /\ now <= now'
  BY ClockAdvances, InstantAssumption DEF SInv, TypeInv
<1>3. ASSUME NEW s \in Senders
      PROVE  CopyKnown(s)' /\ FetchedKnown(s)'
  <2>1. pc' = pc /\ copy' = copy /\ fetched' = fetched
    BY DEF senderVars
  <2>2. CopyKnown(s) /\ FetchedKnown(s)
    BY DEF SInv, SenderTypes
  <2>3. CopyKnown(s)'
    BY <1>2, <2>1, <2>2 DEF CopyKnown, Copy, GoingDownAfter, GetGraceStart,
       NextExpected
  <2>4. FetchedKnown(s)'
    BY <2>1, <2>2 DEF FetchedKnown
  <2>5. QED BY <2>3, <2>4
<1>4. SenderTypes'
  BY <1>3 DEF SInv, SenderTypes, SenderVars, senderVars
<1>5. QED BY <1>1, <1>4 DEF SInv


Working == {"picked", "postpone", "markDown", "saveFlip"}

\* What a process knows stays true while it and its copy stay as they are, or
\* when it stops working on the copy.
LEMMA KnownStable ==
    ASSUME NEW t \in Senders, CopyKnown(t), now' = now, copy'[t] = copy[t],
           pc'[t] = pc[t] \/ pc'[t] \notin Working
    PROVE  CopyKnown(t)'
<1>1. CASE pc'[t] \notin Working
  BY <1>1 DEF CopyKnown, Working
<1>2. CASE pc'[t] = pc[t]
  BY <1>2 DEF CopyKnown, GoingDownAfter, GetGraceStart, NextExpected
<1>3. QED BY <1>1, <1>2

LEMMA FetchedStable ==
    ASSUME NEW t \in Senders, FetchedKnown(t), fetched'[t] = fetched[t],
           pc'[t] = pc[t] \/ pc'[t] # "claim"
    PROVE  FetchedKnown(t)'
BY DEF FetchedKnown

\* Steps of a sender that write nothing of module Checks.
LEMMA LocalTypes ==
    ASSUME SInv, NEW s \in Senders,
           \/ PickOverdue(s) \/ NoneOverdue(s) \/ Calculate(s)
           \/ AcquireSeat(s) \/ FetchFlip(s)
           \/ Notify(s) \/ OnNotifyDone(s)
           \/ Wake(s) \/ Exit(s) \/ Restart(s) \/ OnSignal(s) \/ Crash(s)
    PROVE  SInv'
<1>0. /\ TypeInv /\ AlertAfterExact /\ SenderVars
      /\ \A t \in Senders : CopyKnown(t) /\ FetchedKnown(t)
  BY DEF SInv, SenderTypes
<1>1. UNCHANGED checkVars
  BY DEF PickOverdue, NoneOverdue, Calculate, AcquireSeat, FetchFlip, Notify,
     OnNotifyDone, Wake, Exit, Restart, OnSignal, Crash
<1>2. TypeInv' /\ AlertAfterExact'
  BY <1>0, <1>1, StutterGood
<1>3. now' = now /\ flips' = flips
  BY <1>1 DEF checkVars
<1>4. SUFFICES /\ SenderVars'
               /\ \A t \in Senders : CopyKnown(t)' /\ FetchedKnown(t)'
  BY <1>2 DEF SInv, SenderTypes
<1>5. CASE PickOverdue(s)
  <2>1. PICK c \in Overdue : copy' = [copy EXCEPT ![s] = [id |-> c, row |-> row[c]]]
    BY <1>5 DEF PickOverdue
  <2>2. [id |-> c, row |-> row[c]] \in Copy /\ row[c].status # "down"
    BY <1>0, <2>1 DEF Overdue, TypeInv, Copy
  <2>3. SenderVars'
    BY <1>0, <1>5, <2>1, <2>2 DEF PickOverdue, Goes, SenderVars, Steps
  <2>4. pc' = [pc EXCEPT ![s] = "picked"] /\ fetched' = fetched
    BY <1>5 DEF PickOverdue, Goes
  <2>5. CopyKnown(s)'
    BY <1>0, <2>1, <2>2, <2>4 DEF SenderVars, CopyKnown
  <2>6. ASSUME NEW t \in Senders PROVE CopyKnown(t)' /\ FetchedKnown(t)'
    <3>1. FetchedKnown(t)'
      BY <1>0, <2>4, FetchedStable DEF SenderVars
    <3>2. t # s => CopyKnown(t)'
      BY <1>0, <1>3, <2>1, <2>4, KnownStable DEF SenderVars
    <3>3. QED BY <2>5, <3>1, <3>2
  <2>7. QED BY <2>3, <2>6
<1>6. CASE Calculate(s)
  <2>1. copy[s] \in Copy /\ copy[s].row \in GoodRow /\ copy[s].row.status # "down"
    BY <1>0, <1>6 DEF Calculate, CopyKnown, Copy
  <2>2. now \in Nat
    BY <1>0, InstantAssumption DEF TypeInv
  <2>3. GetStatus(copy[s].row, now) = "down" =>
          /\ GoingDownAfter(copy[s].row) \in Nat
          /\ GoingDownAfter(copy[s].row) <= now
    BY <2>1, <2>2, StatusAgrees, GoingDownType DEF Maybe
  <2>4. /\ pc' = [pc EXCEPT ![s] = IF GetStatus(copy[s].row, now) = "down"
                                   THEN "markDown" ELSE "postpone"]
        /\ copy' = copy /\ fetched' = fetched
    BY <1>6 DEF Calculate, Goes
  <2>5. GoingDownAfter(copy[s].row)' = GoingDownAfter(copy[s].row)
    BY <2>4 DEF GoingDownAfter, GetGraceStart, NextExpected
  <2>6. CopyKnown(s)'
    BY <1>0, <1>3, <2>1, <2>3, <2>4, <2>5 DEF CopyKnown, SenderVars
  <2>7. SenderVars'
    BY <1>0, <1>6, <2>4 DEF Calculate, SenderVars, Steps
  <2>8. ASSUME NEW t \in Senders PROVE CopyKnown(t)' /\ FetchedKnown(t)'
    <3>1. FetchedKnown(t)'
      BY <1>0, <2>4, FetchedStable DEF SenderVars
    <3>2. t # s => CopyKnown(t)'
      BY <1>0, <1>3, <2>4, KnownStable DEF SenderVars
    <3>3. QED BY <2>6, <3>1, <3>2
  <2>9. QED BY <2>7, <2>8
<1>7. CASE NoneOverdue(s) \/ Wake(s) \/ Exit(s) \/ Restart(s) \/ OnSignal(s)
  <2>1. SenderVars'
    <3>1. CASE NoneOverdue(s) \/ Wake(s) \/ Exit(s)
      BY <1>0, <3>1 DEF NoneOverdue, Wake, Exit, Goes, SenderVars, Steps
    <3>2. CASE Restart(s)
      BY <1>0, <3>2, SenderAssumption DEF Restart, Goes, SenderVars, Steps
    <3>3. CASE OnSignal(s)
      BY <1>0, <3>3 DEF OnSignal, SenderVars
    <3>4. QED BY <1>7, <3>1, <3>2, <3>3
  <2>2. /\ copy' = copy /\ fetched' = fetched
        /\ \/ pc' = pc
           \/ pc' = [pc EXCEPT ![s] = pc'[s]]
              /\ pc'[s] \in {"seats", "drain", "going", "exited"}
    BY <1>0, <1>7 DEF NoneOverdue, Wake, Exit, Restart, OnSignal, Goes, SenderVars
  <2>3. ASSUME NEW t \in Senders PROVE CopyKnown(t)' /\ FetchedKnown(t)'
    <3>1. pc'[t] = pc[t] \/ (pc'[t] \notin Working /\ pc'[t] # "claim")
      BY <1>0, <2>2 DEF SenderVars, Working
    <3>2. QED BY <1>0, <1>3, <2>2, <3>1, KnownStable, FetchedStable
  <2>4. QED BY <2>1, <2>3
<1>8. CASE AcquireSeat(s)
  <2>1. SenderVars'
    BY <1>0, <1>8 DEF AcquireSeat, Return, Goes, SenderVars, Steps
  <2>2. /\ copy' = copy /\ fetched' = fetched
        /\ pc' = [pc EXCEPT ![s] = pc'[s]]
        /\ pc'[s] \in {"fetch", "drain", "sleep"}
    BY <1>0, <1>8 DEF AcquireSeat, Return, Goes, SenderVars
  <2>3. ASSUME NEW t \in Senders PROVE CopyKnown(t)' /\ FetchedKnown(t)'
    <3>1. pc'[t] = pc[t] \/ (pc'[t] \notin Working /\ pc'[t] # "claim")
      BY <1>0, <2>2 DEF SenderVars, Working
    <3>2. QED BY <1>0, <1>3, <2>2, <3>1, KnownStable, FetchedStable
  <2>4. QED BY <2>1, <2>3
<1>9. CASE FetchFlip(s)
  <2>1. \/ /\ \E f \in Unprocessed : fetched' = [fetched EXCEPT ![s] = f]
           /\ pc' = [pc EXCEPT ![s] = "claim"]
           /\ seat' = seat
        \/ /\ fetched' = fetched
           /\ pc' = [pc EXCEPT ![s] = pc'[s]]
           /\ pc'[s] \in {"drain", "sleep"}
           /\ seat' = [seat EXCEPT ![s] = @ + 1]
    BY <1>0, <1>9 DEF FetchFlip, Return, Goes, SenderVars
  <2>2. Unprocessed \subseteq Flip /\ \A f \in Unprocessed : f.processed = "no"
    BY <1>0 DEF TypeInv, Unprocessed
  <2>3. copy' = copy
    BY <1>9 DEF FetchFlip
  <2>4. SenderVars'
    <3>1. fetched' \in [Senders -> Flip \cup {Nothing}]
      BY <1>0, <2>1, <2>2 DEF SenderVars
    <3>2. pc' \in [Senders -> Steps] /\ seat' \in [Senders -> Nat]
      BY <1>0, <2>1 DEF SenderVars, Steps
    <3>3. UNCHANGED <<copy, jobs, shutdown, outbox, crashes, signals>>
      BY <1>9 DEF FetchFlip
    <3>4. QED BY <1>0, <3>1, <3>2, <3>3 DEF SenderVars
  <2>5. FetchedKnown(s)'
    BY <1>0, <2>1, <2>2 DEF FetchedKnown, SenderVars
  <2>6. ASSUME NEW t \in Senders PROVE CopyKnown(t)' /\ FetchedKnown(t)'
    <3>1. CopyKnown(t)'
      <4>1. pc'[t] = pc[t] \/ pc'[t] \notin Working
        BY <1>0, <2>1 DEF SenderVars, Working
      <4>2. QED BY <1>0, <1>3, <2>3, <4>1, KnownStable
    <3>2. t # s => FetchedKnown(t)'
      <4>1. t # s => pc'[t] = pc[t] /\ fetched'[t] = fetched[t]
        BY <1>0, <2>1 DEF SenderVars
      <4>2. QED BY <1>0, <4>1, FetchedStable
    <3>3. QED BY <2>5, <3>1, <3>2
  <2>7. QED BY <2>4, <2>6
<1>10. CASE Notify(s) \/ OnNotifyDone(s)
  <2>1. UNCHANGED <<pc, copy, fetched>>
    BY <1>10 DEF Notify, OnNotifyDone
  <2>2. SenderVars'
    <3>1. CASE Notify(s)
      <4>1. PICK j \in jobs[s] :
              /\ jobs' = [jobs EXCEPT ![s] =
                            (@ \ {j}) \cup {[j EXCEPT !.finished = TRUE]}]
              /\ outbox' = IF j.flip.owner \in table /\ Alerts(j.flip)
                           THEN Append(outbox, j.flip.id) ELSE outbox
        BY <3>1 DEF Notify
      <4>2. j \in Job /\ jobs[s] \subseteq Job
        BY <1>0 DEF SenderVars
      <4>3. [j EXCEPT !.finished = TRUE] \in Job /\ j.flip.id \in Nat
        BY <4>2 DEF Job, Flip
      <4>4. jobs' \in [Senders -> SUBSET Job]
        BY <1>0, <4>1, <4>2, <4>3 DEF SenderVars
      <4>5. outbox' \in Seq(Nat)
        BY <1>0, <4>1, <4>3 DEF SenderVars
      <4>6. QED BY <1>0, <3>1, <4>4, <4>5 DEF Notify, SenderVars
    <3>2. CASE OnNotifyDone(s)
      BY <1>0, <3>2 DEF OnNotifyDone, SenderVars
    <3>3. QED BY <1>10, <3>1, <3>2
  <2>3. QED BY <1>0, <1>3, <2>1, <2>2, KnownStable, FetchedStable
<1>11. CASE Crash(s)
  <2>1. SenderVars'
    BY <1>0, <1>11 DEF Crash, Goes, SenderVars, Steps
  <2>2. /\ copy' = [copy EXCEPT ![s] = Nothing]
        /\ fetched' = [fetched EXCEPT ![s] = Nothing]
        /\ pc' = [pc EXCEPT ![s] = "exited"]
    BY <1>11 DEF Crash, Goes
  <2>3. CopyKnown(s)' /\ FetchedKnown(s)'
    BY <1>0, <2>2 DEF SenderVars, CopyKnown, FetchedKnown
  <2>4. ASSUME NEW t \in Senders, t # s PROVE CopyKnown(t)' /\ FetchedKnown(t)'
    <3>1. pc'[t] = pc[t] /\ copy'[t] = copy[t] /\ fetched'[t] = fetched[t]
      BY <1>0, <2>2, <2>4 DEF SenderVars
    <3>2. QED BY <1>0, <1>3, <3>1, KnownStable, FetchedStable
  <2>5. QED BY <2>1, <2>3, <2>4
<1>12. QED
  BY <1>5, <1>6, <1>7, <1>8, <1>9, <1>10, <1>11

\* handle_going_down writes a row in the same ways as a request does.
LEMMA PostponedGood ==
    ASSUME TypeInv, AlertAfterExact, NEW s \in Senders, NEW time \in Maybe(Nat),
           copy[s] \in Copy, Postponed(s, time),
           UNCHANGED <<now, table, nPings, pings, flips, lastFlip, req>>
    PROVE  TypeInv' /\ AlertAfterExact'
<1> DEFINE c == copy[s].id
<1>1. CASE Matches(s)
  <2> DEFINE new == [row[c] EXCEPT !.alertAfter = time]
  <2>1. c \in Checks /\ row[c] \in GoodRow /\ row[c] \in Row
    BY DEF Copy, TypeInv, GoodRow
  <2>2. /\ row' = [row EXCEPT ![c] = new]
        /\ outdated' = IF time = GoingDownAfter(row[c])
                       THEN outdated \ {c} ELSE outdated \cup {c}
    BY <1>1, <2>1 DEF Postponed, TypeInv, Row
  <2>3. new \in GoodRow /\ new.alertAfter = time
        /\ GoingDownAfter(new) = GoingDownAfter(row[c])
    BY <2>1, SameDeadline DEF GoodRow, Row
  <2> HIDE DEF new
  <2>4. AlertAfterExact'
    BY <2>1, <2>2, <2>3, WriteExact DEF TypeInv
  <2>5. TypeInv'
    BY <2>1, <2>2, <2>3 DEF TypeInv
  <2>6. QED BY <2>4, <2>5
<1>2. CASE ~Matches(s)
  BY <1>2 DEF Postponed, TypeInv, AlertAfterExact
<1>3. QED BY <1>1, <1>2

\* Steps of handle_going_down that write a table.
LEMMA GoingDownTypes ==
    ASSUME SInv, NEW s \in Senders,
           CalculateThrows(s) \/ Postpone(s) \/ MarkDown(s) \/ SaveFlip(s)
    PROVE  SInv'
<1>0. /\ TypeInv /\ AlertAfterExact /\ SenderVars
      /\ \A t \in Senders : CopyKnown(t) /\ FetchedKnown(t)
  BY DEF SInv, SenderTypes
<1>1. copy[s] \in Copy /\ copy[s].row \in GoodRow /\ copy[s].row.status # "down"
  BY <1>0 DEF CopyKnown, Copy, CalculateThrows, Postpone, MarkDown, SaveFlip
<1>2. now' = now /\ fetched' = fetched
  BY DEF CalculateThrows, Postpone, MarkDown, SaveFlip
<1>3. /\ pc' = [pc EXCEPT ![s] = pc'[s]]
      /\ \/ /\ pc'[s] \in {"drain", "seats", "going"}
            /\ copy' = [copy EXCEPT ![s] = Nothing]
         \/ /\ pc[s] = "markDown" /\ pc'[s] = "saveFlip"
            /\ copy' = copy
  BY <1>0 DEF CalculateThrows, Postpone, MarkDown, SaveFlip, Again, Goes, SenderVars
<1>4. SenderVars'
  <2>1. UNCHANGED <<seat, fetched, jobs, shutdown, outbox, crashes, signals>>
    BY DEF CalculateThrows, Postpone, MarkDown, SaveFlip
  <2>2. pc' \in [Senders -> Steps] /\ copy' \in [Senders -> Copy \cup {Nothing}]
    BY <1>0, <1>3 DEF SenderVars, Steps
  <2>3. QED BY <1>0, <2>1, <2>2 DEF SenderVars
<1>5. ASSUME NEW t \in Senders PROVE CopyKnown(t)' /\ FetchedKnown(t)'
  <2>1. FetchedKnown(t)'
    <3>1. pc'[t] = pc[t] \/ pc'[t] # "claim"
      BY <1>0, <1>3 DEF SenderVars
    <3>2. QED BY <1>0, <1>2, <3>1, FetchedStable
  <2>2. CASE t # s
    <3>1. pc'[t] = pc[t] /\ copy'[t] = copy[t]
      BY <1>0, <1>3, <2>2 DEF SenderVars
    <3>2. QED BY <1>0, <1>2, <2>1, <3>1, KnownStable
  <2>3. CASE t = s
    <3>1. CASE pc'[s] \in {"drain", "seats", "going"}
      BY <2>1, <2>3, <3>1 DEF CopyKnown
    <3>2. CASE pc[s] = "markDown" /\ pc'[s] = "saveFlip" /\ copy' = copy
      <4>1. GoingDownAfter(copy[s].row)' = GoingDownAfter(copy[s].row)
        BY <3>2 DEF GoingDownAfter, GetGraceStart, NextExpected
      <4>2. QED BY <1>0, <1>1, <1>2, <2>1, <2>3, <3>2, <4>1 DEF CopyKnown
    <3>3. QED BY <1>3, <3>1, <3>2
  <2>4. QED BY <2>2, <2>3
<1>6. TypeInv' /\ AlertAfterExact'
  <2>1. CASE CalculateThrows(s)
    <3>1. now + Hour \in Maybe(Nat)
      BY <1>0, InstantAssumption, SenderAssumption DEF TypeInv, Maybe
    <3>2. /\ Postponed(s, now + Hour)
          /\ UNCHANGED <<now, table, nPings, pings, flips, lastFlip, req>>
      BY <2>1 DEF CalculateThrows
    <3>3. QED BY <1>0, <1>1, <3>1, <3>2, PostponedGood
  <2>2. CASE Postpone(s)
    <3>1. GoingDownAfter(copy[s].row) \in Maybe(Nat)
      BY <1>1, GoingDownType
    <3>2. /\ Postponed(s, GoingDownAfter(copy[s].row))
          /\ UNCHANGED <<now, table, nPings, pings, flips, lastFlip, req>>
      BY <2>2 DEF Postpone
    <3>3. QED BY <1>0, <1>1, <3>1, <3>2, PostponedGood
  <2>3. CASE MarkDown(s)
    <3> DEFINE c == copy[s].id
               new == [row[c] EXCEPT !.alertAfter = None, !.status = "down"]
    <3>1. c \in Checks /\ row[c] \in GoodRow /\ row[c] \in Row
      BY <1>0, <1>1 DEF Copy, TypeInv, GoodRow
    <3>2. CASE Matches(s)
      <4>1. row' = [row EXCEPT ![c] = new] /\ outdated' = outdated \ {c}
        BY <1>0, <2>3, <3>1, <3>2 DEF MarkDown, TypeInv, Row
      <4>2. /\ new \in GoodRow /\ new.alertAfter = None
            /\ GoingDownAfter(new) = None
        BY <3>1 DEF GoodRow, Row, Statuses, Maybe, GoingDownAfter,
           GetGraceStart, NextExpected
      <4> HIDE DEF new
      <4>3. AlertAfterExact'
        BY <1>0, <3>1, <4>1, <4>2, WriteExact DEF TypeInv
      <4>4. TypeInv'
        BY <1>0, <2>3, <3>1, <4>1, <4>2 DEF MarkDown, TypeInv
      <4>5. QED BY <4>3, <4>4
    <3>3. CASE ~Matches(s)
      <4>1. UNCHANGED checkVars
        BY <2>3, <3>3 DEF MarkDown, checkVars
      <4>2. QED BY <1>0, <4>1, StutterGood
    <3>4. QED BY <3>2, <3>3
  <2>4. CASE SaveFlip(s)
    <3> DEFINE c == copy[s].id
    <3>1. flips' \subseteq Flip /\ lastFlip' \in Nat
      <4>1. CASE c \in table
        <5>1. AddFlip(c, GoingDownAfter(copy[s].row), copy[s].row.status,
                      "down", "timeout", "no")
          BY <2>4, <4>1 DEF SaveFlip
        <5>2. /\ c \in Checks /\ copy[s].row.status \in Statuses
              /\ GoingDownAfter(copy[s].row) \in Nat
          BY <1>0, <1>1, <2>4 DEF Copy, GoodRow, Row, SaveFlip, CopyKnown
        <5>3. QED
          BY <1>0, <5>1, <5>2, AddFlipType DEF TypeInv, Statuses, Reasons
      <4>2. CASE c \notin table
        BY <1>0, <2>4, <4>2 DEF SaveFlip, TypeInv
      <4>3. QED BY <4>1, <4>2
    <3>2. QED BY <1>0, <2>4, <3>1 DEF SaveFlip, TypeInv, AlertAfterExact
  <2>5. QED BY <2>1, <2>2, <2>3, <2>4
<1>7. QED BY <1>4, <1>5, <1>6 DEF SInv, SenderTypes

LEMMA ClaimTypes ==
    ASSUME SInv, NEW s \in Senders, ClaimFlip(s)
    PROVE  SInv'
<1>0. /\ TypeInv /\ AlertAfterExact /\ SenderVars
      /\ \A t \in Senders : CopyKnown(t) /\ FetchedKnown(t)
  BY DEF SInv, SenderTypes
<1>1. fetched[s] \in Flip
  BY <1>0 DEF ClaimFlip, FetchedKnown
<1>2. [fetched[s] EXCEPT !.processed = "claimed"] \in Flip
      /\ [flip |-> fetched[s], finished |-> FALSE] \in Job
  BY <1>1 DEF Flip, Job
<1>3. flips' \subseteq Flip /\ jobs' \in [Senders -> SUBSET Job]
  <2>1. flips \subseteq Flip /\ jobs \in [Senders -> SUBSET Job]
    BY <1>0 DEF TypeInv, SenderVars
  <2>2. CASE fetched[s] \in flips
    <3>1. /\ flips' = (flips \ {fetched[s]}) \cup
                        {[fetched[s] EXCEPT !.processed = "claimed"]}
          /\ jobs' = [jobs EXCEPT ![s] =
                        @ \cup {[flip |-> fetched[s], finished |-> FALSE]}]
      BY <2>2 DEF ClaimFlip
    <3>2. jobs' \in [Senders -> SUBSET Job]
      BY <1>2, <2>1, <3>1
    <3>3. flips' \subseteq Flip
      BY <1>2, <2>1, <3>1
    <3>4. QED BY <3>2, <3>3
  <2>3. CASE fetched[s] \notin flips
    BY <2>1, <2>3 DEF ClaimFlip
  <2>4. QED BY <2>2, <2>3
<1>4. /\ pc' = [pc EXCEPT ![s] = pc'[s]] /\ pc'[s] \in {"drain", "seats"}
      /\ fetched' = [fetched EXCEPT ![s] = Nothing]
      /\ copy' = copy /\ now' = now
  BY <1>0 DEF ClaimFlip, Return, Goes, SenderVars
<1>5. SenderVars'
  <2>1. seat' \in [Senders -> Nat]
    BY <1>0 DEF ClaimFlip, SenderVars
  <2>2. pc' \in [Senders -> Steps] /\ fetched' \in [Senders -> Flip \cup {Nothing}]
    BY <1>0, <1>4 DEF SenderVars, Steps
  <2>3. UNCHANGED <<copy, shutdown, outbox, crashes, signals>>
    BY DEF ClaimFlip
  <2>4. QED BY <1>0, <1>3, <2>1, <2>2, <2>3 DEF SenderVars
<1>6. ASSUME NEW t \in Senders PROVE CopyKnown(t)' /\ FetchedKnown(t)'
  <2>1. CopyKnown(t)'
    <3>1. pc'[t] = pc[t] \/ pc'[t] \notin Working
      BY <1>0, <1>4 DEF SenderVars, Working
    <3>2. QED BY <1>0, <1>4, <3>1, KnownStable
  <2>2. CASE t = s
    BY <1>0, <1>4, <2>1, <2>2 DEF FetchedKnown, SenderVars
  <2>3. CASE t # s
    <3>1. pc'[t] = pc[t] /\ fetched'[t] = fetched[t]
      BY <1>0, <1>4, <2>3 DEF SenderVars
    <3>2. QED BY <1>0, <2>1, <3>1, FetchedStable
  <2>4. QED BY <2>2, <2>3
<1>7. TypeInv' /\ AlertAfterExact'
  BY <1>0, <1>3 DEF ClaimFlip, TypeInv, AlertAfterExact
<1>8. QED BY <1>5, <1>6, <1>7 DEF SInv, SenderTypes

LEMMA SNextGood == SInv /\ [SNext]_vars => SInv'
<1> SUFFICES ASSUME SInv, [SNext]_vars PROVE SInv'
  OBVIOUS
<1>1. CASE CheckStep /\ UNCHANGED senderVars
  BY <1>1, CheckStepTypes
<1>2. ASSUME NEW s \in Senders, SenderStep(s) PROVE SInv'
  BY <1>2, LocalTypes, GoingDownTypes, ClaimTypes
  DEF SenderStep, MainLoop, Worker
<1>3. CASE UNCHANGED vars
  <2>1. TypeInv' /\ AlertAfterExact'
    BY <1>3, StutterGood DEF vars, SInv
  <2>2. SenderVars' /\ UNCHANGED <<now, pc, copy, fetched>>
    BY <1>3 DEF vars, checkVars, senderVars, SInv, SenderTypes, SenderVars
  <2>3. \A t \in Senders : CopyKnown(t)' /\ FetchedKnown(t)'
    BY <2>2, KnownStable, FetchedStable DEF SInv, SenderTypes
  <2>4. QED BY <2>1, <2>2, <2>3 DEF SInv, SenderTypes
<1>4. QED BY <1>1, <1>2, <1>3 DEF SNext

LEMMA SInvHolds == SSpec => []SInv
<1>1. QED BY SInitGood, SNextGood, PTL DEF SSpec

\* Every reachable state of the processes and the tables is well typed.
THEOREM SenderTypeCorrect == SSpec => []STypeOK
<1>1. SInv => STypeOK
  <2>1. SInv => TypeOK
    BY TypeInvImplies DEF SInv
  <2>2. Copy \subseteq [id : Checks, row : Row]
    BY DEF Copy, GoodRow
  <2>3. QED BY <2>1, <2>2 DEF SInv, SenderTypes, SenderVars, STypeOK
<1>2. QED BY <1>1, SInvHolds, PTL

\* The assertions of handle_going_down hold for the copy it works on, however
\* late it gets round to it.
THEOREM FlipTimeIsKnown == SSpec => []FlipTimeKnown
<1>1. SInv => FlipTimeKnown
  <2> SUFFICES ASSUME SInv, NEW s \in Senders, pc[s] \in Working
               PROVE  /\ copy[s].row.status = "up" => copy[s].row.lastPing # None
                      /\ pc[s] \in {"markDown", "saveFlip"} =>
                           /\ GoingDownAfter(copy[s].row) # None
                           /\ GoingDownAfter(copy[s].row) <= now
    BY DEF FlipTimeKnown, Working
  <2>1. CopyKnown(s)
    BY DEF SInv, SenderTypes
  <2>2. QED BY <2>1, NoneAssumption DEF CopyKnown, Working, Copy, GoodRow
<1>2. QED BY <1>1, SInvHolds, PTL

\* With any number of senders at work, a check that is "up" has been pinged.
THEOREM GraceStartDefinedWithSenders == SSpec => []UpHasPing
<1>1. SInv => UpHasPing
  BY TypeInvImplies DEF SInv
<1>2. QED BY <1>1, SInvHolds, PTL

\* With any number of senders at work, alert_after is the time the row goes
\* down after, unless it was last written from an outdated copy.
THEOREM AlertAfterCorrectWithSenders == SSpec => []AlertAfterExact
<1>1. SInv => AlertAfterExact
  BY DEF SInv
<1>2. QED BY <1>1, SInvHolds, PTL

\* No assertion of get_grace_start or of handle_going_down ever fails.
THEOREM AssertionsNeverFail == SSpec => []AssertionsHold
<1>1. UpHasPing /\ FlipTimeKnown => AssertionsHold
  BY DEF AssertionsHold
<1>2. QED BY <1>1, FlipTimeIsKnown, GraceStartDefinedWithSenders, PTL
=============================================================================
