---------------------------- MODULE ChecksProofs ----------------------------
(***************************************************************************)
(* Theorems about module Checks: the types, the assertion of               *)
(* get_grace_start, and the value of alert_after, for any number of checks *)
(* and requests and any schedules.                                         *)
(***************************************************************************)
EXTENDS Checks, TLAPS

\* Rows the functions of CheckRow are defined on: "up" means pinged.
GoodRow == {r \in Row : r.status = "up" => r.lastPing # None}

-----------------------------------------------------------------------------
(* Facts about a row.                                                      *)

\* The expected time of the next ping is a time or None.
LEMMA NextExpectedType ==
    ASSUME NEW r \in GoodRow
    PROVE  NextExpected(r) \in Maybe(Nat)
<1>1. r.cfg \in Configs /\ r.lastPing \in Maybe(Instants)
  BY DEF GoodRow, Row
<1>2. CASE r.status # "up"
  BY <1>2 DEF NextExpected, Maybe
<1>3. CASE r.status = "up"
  <2>1. r.lastPing \in Instants /\ r.lastPing \in Nat
    BY <1>1, <1>3, InstantAssumption DEF GoodRow, Maybe
  <2>2. CASE r.cfg.kind = "simple"
    <3>1. r.cfg.timeout \in Nat
      BY <1>1, ConfigAssumption
    <3>2. QED BY <1>3, <2>1, <2>2, <3>1 DEF NextExpected, Maybe
  <2>3. CASE r.cfg.kind # "simple"
    <3>1. NextElapse(r.cfg.schedule, r.lastPing) \in Maybe(Nat)
      BY <1>1, <2>1, NextElapseAssumption DEF Maybe
    <3>2. QED BY <1>3, <2>3, <3>1 DEF NextExpected
  <2>4. QED BY <2>2, <2>3
<1>4. QED BY <1>2, <1>3

LEMMA GraceStartType ==
    ASSUME NEW r \in GoodRow
    PROVE  /\ GetGraceStart(r, TRUE) \in Maybe(Nat)
           /\ GetGraceStart(r, FALSE) = NextExpected(r)
<1>1. r.lastStart \in Maybe(Nat)
  BY InstantAssumption DEF GoodRow, Row, Maybe
<1>2. QED
  BY <1>1, NextExpectedType DEF GetGraceStart, Earlier, Maybe

\* The time a row goes down after is a time or None.
LEMMA GoingDownType ==
    ASSUME NEW r \in GoodRow
    PROVE  GoingDownAfter(r) \in Maybe(Nat)
<1>1. r.cfg.grace \in Nat
  BY ConfigAssumption DEF GoodRow, Row
<1> DEFINE start == GetGraceStart(r, TRUE)
<1>2. start \in Nat \/ start = None
  BY GraceStartType DEF Maybe
<1>3. GoingDownAfter(r) = IF start = None THEN None ELSE start + r.cfg.grace
  BY DEF GoingDownAfter
<1> HIDE DEF start
<1>4. QED
  BY <1>1, <1>2, <1>3, NoneAssumption DEF Maybe

\* get_status and going_down_after agree: a row that is not down in the table
\* is down from the time going_down_after computes on, and never if there is
\* none.  handle_going_down asserts that flip_time is not None on this ground.
THEOREM StatusAgrees ==
    ASSUME NEW r \in GoodRow, NEW t \in Nat, r.status # "down"
    PROVE  GetStatus(r, t) = "down"
             <=> (GoingDownAfter(r) # None /\ t >= GoingDownAfter(r))
<1> DEFINE e == NextExpected(r)
           g == r.cfg.grace
           ls == r.lastStart
           due == IF ls = None THEN e ELSE Earlier(e, ls)
<1>1. /\ g \in Nat
      /\ ls \in Nat \/ ls = None
      /\ e \in Nat \/ e = None
      /\ r.status # "up" => e = None
  <2>1. g \in Nat /\ ls \in Maybe(Nat)
    BY ConfigAssumption, InstantAssumption DEF GoodRow, Row, Maybe
  <2>2. e \in Maybe(Nat) /\ (r.status # "up" => e = None)
    BY NextExpectedType DEF NextExpected
  <2>3. QED BY <2>1, <2>2 DEF Maybe
<1>2. GoingDownAfter(r) = IF due = None THEN None ELSE due + g
  BY DEF GoingDownAfter, GetGraceStart
<1>3. GetStatus(r, t) = IF ls # None /\ t >= ls + g THEN "down"
                        ELSE IF r.status # "up" THEN r.status
                        ELSE IF e = None \/ t < e THEN "up"
                        ELSE IF t < e + g THEN "grace"
                        ELSE "down"
  BY GraceStartType DEF GetStatus
<1>4. due = IF ls = None THEN e
            ELSE IF e = None \/ ls < e THEN ls ELSE e
  BY DEF Earlier
<1> HIDE DEF e, g, ls, due
<1>5. CASE ls = None
  <2>1. CASE e = None
    BY <1>2, <1>3, <1>4, <1>5, <2>1
  <2>2. CASE e # None
    <3>1. e \in Nat /\ r.status = "up"
      BY <1>1, <2>2
    <3>2. GoingDownAfter(r) = e + g /\ e + g \in Nat /\ e + g # None
      BY <1>1, <1>2, <1>4, <1>5, <2>2, <3>1, NoneAssumption
    <3>3. GetStatus(r, t) = "down" <=> t >= e + g
      BY <1>1, <1>3, <1>5, <2>2, <3>1
    <3>4. QED BY <3>2, <3>3
  <2>3. QED BY <2>1, <2>2
<1>6. CASE ls # None
  <2>1. ls \in Nat
    BY <1>1, <1>6
  <2>2. CASE e = None
    <3>1. GoingDownAfter(r) = ls + g /\ ls + g \in Nat /\ ls + g # None
      BY <1>1, <1>2, <1>4, <1>6, <2>1, <2>2, NoneAssumption
    <3>2. GetStatus(r, t) = "down" <=> t >= ls + g
      BY <1>3, <1>6, <2>2
    <3>3. QED BY <3>1, <3>2
  <2>3. CASE e # None
    <3>1. e \in Nat /\ r.status = "up"
      BY <1>1, <2>3
    <3>2. /\ due \in Nat /\ due <= ls /\ due <= e /\ (due = ls \/ due = e)
      BY <1>4, <1>6, <2>1, <2>3, <3>1
    <3>3. GoingDownAfter(r) = due + g /\ due + g # None
      BY <1>1, <1>2, <3>2, NoneAssumption
    <3>4. GetStatus(r, t) = "down" <=> t >= ls + g \/ t >= e + g
      BY <1>1, <1>3, <1>6, <2>1, <2>3, <3>1
    <3>5. QED BY <1>1, <2>1, <3>1, <3>2, <3>3, <3>4
  <2>4. QED BY <2>2, <2>3
<1>7. QED BY <1>5, <1>6

\* The time a row goes down after depends on nothing but these columns.
LEMMA SameDeadline ==
    ASSUME NEW r \in Row, NEW time
    PROVE  /\ GoingDownAfter([r EXCEPT !.alertAfter = time]) = GoingDownAfter(r)
           /\ [r EXCEPT !.alertAfter = time].alertAfter = time
           /\ [r EXCEPT !.alertAfter = time].status = r.status
BY DEF Row, GoingDownAfter, GetGraceStart, NextExpected

\* A ping leaves a good row, whose alert_after is the time it goes down after.
LEMMA PingedType ==
    ASSUME NEW r \in GoodRow, NEW action \in Actions, NEW rid \in Maybe(Rids),
           NEW t \in Instants
    PROVE  /\ Pinged(r, action, rid, t) \in GoodRow
           /\ Pinged(r, action, rid, t).alertAfter
                = GoingDownAfter(Pinged(r, action, rid, t))
           /\ Pinged(r, action, rid, t).status # r.status =>
                Pinged(r, action, rid, t).status \in {"up", "down"}
<1> DEFINE after ==
      CASE action = "start" ->
             [r EXCEPT !.lastStart = t, !.lastStartRid = rid]
        [] action \in {"success", "fail"} ->
             [r EXCEPT !.lastPing  = t,
                       !.lastStart = IF EndsRun(r, action, rid)
                                     THEN None ELSE @,
                       !.status    = IF action = "fail"
                                     THEN "down" ELSE "up"]
        [] OTHER -> r
<1>1. r \in Row /\ (r.status = "up" => r.lastPing # None) /\ t # None
  BY NoneAssumption, InstantAssumption DEF GoodRow
<1>2. after \in GoodRow /\ (after.status # r.status => after.status \in {"up", "down"})
  <2>1. CASE action = "start"
    <3>1. after = [r EXCEPT !.lastStart = t, !.lastStartRid = rid]
      BY <2>1
    <3>2. QED BY <1>1, <3>1 DEF GoodRow, Row, Maybe
  <2>2. CASE action \in {"success", "fail"}
    <3>1. after = [r EXCEPT !.lastPing  = t,
                       !.lastStart = IF EndsRun(r, action, rid)
                                     THEN None ELSE @,
                       !.status    = IF action = "fail"
                                     THEN "down" ELSE "up"]
      BY <2>2
    <3>2. QED BY <1>1, <3>1 DEF GoodRow, Row, Maybe, Statuses
  <2>3. CASE action \notin {"start", "success", "fail"}
    <3>1. after = r
      BY <2>3
    <3>2. QED BY <3>1
  <2>4. QED BY <2>1, <2>2, <2>3
<1>3. Pinged(r, action, rid, t) = [after EXCEPT !.alertAfter = GoingDownAfter(after)]
  BY DEF Pinged
<1> HIDE DEF after
<1>4. GoingDownAfter(after) \in Maybe(Nat)
  BY <1>2, GoingDownType
<1>5. QED
  BY <1>2, <1>3, <1>4, SameDeadline DEF GoodRow, Row

-----------------------------------------------------------------------------
(* The inductive invariant.                                                *)

\* A request in progress: its copy is a good row, and it is at a step that
\* its operation has, with the input that operation takes.
GoodRequest ==
    {r \in Request :
       /\ r.row \in GoodRow
       /\ r.step \in {"decide", "saveDown"} => r.op = "timeout"
       /\ r.step = "flip" => r.op \in {"pause", "resume", "timeout"}
       /\ r.step = "save" => r.op # "remove"
       /\ r.op = "timeout" => r.input.cfg \in Configs
       /\ r.op = "filter" => r.input.manual \in BOOLEAN}

TypeInv ==
    /\ now \in Instants
    /\ table \subseteq Checks
    /\ row \in [Checks -> GoodRow]
    /\ nPings \in [Checks -> Nat]
    /\ pings \subseteq Ping
    /\ flips \subseteq Flip
    /\ lastFlip \in Nat
    /\ req \in [Requests -> GoodRequest \cup {Idle, Done}]
    /\ outdated \subseteq Checks

LEMMA GoodRequestSteps ==
    ASSUME TypeInv, NEW q \in Requests, req[q].step \notin {"idle", "done"}
    PROVE  req[q] \in GoodRequest
BY DEF TypeInv, Idle, Done

LEMMA InitGood == Init => TypeInv /\ AlertAfterExact
<1> SUFFICES ASSUME Init PROVE TypeInv /\ AlertAfterExact
  OBVIOUS
<1>1. ASSUME NEW c \in Checks
      PROVE  row[c] \in GoodRow /\ row[c].alertAfter = GoingDownAfter(row[c])
  <2>1. PICK cfg \in Configs, m \in BOOLEAN : row[c] = NewRow(cfg, m)
    BY DEF Init
  <2>2. row[c] \in GoodRow
    BY <2>1 DEF NewRow, GoodRow, Row, Maybe, Statuses
  <2>3. GoingDownAfter(row[c]) = None /\ row[c].alertAfter = None
    BY <2>1 DEF NewRow, GoingDownAfter, GetGraceStart, NextExpected
  <2>4. QED BY <2>2, <2>3
<1>2. row \in [Checks -> GoodRow]
  BY <1>1 DEF Init
<1>3. QED
  BY <1>1, <1>2, StartAssumption DEF Init, TypeInv, AlertAfterExact

LEMMA TickGood == TypeInv /\ AlertAfterExact /\ Tick => TypeInv' /\ AlertAfterExact'
BY DEF Tick, TypeInv, AlertAfterExact

\* A flip whose dates and statuses are such can be added.
LEMMA AddFlipType ==
    ASSUME flips \subseteq Flip, lastFlip \in Nat,
           NEW c \in Checks, NEW created \in Nat, NEW old \in Statuses,
           NEW new \in Statuses, NEW reason \in Reasons,
           NEW processed \in {"no", "created", "claimed"},
           AddFlip(c, created, old, new, reason, processed)
    PROVE  flips' \subseteq Flip /\ lastFlip' \in Nat
BY DEF AddFlip, Flip

\* Writing one row: the others keep their alert_after, and this one is
\* either exact or noted as outdated.
LEMMA WriteExact ==
    ASSUME AlertAfterExact, row \in [Checks -> GoodRow],
           NEW c \in Checks, NEW r, row' = [row EXCEPT ![c] = r],
           \/ outdated' = outdated \ {c} /\ r.alertAfter = GoingDownAfter(r)
           \/ outdated' = outdated \cup {c}
    PROVE  AlertAfterExact'
<1> SUFFICES ASSUME NEW d \in Checks, d \notin outdated'
             PROVE  row'[d].alertAfter = GoingDownAfter(row'[d])
  <2>1. AlertAfterExact' =
          \A d \in Checks \ outdated' : row'[d].alertAfter = GoingDownAfter(row'[d])
    BY DEF AlertAfterExact, GoingDownAfter, GetGraceStart, NextExpected
  <2>2. QED BY <2>1
<1>1. CASE d = c
  BY <1>1
<1>2. CASE d # c
  <2>1. row'[d] = row[d] /\ d \notin outdated
    BY <1>2
  <2>2. QED BY <2>1 DEF AlertAfterExact
<1>3. QED BY <1>1, <1>2

LEMMA ReceivePingGood ==
    ASSUME TypeInv, AlertAfterExact,
           NEW c \in Checks, NEW action \in PingActions,
           NEW rid \in Maybe(Rids), ReceivePing(c, action, rid)
    PROVE  TypeInv' /\ AlertAfterExact'
<1> DEFINE done  == EffectiveAction(row[c], action)
           after == Pinged(row[c], done, rid, now)
<1>1. row[c] \in GoodRow /\ now \in Instants /\ done \in Actions
  BY OpsAssumption DEF TypeInv, EffectiveAction, Actions
<1>2. /\ after \in GoodRow
      /\ after.alertAfter = GoingDownAfter(after)
      /\ after.status # row[c].status => after.status \in {"up", "down"}
  BY <1>1, PingedType
<1>3. /\ row' = [row EXCEPT ![c] = after]
      /\ nPings' = [nPings EXCEPT ![c] = @ + 1]
      /\ pings' = pings \cup {[owner |-> c, n |-> nPings[c] + 1,
                               created |-> now, kind |-> done, rid |-> rid]}
      /\ IF after.status # row[c].status
         THEN AddFlip(c, now, row[c].status, after.status,
                      IF done = "fail" THEN "fail" ELSE "", "no")
         ELSE UNCHANGED <<flips, lastFlip>>
      /\ outdated' = outdated \ {c}
      /\ UNCHANGED <<now, table, req>>
  BY DEF ReceivePing
<1> HIDE DEF after, done
<1>4. flips' \subseteq Flip /\ lastFlip' \in Nat
  <2>1. row[c].status \in Statuses /\ after.status \in Statuses /\ now \in Nat
    BY <1>1, <1>2, InstantAssumption DEF GoodRow, Row
  <2>2. (IF done = "fail" THEN "fail" ELSE "") \in Reasons
    BY DEF Reasons
  <2>3. QED BY <1>3, <2>1, <2>2, AddFlipType DEF TypeInv
<1>5. pings' \subseteq Ping /\ nPings' \in [Checks -> Nat]
  <2>1. nPings[c] + 1 \in Nat
    BY DEF TypeInv
  <2>2. [owner |-> c, n |-> nPings[c] + 1, created |-> now, kind |-> done,
         rid |-> rid] \in Ping
    BY <1>1, <2>1 DEF Ping
  <2>3. pings \subseteq Ping /\ nPings \in [Checks -> Nat]
    BY DEF TypeInv
  <2>4. QED BY <1>3, <2>1, <2>2, <2>3
<1>6. TypeInv'
  BY <1>2, <1>3, <1>4, <1>5 DEF TypeInv
<1>7. AlertAfterExact'
  BY <1>2, <1>3, WriteExact DEF TypeInv
<1>8. QED BY <1>6, <1>7

LEMMA ReadCheckGood ==
    ASSUME TypeInv, AlertAfterExact, NEW q \in Requests, ReadCheck(q)
    PROVE  TypeInv' /\ AlertAfterExact'
<1>0. PICK op \in Ops, c \in table : \E input \in Inputs(op) :
        req' = [req EXCEPT ![q] =
                  IF Refused(op, row[c]) THEN Done
                  ELSE [step |-> FirstStep(op), op |-> op, c |-> c,
                        row |-> row[c], input |-> input, mark |-> <<0, 0>>]]
  BY DEF ReadCheck
<1>1. PICK input \in Inputs(op) :
        req' = [req EXCEPT ![q] =
                  IF Refused(op, row[c]) THEN Done
                  ELSE [step |-> FirstStep(op), op |-> op, c |-> c,
                        row |-> row[c], input |-> input, mark |-> <<0, 0>>]]
  BY <1>0
<1>2. op \in AllOps /\ c \in Checks /\ row[c] \in GoodRow
  BY OpsAssumption DEF TypeInv
<1> DEFINE r == [step |-> FirstStep(op), op |-> op, c |-> c,
                 row |-> row[c], input |-> input, mark |-> <<0, 0>>]
<1>3. /\ input \in Input
      /\ op = "timeout" => input.cfg \in Configs
      /\ op = "filter" => input.manual \in BOOLEAN
  BY <1>2 DEF Inputs, Input, Maybe, AllOps
<1>4. /\ FirstStep(op) \in ReqSteps
      /\ FirstStep(op) \in {"decide", "saveDown"} => op = "timeout"
      /\ FirstStep(op) = "flip" => op \in {"pause", "resume", "timeout"}
      /\ FirstStep(op) = "save" => op # "remove"
  BY <1>2 DEF FirstStep, ReqSteps, AllOps
<1>5. r \in GoodRequest
  BY <1>2, <1>3, <1>4 DEF GoodRequest, Request, GoodRow
<1>6. req' \in [Requests -> GoodRequest \cup {Idle, Done}]
  BY <1>1, <1>5 DEF TypeInv
<1>7. QED
  BY <1>6 DEF ReadCheck, TypeInv, AlertAfterExact

\* A request goes on to another of its steps.
LEMMA GotoGood ==
    ASSUME req \in [Requests -> GoodRequest \cup {Idle, Done}],
           NEW q \in Requests, NEW step \in ReqSteps, req[q] \in GoodRequest,
           step \in {"decide", "saveDown"} => req[q].op = "timeout",
           step = "flip" => req[q].op \in {"pause", "resume", "timeout"},
           step = "save" => req[q].op # "remove",
           Goto(q, step)
    PROVE  req' \in [Requests -> GoodRequest \cup {Idle, Done}]
<1>1. [req[q] EXCEPT !.step = step] \in GoodRequest
  BY DEF GoodRequest, Request
<1>2. QED BY <1>1 DEF Goto

LEMMA FinishGood ==
    ASSUME req \in [Requests -> GoodRequest \cup {Idle, Done}],
           NEW q \in Requests, Finish(q)
    PROVE  req' \in [Requests -> GoodRequest \cup {Idle, Done}]
BY DEF Finish

LEMMA DecideGood ==
    ASSUME TypeInv, AlertAfterExact, NEW q \in Requests, Decide(q)
    PROVE  TypeInv' /\ AlertAfterExact'
<1>1. req[q] \in GoodRequest /\ req[q].op = "timeout"
  BY GoodRequestSteps DEF Decide, GoodRequest
<1>2. req' \in [Requests -> GoodRequest \cup {Idle, Done}]
  BY <1>1, GotoGood, FinishGood DEF Decide, TypeInv, ReqSteps
<1>3. QED BY <1>2 DEF Decide, TypeInv, AlertAfterExact

LEMMA CreateFlipGood ==
    ASSUME TypeInv, AlertAfterExact, NEW q \in Requests, CreateFlip(q)
    PROVE  TypeInv' /\ AlertAfterExact'
<1>1. /\ req[q] \in GoodRequest
      /\ req[q].op \in {"pause", "resume", "timeout"}
      /\ req[q].c \in Checks
      /\ req[q].row.status \in Statuses
  BY GoodRequestSteps DEF CreateFlip, GoodRequest, Request, GoodRow, Row
<1>2. TargetStatus(req[q].op) \in Statuses
  BY <1>1 DEF TargetStatus, Statuses
<1>3. CASE req[q].c \in table
  <2>1. flips' \subseteq Flip /\ lastFlip' \in Nat
    <3>1. AddFlip(req[q].c, now, req[q].row.status, TargetStatus(req[q].op),
                  "", "created")
      BY <1>3 DEF CreateFlip
    <3>2. now \in Nat /\ "" \in Reasons
      BY InstantAssumption DEF TypeInv, Reasons
    <3>3. QED BY <1>1, <1>2, <3>1, <3>2, AddFlipType DEF TypeInv
  <2>2. req' \in [Requests -> GoodRequest \cup {Idle, Done}]
    <3>1. CASE req[q].op = "timeout"
      BY <1>1, <1>3, <3>1, GotoGood DEF CreateFlip, TypeInv, ReqSteps
    <3>2. CASE req[q].op # "timeout"
      BY <1>1, <1>3, <3>2, GotoGood DEF CreateFlip, TypeInv, ReqSteps
    <3>3. QED BY <3>1, <3>2
  <2>3. QED BY <2>1, <2>2 DEF CreateFlip, TypeInv, AlertAfterExact
<1>4. CASE req[q].c \notin table
  BY <1>4, FinishGood DEF CreateFlip, TypeInv, AlertAfterExact
<1>5. QED BY <1>3, <1>4

\* What a request writes into a row: a good row, with an exact alert_after
\* if the copy still agreed with the row.
LEMMA WrittenGood ==
    ASSUME TypeInv, NEW q \in Requests, req[q] \in GoodRequest,
           req[q].step = "save", NEW r \in GoodRow
    PROVE  /\ Written(q, r) \in GoodRow
           /\ req[q].op \in {"pause", "resume", "clear"} =>
                Written(q, r).alertAfter = GoingDownAfter(Written(q, r))
           /\ req[q].op \in {"timeout", "update"} /\ Agree(req[q].row, r) =>
                Written(q, r).alertAfter = GoingDownAfter(Written(q, r))
           /\ req[q].op = "filter" =>
                /\ Written(q, r).alertAfter = r.alertAfter
                /\ GoingDownAfter(Written(q, r)) = GoingDownAfter(r)
<1>1. /\ req[q].op \in AllOps \ {"remove"}
      /\ req[q].input \in Input
      /\ req[q].row \in GoodRow
  BY DEF GoodRequest, Request
<1>2. r \in Row
  BY DEF GoodRow
<1>3. CASE req[q].op = "pause"
  <2>1. Written(q, r) = [r EXCEPT !.status = "paused", !.lastStart = None,
                                  !.alertAfter = None]
    BY <1>3 DEF Written
  <2>2. Written(q, r) \in GoodRow
    BY <1>2, <2>1 DEF GoodRow, Row, Statuses, Maybe
  <2>3. GoingDownAfter(Written(q, r)) = None /\ Written(q, r).alertAfter = None
    BY <1>2, <2>1 DEF Row, GoingDownAfter, GetGraceStart, NextExpected
  <2>4. QED BY <1>3, <2>2, <2>3
<1>4. CASE req[q].op \in {"resume", "clear"}
  <2>1. Written(q, r) = [r EXCEPT !.status = "new", !.lastStart = None,
                                  !.lastPing = None, !.alertAfter = None]
    BY <1>4 DEF Written
  <2>2. Written(q, r) \in GoodRow
    BY <1>2, <2>1 DEF GoodRow, Row, Statuses, Maybe
  <2>3. GoingDownAfter(Written(q, r)) = None /\ Written(q, r).alertAfter = None
    BY <1>2, <2>1 DEF Row, GoingDownAfter, GetGraceStart, NextExpected
  <2>4. QED BY <1>4, <2>2, <2>3
<1>5. CASE req[q].op = "filter"
  <2>1. Written(q, r) = [r EXCEPT !.manualResume = req[q].input.manual]
    BY <1>5 DEF Written
  <2>2. req[q].input.manual \in BOOLEAN
    BY <1>5 DEF GoodRequest
  <2>3. Written(q, r) \in GoodRow
    BY <1>2, <2>1, <2>2 DEF GoodRow, Row
  <2>4. /\ GoingDownAfter(Written(q, r)) = GoingDownAfter(r)
        /\ Written(q, r).alertAfter = r.alertAfter
    BY <1>2, <2>1 DEF Row, GoingDownAfter, GetGraceStart, NextExpected
  <2>5. QED BY <1>5, <2>3, <2>4
<1>6. CASE req[q].op \in {"timeout", "update"}
  <2> DEFINE cfg == Given(req[q].input.cfg, r.cfg)
             manual == Given(req[q].input.manual, r.manualResume)
             own == [req[q].row EXCEPT !.cfg = Given(req[q].input.cfg,
                                                     req[q].row.cfg)]
             time == GoingDownAfter(own)
  <2>1. Reconfigured(q) = [own EXCEPT !.alertAfter = time]
    BY <1>1 DEF Reconfigured, GoodRow, Row
  <2>2. own \in GoodRow
    BY <1>1 DEF Given, Input, Maybe, GoodRow, Row
  <2>3. time \in Maybe(Nat) /\ Reconfigured(q).alertAfter = time
    BY <2>1, <2>2, GoingDownType, SameDeadline DEF GoodRow
  <2>4. Written(q, r) = [r EXCEPT !.cfg = cfg, !.manualResume = manual,
                                  !.alertAfter = time]
    BY <1>2, <1>6, <2>3 DEF Written, Row
  <2>5. cfg \in Configs /\ manual \in BOOLEAN
    BY <1>1, <1>2 DEF Given, Input, Maybe, Row
  <2> HIDE DEF time, cfg, manual
  <2>6. Written(q, r) \in GoodRow
    BY <1>2, <2>3, <2>4, <2>5 DEF GoodRow, Row
  <2>7. Written(q, r).alertAfter = time
    BY <1>2, <2>4 DEF Row
  <2>8. ASSUME Agree(req[q].row, r)
        PROVE  GoingDownAfter(Written(q, r)) = time
    <3>1. /\ Written(q, r).status = own.status
          /\ Written(q, r).lastPing = own.lastPing
          /\ Written(q, r).lastStart = own.lastStart
          /\ Written(q, r).cfg = own.cfg
      BY <1>1, <1>2, <2>4, <2>8 DEF Agree, Row, GoodRow, cfg
    <3>2. QED
      BY <3>1 DEF time, GoingDownAfter, GetGraceStart, NextExpected
  <2>9. QED BY <1>6, <2>6, <2>7, <2>8
<1>7. QED BY <1>1, <1>3, <1>4, <1>5, <1>6 DEF AllOps

LEMMA SaveGood ==
    ASSUME TypeInv, AlertAfterExact, NEW q \in Requests, Save(q)
    PROVE  TypeInv' /\ AlertAfterExact'
<1> DEFINE c == req[q].c
<1>1. /\ req[q] \in GoodRequest /\ req[q].step = "save" /\ c \in Checks
      /\ req[q].op \in AllOps \ {"remove"}
  BY GoodRequestSteps DEF Save, GoodRequest, Request
<1>2. CASE c \in table
  <2> DEFINE new == Written(q, row[c])
  <2>1. row[c] \in GoodRow
    BY <1>1 DEF TypeInv
  <2>2. row' = [row EXCEPT ![c] = new]
    BY <1>2 DEF Save
  <2>3. new \in GoodRow
    BY <1>1, <2>1, WrittenGood
  <2>4. req' \in [Requests -> GoodRequest \cup {Idle, Done}]
    BY <1>1, <1>2, GotoGood, FinishGood DEF Save, TypeInv, ReqSteps
  <2>5. outdated' \subseteq Checks
    BY <1>1, <1>2 DEF Save, TypeInv
  <2>6. AlertAfterExact'
    <3>1. CASE req[q].op = "filter"
      <4>1. /\ new.alertAfter = row[c].alertAfter
            /\ GoingDownAfter(new) = GoingDownAfter(row[c])
        BY <1>1, <2>1, <3>1, WrittenGood
      <4>2. outdated' = outdated
        BY <1>2, <3>1 DEF Save
      <4>3. CASE c \in outdated
        BY <1>1, <2>2, <4>2, <4>3, WriteExact DEF TypeInv
      <4>4. CASE c \notin outdated
        <5>1. new.alertAfter = GoingDownAfter(new)
          BY <1>1, <4>1, <4>4 DEF AlertAfterExact
        <5>2. outdated' = outdated \ {c}
          BY <4>2, <4>4
        <5>3. QED BY <1>1, <2>2, <5>1, <5>2, WriteExact DEF TypeInv
      <4>5. QED BY <4>3, <4>4
    <3>2. CASE req[q].op \in {"timeout", "update"} /\ ~Agree(req[q].row, row[c])
      <4>1. outdated' = outdated \cup {c}
        BY <1>2, <3>2 DEF Save
      <4>2. QED BY <1>1, <2>2, <4>1, WriteExact DEF TypeInv
    <3>3. CASE /\ req[q].op # "filter"
               /\ ~(/\ req[q].op \in {"timeout", "update"}
                    /\ ~Agree(req[q].row, row[c]))
      <4>1. outdated' = outdated \ {c}
        BY <1>2, <3>3 DEF Save
      <4>2. new.alertAfter = GoingDownAfter(new)
        BY <1>1, <2>1, <3>3, WrittenGood DEF AllOps
      <4>3. QED BY <1>1, <2>2, <4>1, <4>2, WriteExact DEF TypeInv
    <3>4. QED BY <3>1, <3>2, <3>3
  <2>7. TypeInv'
    BY <1>1, <2>2, <2>3, <2>4, <2>5 DEF Save, TypeInv
  <2>8. QED BY <2>6, <2>7
<1>3. CASE c \notin table
  BY <1>3, FinishGood DEF Save, TypeInv, AlertAfterExact
<1>4. QED BY <1>2, <1>3

LEMMA SaveDownGood ==
    ASSUME TypeInv, AlertAfterExact, NEW q \in Requests, SaveDown(q)
    PROVE  TypeInv' /\ AlertAfterExact'
<1> DEFINE c == req[q].c
<1>1. /\ req[q] \in GoodRequest /\ c \in Checks
      /\ req[q].input.cfg \in Configs
  BY GoodRequestSteps DEF SaveDown, GoodRequest, Request
<1>2. req' \in [Requests -> GoodRequest \cup {Idle, Done}]
  BY FinishGood DEF SaveDown, TypeInv
<1>3. CASE c \in table
  <2> DEFINE new == [row[c] EXCEPT !.cfg = req[q].input.cfg,
                                   !.alertAfter = None, !.status = "down"]
  <2>1. row[c] \in GoodRow /\ row[c] \in Row
    BY <1>1 DEF TypeInv, GoodRow
  <2>2. row' = [row EXCEPT ![c] = new] /\ outdated' = outdated \ {c}
    BY <1>1, <1>3, <2>1 DEF SaveDown, TypeInv, Row
  <2>3. new \in GoodRow
    BY <1>1, <2>1 DEF GoodRow, Row, Statuses, Maybe
  <2>4. new.alertAfter = None /\ GoingDownAfter(new) = None
    BY <2>1 DEF Row, GoingDownAfter, GetGraceStart, NextExpected
  <2> HIDE DEF new
  <2>5. AlertAfterExact'
    BY <1>1, <2>2, <2>4, WriteExact DEF TypeInv
  <2>6. TypeInv'
    BY <1>1, <1>2, <2>2, <2>3 DEF SaveDown, TypeInv
  <2>7. QED BY <2>5, <2>6
<1>4. CASE c \notin table
  BY <1>2, <1>4 DEF SaveDown, TypeInv, AlertAfterExact
<1>5. QED BY <1>3, <1>4

LEMMA ClearGood ==
    ASSUME TypeInv, AlertAfterExact, NEW q \in Requests,
           ClearPings(q) \/ ClearFlips(q)
    PROVE  TypeInv' /\ AlertAfterExact'
<1>1. req[q] \in GoodRequest
  BY GoodRequestSteps DEF ClearPings, ClearFlips
<1>2. req' \in [Requests -> GoodRequest \cup {Idle, Done}]
  BY <1>1, GotoGood, FinishGood DEF ClearPings, ClearFlips, TypeInv, ReqSteps
<1>3. QED
  BY <1>2 DEF ClearPings, ClearFlips, TypeInv, AlertAfterExact

LEMMA RenameGood ==
    ASSUME TypeInv, AlertAfterExact, NEW q \in Requests, Rename(q)
    PROVE  TypeInv' /\ AlertAfterExact'
<1> DEFINE c == req[q].c
<1>1. req[q] \in GoodRequest /\ c \in Checks
  BY GoodRequestSteps DEF Rename, GoodRequest, Request
<1>2. req' \in [Requests -> GoodRequest \cup {Idle, Done}]
  BY <1>1, GotoGood DEF Rename, TypeInv, ReqSteps
<1>3. CASE c \in table
  <2> DEFINE new == [row[c] EXCEPT !.renamed = TRUE]
  <2>1. row[c] \in GoodRow /\ row[c] \in Row
    BY <1>1 DEF TypeInv, GoodRow
  <2>2. row' = [row EXCEPT ![c] = new] /\ outdated' = outdated
    BY <1>1, <1>3, <2>1 DEF Rename, TypeInv, Row
  <2>3. /\ new \in GoodRow
        /\ new.alertAfter = row[c].alertAfter
        /\ GoingDownAfter(new) = GoingDownAfter(row[c])
    BY <2>1 DEF GoodRow, Row, GoingDownAfter, GetGraceStart, NextExpected
  <2> HIDE DEF new
  <2>4. AlertAfterExact'
    <3>1. CASE c \in outdated
      <4>1. outdated' = outdated \cup {c}
        BY <2>2, <3>1
      <4>2. QED BY <1>1, <2>2, <4>1, WriteExact DEF TypeInv
    <3>2. CASE c \notin outdated
      <4>1. outdated' = outdated \ {c} /\ new.alertAfter = GoingDownAfter(new)
        BY <1>1, <2>2, <2>3, <3>2 DEF AlertAfterExact
      <4>2. QED BY <1>1, <2>2, <4>1, WriteExact DEF TypeInv
    <3>3. QED BY <3>1, <3>2
  <2>5. TypeInv'
    BY <1>1, <1>2, <2>2, <2>3 DEF Rename, TypeInv
  <2>6. QED BY <2>4, <2>5
<1>4. CASE c \notin table
  BY <1>2, <1>4 DEF Rename, TypeInv, AlertAfterExact
<1>5. QED BY <1>3, <1>4

LEMMA DeleteGood ==
    ASSUME TypeInv, AlertAfterExact, NEW q \in Requests,
           Collect(q) \/ Delete(q) \/ Abort(q)
    PROVE  TypeInv' /\ AlertAfterExact'
<1>1. req[q] \in GoodRequest /\ req[q].c \in Checks
  BY GoodRequestSteps DEF Collect, Delete, Abort, ReqSteps, GoodRequest, Request
<1>2. req' \in [Requests -> GoodRequest \cup {Idle, Done}]
  <2>1. CASE Collect(q)
    <3> DEFINE r == [req[q] EXCEPT !.mark = <<nPings[req[q].c], lastFlip>>,
                          !.step = IF req[q].step = "collect"
                                   THEN "delete" ELSE "deleteAgain"]
    <3>1. <<nPings[req[q].c], lastFlip>> \in Nat \X Nat
      BY <1>1 DEF TypeInv
    <3>2. r \in GoodRequest
      <4>1. r = [req[q] EXCEPT !.mark = r.mark, !.step = r.step]
        BY <1>1 DEF GoodRequest, Request
      <4>2. r.mark \in Nat \X Nat /\ r.step \in {"delete", "deleteAgain"}
        BY <1>1, <3>1 DEF GoodRequest, Request
      <4> HIDE DEF r
      <4>3. r.step \in ReqSteps
        BY <4>2 DEF ReqSteps
      <4>4. r \in Request /\ r.op = req[q].op /\ r.row = req[q].row
            /\ r.input = req[q].input
        BY <1>1, <4>1, <4>2, <4>3 DEF GoodRequest, Request
      <4>5. QED BY <1>1, <4>2, <4>4 DEF GoodRequest
    <3>3. req' = [req EXCEPT ![q] = r]
      BY <1>1, <2>1 DEF Collect, TypeInv, GoodRequest, Request
    <3>4. QED BY <3>2, <3>3 DEF TypeInv
  <2>2. CASE Delete(q)
    BY <1>1, <2>2, GotoGood, FinishGood DEF Delete, TypeInv, ReqSteps
  <2>3. CASE Abort(q)
    BY <2>3, FinishGood DEF Abort, TypeInv
  <2>4. QED BY <2>1, <2>2, <2>3
<1>3. QED
  BY <1>2 DEF Collect, Delete, Abort, TypeInv, AlertAfterExact

\* No step of pings, requests or the clock breaks the invariant.
LEMMA CheckStepGood ==
    TypeInv /\ AlertAfterExact /\ CheckStep => TypeInv' /\ AlertAfterExact'
<1> SUFFICES ASSUME TypeInv, AlertAfterExact, CheckStep
             PROVE  TypeInv' /\ AlertAfterExact'
  OBVIOUS
<1>1. CASE Tick
  BY <1>1, TickGood
<1>2. ASSUME NEW c \in Checks, NEW action \in PingActions,
             NEW rid \in Maybe(Rids), ReceivePing(c, action, rid)
      PROVE  TypeInv' /\ AlertAfterExact'
  BY <1>2, ReceivePingGood
<1>3. ASSUME NEW q \in Requests, ReadCheck(q) \/ RequestStep(q) \/ Abort(q)
      PROVE  TypeInv' /\ AlertAfterExact'
  BY <1>3, ReadCheckGood, DecideGood, CreateFlipGood, SaveGood, SaveDownGood,
     ClearGood, RenameGood, DeleteGood
  DEF RequestStep
<1>4. QED BY <1>1, <1>2, <1>3 DEF CheckStep

LEMMA StutterGood ==
    TypeInv /\ AlertAfterExact /\ UNCHANGED checkVars
      => TypeInv' /\ AlertAfterExact'
BY DEF checkVars, TypeInv, AlertAfterExact

LEMMA TypeInvImplies == TypeInv => TypeOK /\ UpHasPing
BY DEF TypeInv, TypeOK, UpHasPing, GoodRow, GoodRequest, Idle, Done, ReqSteps

LEMMA InvariantHolds == Spec => [](TypeInv /\ AlertAfterExact)
<1>1. Init => TypeInv /\ AlertAfterExact
  BY InitGood
<1>2. TypeInv /\ AlertAfterExact /\ [CheckStep]_checkVars
        => TypeInv' /\ AlertAfterExact'
  BY CheckStepGood, StutterGood
<1>3. QED BY <1>1, <1>2, PTL DEF Spec

\* Every reachable state of the tables is well typed.
THEOREM TypeCorrect == Spec => []TypeOK
BY InvariantHolds, TypeInvImplies, PTL

\* get_grace_start never trips over a check that is up but was never pinged,
\* neither on a row nor on the copy a request holds.
THEOREM GraceStartDefined == Spec => []UpHasPing
BY InvariantHolds, TypeInvImplies, PTL

\* alert_after is the time the row goes down after, for every interleaving of
\* pings and requests in which no outdated copy was saved.
THEOREM AlertAfterCorrect == Spec => []AlertAfterExact
BY InvariantHolds, PTL
=============================================================================
