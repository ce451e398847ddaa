--------------------------- MODULE ReportsProofs ----------------------------
(***************************************************************************)
(* Theorems about module Reports, for any number of profiles, checks,      *)
(* projects, processes and requests.                                       *)
(***************************************************************************)
EXTENDS Reports, TLAPS

-----------------------------------------------------------------------------
(* Types, and what processes and requests know of their copies.            *)

Busy == {"claimReport", "sendReport", "claimNag", "sendNag", "saveNag"}

Held == [id : Profiles, row : Profile, at : Nat]

\* A process that is at work on a profile holds one that was due.
HeldKnown(s) ==
    /\ rpc[s] \in Busy => held[s] \in Held
    /\ rpc[s] = "claimReport" /\ held[s].row.nextReport # None
          => held[s].row.nextReport < now
    /\ rpc[s] = "sendReport"
          => held[s].row.nextReport \in Nat
    /\ rpc[s] \in {"claimNag", "sendNag"}
          => /\ held[s].row.nagPeriod \in NagPeriods
             /\ held[s].row.nextNag \in Nat
             /\ held[s].row.nextNag < held[s].at
             /\ held[s].at <= now

\* The copy of a request is what it has read, but for what the form sets.
FormKnown(q) ==
    LET r == req[q] IN
    r.step \in QSteps =>
      /\ r \in Serving
      /\ r.op # "settings" => r.row = r.read
      /\ r.op = "settings" => /\ r.row.reports = r.input.reports
                              /\ r.row.nagPeriod = r.input.nagPeriod
      /\ r.row.nextNag \in {r.read.nextNag, None}
      /\ r.row.nagPeriod = NoNag /\ r.read.nagPeriod # NoNag
            => r.row.nextNag = None
      /\ r.step # "save" => r.op = "settings" /\ r.row.nagPeriod # NoNag

RInv ==
    /\ RTypeOK
    /\ \A s \in Reporters : HeldKnown(s)
    /\ \A q \in Requests : FormKnown(q)

LEMMA RInitGood == RInit => RInv
<1> SUFFICES ASSUME RInit PROVE RInv
  OBVIOUS
<1>1. profile \in [Profiles -> Profile]
  BY RStartAssumption DEF RInit
<1>2. RTypeOK
  BY <1>1, RAccessAssumption
  DEF RInit, RTypeOK, RSteps, Waiting, Serving
<1>3. \A s \in Reporters : HeldKnown(s)
  BY DEF RInit, HeldKnown, Busy
<1>4. \A q \in Requests : FormKnown(q)
  BY DEF RInit, FormKnown, Waiting, QSteps
<1>5. QED BY <1>2, <1>3, <1>4 DEF RInv

\* Steps that leave the copies alone.
LEMMA CopiesStay ==
    ASSUME RInv, RTypeOK', UNCHANGED <<rpc, held, req>>, now <= now'
    PROVE  RInv'
<1>1. ASSUME NEW s \in Reporters PROVE HeldKnown(s)'
  <2>1. HeldKnown(s) /\ rpc'[s] = rpc[s] /\ held'[s] = held[s]
    BY DEF RInv
  <2>2. now \in Nat /\ now' \in Nat
    BY DEF RInv, RTypeOK
  <2>3. QED BY <2>1, <2>2 DEF HeldKnown, Busy, Held, Profile, Maybe
<1>2. ASSUME NEW q \in Requests PROVE FormKnown(q)'
  BY DEF RInv, FormKnown
<1>3. QED BY <1>1, <1>2 DEF RInv

\* What update_next_nag_date makes of a date, and writes.
LEMMA NagDateType ==
    ASSUME now \in Nat, NEW copy \in Profile, NEW anyDown \in BOOLEAN
    PROVE  LET date == NagDate(copy, anyDown) IN
           \/ date = copy.nextNag /\ date \in Maybe(Nat)
           \/ date = None
           \/ \E n \in NagPeriods : date = now + n /\ date \in Nat
<1>1. /\ copy.nextNag \in Maybe(Nat)
      /\ copy.nagPeriod # NoNag => copy.nagPeriod \in NagPeriods
  BY DEF Profile
<1>2. CASE anyDown /\ copy.nextNag = None /\ copy.nagPeriod # NoNag
  <2>1. NagDate(copy, anyDown) = now + copy.nagPeriod
    BY <1>2 DEF NagDate
  <2>2. copy.nagPeriod \in NagPeriods /\ copy.nagPeriod \in Nat
    BY <1>1, <1>2, RConfigAssumption
  <2>3. QED BY <2>1, <2>2
<1>3. CASE ~(anyDown /\ copy.nextNag = None /\ copy.nagPeriod # NoNag)
  <2>1. NagDate(copy, anyDown) \in {None, copy.nextNag}
    BY <1>3 DEF NagDate
  <2>2. QED BY <1>1, <2>1
<1>4. QED BY <1>2, <1>3

LEMMA SavedNagDateType ==
    ASSUME now \in Nat, profile \in [Profiles -> Profile],
           NEW p \in Profiles, NEW copy \in Profile, NEW anyDown \in BOOLEAN
    PROVE  SavedNagDate(p, copy, anyDown) \in [Profiles -> Profile]
<1>1. NagDate(copy, anyDown) \in Maybe(Nat)
  BY NagDateType DEF Maybe
<1>2. ASSUME NEW d \in Maybe(Nat)
      PROVE  [profile EXCEPT ![p].nextNag = d] \in [Profiles -> Profile]
  <2>1. [profile[p] EXCEPT !.nextNag = d] \in Profile
    BY DEF Profile
  <2>2. QED BY <2>1
<1>3. QED BY <1>1, <1>2 DEF SavedNagDate

LEMMA CheckAndUpdaterTypes ==
    ASSUME RInv,
           \/ RTick \/ (\E c \in Checks : CheckChange(c))
           \/ (\E u \in Updaters : UpdaterStep(u))
    PROVE  RInv'
<1>0. RTypeOK /\ now \in Nat
  BY DEF RInv, RTypeOK
<1>1. CASE RTick
  <2>1. RTypeOK'
    BY <1>0, <1>1 DEF RTick, RTypeOK, checkVars, reportVars
  <2>2. now <= now' /\ UNCHANGED <<rpc, held, req>>
    BY <1>0, <1>1 DEF RTick, reportVars
  <2>3. QED BY <2>1, <2>2, CopiesStay
<1>2. ASSUME NEW c \in Checks, CheckChange(c) PROVE RInv'
  <2>1. /\ UNCHANGED <<now, profile, updater, req, reportVars, mails, reverted>>
        /\ changes' \in Nat
        /\ status' \in [Checks -> {"up", "late", "down"}]
    <3>1. ASSUME NEW new \in {"up", "late", "down"}, Change(c, new)
          PROVE  /\ UNCHANGED <<now, profile, updater, req, reportVars, mails,
                                reverted>>
                 /\ changes' \in Nat
                 /\ status' \in [Checks -> {"up", "late", "down"}]
      <4>1. status' = [status EXCEPT ![c] = new] /\ changes' = changes + 1
        BY <3>1 DEF Change
      <4>2. QED BY <1>0, <3>1, <4>1 DEF Change, RTypeOK
    <3>2. QED
      BY <1>2, <3>1 DEF CheckChange, GetLate, Recover, GoDown, ComeUp
  <2>2. owed' \in [Projects -> Nat]
    BY <1>0, <1>2, RAccessAssumption
    DEF CheckChange, GetLate, Recover, GoDown, ComeUp, Told, RTypeOK
  <2>3. RTypeOK'
    BY <1>0, <2>1, <2>2 DEF RTypeOK, reportVars
  <2>4. QED BY <1>0, <2>1, <2>3, CopiesStay DEF reportVars
<1>3. ASSUME NEW u \in Updaters, UpdaterStep(u) PROVE RInv'
  <2> DEFINE Work == [copy : Copy, looked : BOOLEAN, anyDown : BOOLEAN]
  <2>1. UNCHANGED <<now, checkVars, req, reportVars, mails, reverted>>
    BY <1>3 DEF UpdaterStep, FetchProfiles, LookAtChecks, WriteNagDate
  <2>2. /\ owed' \in [Projects -> Nat]
        /\ updater' \in [Updaters -> SUBSET Work]
        /\ profile' \in [Profiles -> Profile]
    <3>1. CASE FetchProfiles(u)
      <4>1. PICK j \in Projects :
              /\ owed[j] > 0
              /\ owed' = [owed EXCEPT ![j] = @ - 1]
              /\ updater' = [updater EXCEPT ![u] =
                   {[copy |-> [id |-> p, row |-> profile[p]],
                     looked |-> FALSE, anyDown |-> FALSE] :
                     p \in {m \in Members[j] : profile[m].nagPeriod # NoNag}}]
        BY <3>1 DEF FetchProfiles
      <4>2. Members[j] \subseteq Profiles
        BY RAccessAssumption
      <4>3. {[copy |-> [id |-> p, row |-> profile[p]],
              looked |-> FALSE, anyDown |-> FALSE] :
              p \in {m \in Members[j] : profile[m].nagPeriod # NoNag}}
            \subseteq Work
        <5>1. ASSUME NEW p \in Profiles
              PROVE  [copy |-> [id |-> p, row |-> profile[p]],
                      looked |-> FALSE, anyDown |-> FALSE] \in Work
          BY <1>0 DEF RTypeOK, Copy
        <5> HIDE DEF Work
        <5>2. QED BY <4>2, <5>1
      <4>4. updater' \in [Updaters -> SUBSET Work]
        BY <1>0, <4>1, <4>3 DEF RTypeOK
      <4>5. owed' \in [Projects -> Nat]
        BY <1>0, <4>1 DEF RTypeOK
      <4>6. QED BY <1>0, <3>1, <4>4, <4>5 DEF FetchProfiles, RTypeOK
    <3>2. CASE LookAtChecks(u)
      <4>1. PICK w \in updater[u] :
              updater' = [updater EXCEPT ![u] = (@ \ {w}) \cup
                {[w EXCEPT !.looked = TRUE, !.anyDown = AnyDown(w.copy.id)]}]
        BY <3>2 DEF LookAtChecks
      <4>2. AnyDown(w.copy.id) \in BOOLEAN
        BY DEF AnyDown
      <4>3. w \in Work /\ updater[u] \subseteq Work
        BY <1>0 DEF RTypeOK
      <4> HIDE DEF AnyDown
      <4>4. [w EXCEPT !.looked = TRUE, !.anyDown = AnyDown(w.copy.id)] \in Work
        BY <4>2, <4>3
      <4>5. updater' \in [Updaters -> SUBSET Work]
        BY <1>0, <4>1, <4>3, <4>4 DEF RTypeOK
      <4>6. QED BY <1>0, <3>2, <4>5 DEF LookAtChecks, RTypeOK
    <3>3. CASE WriteNagDate(u)
      <4>1. PICK w \in updater[u] :
              /\ profile' = SavedNagDate(w.copy.id, w.copy.row, w.anyDown)
              /\ updater' = [updater EXCEPT ![u] = @ \ {w}]
        BY <3>3 DEF WriteNagDate
      <4>2. w.copy.id \in Profiles /\ w.copy.row \in Profile
        BY <1>0 DEF RTypeOK, Copy
      <4>3. profile' \in [Profiles -> Profile]
        BY <1>0, <4>1, <4>2, SavedNagDateType DEF RTypeOK
      <4>4. updater' \in [Updaters -> SUBSET Work]
        BY <1>0, <4>1 DEF RTypeOK
      <4>5. QED BY <1>0, <3>3, <4>3, <4>4 DEF WriteNagDate, RTypeOK
    <3>4. QED BY <1>3, <3>1, <3>2, <3>3 DEF UpdaterStep
  <2>3. RTypeOK'
    BY <1>0, <2>1, <2>2 DEF RTypeOK, checkVars, reportVars
  <2>4. QED BY <1>0, <2>1, <2>3, CopiesStay DEF reportVars
<1>4. QED BY <1>1, <1>2, <1>3

\* Steps of a request that end in a state FormKnown describes.
LEMMA RequestTypes ==
    ASSUME RInv, NEW q \in Requests, RRequestStep(q)
    PROVE  RInv'
<1>0. /\ RTypeOK /\ now \in Nat /\ profile \in [Profiles -> Profile]
      /\ req \in [Requests -> Serving \cup {Waiting, Served}]
      /\ FormKnown(q)
  BY DEF RInv, RTypeOK
<1>1. UNCHANGED <<now, checkVars, owed, updater, reportVars, mails>>
  BY DEF RRequestStep, ReadProfile, LookForForm, NagForForm, SaveProfile
<1>2. SUFFICES ASSUME (/\ profile' \in [Profiles -> Profile]
                       /\ reverted' \subseteq Profiles
                       /\ \E r \in Serving \cup {Served} :
                            req' = [req EXCEPT ![q] = r] /\ FormKnown(q)')
                      => RInv'
               PROVE  RInv'
  <2>1. ASSUME profile' \in [Profiles -> Profile], reverted' \subseteq Profiles,
               NEW r \in Serving \cup {Served},
               req' = [req EXCEPT ![q] = r], FormKnown(q)'
        PROVE  RInv'
    <3>1. RTypeOK'
      BY <1>0, <1>1, <2>1 DEF RTypeOK, checkVars, reportVars
    <3>2. ASSUME NEW s \in Reporters PROVE HeldKnown(s)'
      BY <1>1 DEF RInv, HeldKnown, reportVars
    <3>3. ASSUME NEW t \in Requests PROVE FormKnown(t)'
      <4>1. t # q => req'[t] = req[t]
        BY <1>0, <2>1
      <4>2. QED BY <2>1, <4>1 DEF RInv, FormKnown
    <3>4. QED BY <3>1, <3>2, <3>3 DEF RInv
  <2>2. QED BY <2>1
<1>3. CASE ReadProfile(q)
  <2>1. PICK op \in ROps, p \in Profiles, input \in Input :
          LET new == input.nagPeriod # profile[p].nagPeriod
              row == [profile[p] EXCEPT
                        !.reports   = input.reports,
                        !.nagPeriod = input.nagPeriod,
                        !.nextNag   = IF new /\ input.nagPeriod = NoNag
                                      THEN None ELSE @]
          IN
          /\ op # "settings" => input = [reports |-> FALSE, nagPeriod |-> NoNag]
          /\ req' = [req EXCEPT ![q] =
               [step |-> IF op = "settings" /\ new /\ input.nagPeriod # NoNag
                         THEN "look" ELSE "save",
                op |-> op, id |-> p, read |-> profile[p],
                row |-> IF op = "settings" THEN row ELSE profile[p],
                input |-> input, anyDown |-> FALSE]]
    BY <1>3 DEF ReadProfile
  <2> DEFINE new == input.nagPeriod # profile[p].nagPeriod
             row == [profile[p] EXCEPT
                        !.reports   = input.reports,
                        !.nagPeriod = input.nagPeriod,
                        !.nextNag   = IF new /\ input.nagPeriod = NoNag
                                      THEN None ELSE @]
             step == IF op = "settings" /\ new /\ input.nagPeriod # NoNag
                     THEN "look" ELSE "save"
             r == [step |-> step, op |-> op, id |-> p, read |-> profile[p],
                   row |-> IF op = "settings" THEN row ELSE profile[p],
                   input |-> input, anyDown |-> FALSE]
  <2>2. op \in AllROps /\ profile[p] \in Profile
    BY <1>0, RConfigAssumption
  <2>3. /\ row \in Profile
        /\ row.reports = input.reports /\ row.nagPeriod = input.nagPeriod
        /\ row.nextNag = IF new /\ input.nagPeriod = NoNag
                         THEN None ELSE profile[p].nextNag
    BY <2>2 DEF Input, Profile, Maybe
  <2>4. step \in QSteps
    BY DEF QSteps
  <2>5. req' = [req EXCEPT ![q] = r]
    BY <2>1
  <2>6. r \in Serving
    <3> HIDE DEF row, step
    <3>1. QED BY <2>2, <2>3, <2>4 DEF Serving
  <2>7. FormKnown(q)'
    <3> HIDE DEF row
    <3>1. req'[q] = r
      BY <1>0, <2>5
    <3>2. QED BY <2>2, <2>3, <2>6, <3>1 DEF FormKnown
  <2>8. profile' = profile /\ reverted' = reverted
    BY <1>3 DEF ReadProfile
  <2> HIDE DEF r
  <2>9. QED BY <1>0, <1>2, <2>5, <2>6, <2>7, <2>8 DEF RTypeOK
<1>4. CASE LookForForm(q)
  <2> DEFINE r == [req[q] EXCEPT !.step = "nag", !.anyDown = AnyDown(req[q].id)]
  <2>1. /\ req[q].step = "look" /\ req' = [req EXCEPT ![q] = r]
        /\ profile' = profile /\ reverted' = reverted
    BY <1>0, <1>4 DEF LookForForm
  <2>2. req[q] \in Serving
    BY <1>0, <2>1 DEF FormKnown, QSteps
  <2>3. r \in Serving
    <3>1. AnyDown(req[q].id) \in BOOLEAN
      BY DEF AnyDown
    <3> HIDE DEF AnyDown
    <3>2. QED BY <2>2, <3>1 DEF Serving, QSteps
  <2>4. FormKnown(q)'
    <3>1. req'[q] = r
      BY <1>0, <2>1
    <3>2. /\ r.step = "nag" /\ r.op = req[q].op /\ r.row = req[q].row
          /\ r.read = req[q].read /\ r.input = req[q].input
      BY <2>2 DEF Serving
    <3> HIDE DEF r
    <3>3. QED BY <1>0, <2>1, <2>3, <3>1, <3>2 DEF FormKnown, QSteps
  <2> HIDE DEF r
  <2>5. QED BY <1>0, <1>2, <2>1, <2>3, <2>4 DEF RTypeOK
<1>5. CASE NagForForm(q)
  <2> DEFINE date == NagDate(req[q].row, req[q].anyDown)
             r == [req[q] EXCEPT !.step = "save", !.row.nextNag = date,
                                 !.read.nextNag = date]
  <2>1. /\ req[q].step = "nag" /\ req' = [req EXCEPT ![q] = r]
        /\ profile' = SavedNagDate(req[q].id, req[q].row, req[q].anyDown)
        /\ reverted' = reverted
    BY <1>0, <1>5 DEF NagForForm
  <2>2. req[q] \in Serving
    BY <1>0, <2>1 DEF FormKnown, QSteps
  <2>3. /\ req[q].id \in Profiles /\ req[q].row \in Profile
        /\ req[q].read \in Profile /\ req[q].anyDown \in BOOLEAN
    BY <2>2 DEF Serving
  <2>4. date \in Maybe(Nat)
    BY <1>0, <2>3, NagDateType DEF Maybe
  <2> HIDE DEF date
  <2>5. /\ r \in Serving
        /\ r.step = "save" /\ r.op = req[q].op /\ r.input = req[q].input
        /\ r.row.reports = req[q].row.reports
        /\ r.row.nagPeriod = req[q].row.nagPeriod
        /\ r.row.nextNag = r.read.nextNag
    BY <2>2, <2>3, <2>4 DEF Serving, Profile, QSteps
  <2>6. FormKnown(q)'
    <3>1. req'[q] = r
      BY <1>0, <2>1
    <3> HIDE DEF r
    <3>2. req[q].op = "settings" /\ req[q].row.nagPeriod # NoNag
      BY <1>0, <2>1 DEF FormKnown, QSteps
    <3>3. QED BY <1>0, <2>1, <2>5, <3>1, <3>2 DEF FormKnown, QSteps
  <2>7. profile' \in [Profiles -> Profile]
    BY <1>0, <2>1, <2>3, SavedNagDateType
  <2> HIDE DEF r
  <2>8. QED BY <1>0, <1>2, <2>1, <2>5, <2>6, <2>7 DEF RTypeOK
<1>6. CASE SaveProfile(q)
  <2>1. req[q].step = "save" /\ req' = [req EXCEPT ![q] = Served]
    BY <1>6 DEF SaveProfile
  <2>2. req[q] \in Serving
    BY <1>0, <2>1 DEF FormKnown, QSteps
  <2>3. /\ req[q].id \in Profiles /\ req[q].row \in Profile
        /\ req[q].read \in Profile
    BY <2>2 DEF Serving
  <2>4. FormKnown(q)'
    BY <1>0, <2>1 DEF FormKnown, Served, QSteps
  <2>5. \E read, new \in Profile, set \in SUBSET Columns :
          Overwrite(req[q].id, read, new, set)
    <3>1. CASE SaveForm(q)
      <4>1. PICK date \in ReportDates :
              Overwrite(req[q].id, req[q].read,
                  [req[q].row EXCEPT !.nextReport =
                     IF req[q].input.reports THEN date ELSE None],
                  SetByForm(q))
        BY <3>1 DEF SaveForm
      <4>2. date \in Nat
        BY <1>0, RConfigAssumption DEF ReportDates
      <4>3. [req[q].row EXCEPT !.nextReport =
               IF req[q].input.reports THEN date ELSE None] \in Profile
        BY <2>3, <4>2 DEF Profile, Maybe
      <4>4. SetByForm(q) \subseteq Columns
        BY DEF SetByForm, Columns
      <4>5. QED BY <2>3, <4>1, <4>3, <4>4
    <3>2. CASE Overwrite(req[q].id, req[q].read, Unsubscribed(req[q].row), Columns)
      <4>1. Unsubscribed(req[q].row) \in Profile
        BY <2>3 DEF Unsubscribed, Profile, Maybe
      <4>2. QED BY <2>3, <3>2, <4>1
    <3>3. CASE Overwrite(req[q].id, req[q].read, req[q].row, {})
      BY <2>3, <3>3
    <3>4. QED BY <1>6, <3>1, <3>2, <3>3 DEF SaveProfile
  <2>6. profile' \in [Profiles -> Profile] /\ reverted' \subseteq Profiles
    BY <1>0, <2>3, <2>5 DEF Overwrite, RTypeOK
  <2>7. QED BY <1>0, <1>2, <2>1, <2>4, <2>6
<1>7. QED BY <1>3, <1>4, <1>5, <1>6 DEF RRequestStep

\* A step of one process: the others keep what they hold.
LEMMA OthersKnown ==
    ASSUME RInv, NEW s \in Reporters, now' = now, req' = req,
           NEW step \in RSteps, NEW h \in Held \cup {None},
           rpc' = [rpc EXCEPT ![s] = step], held' = [held EXCEPT ![s] = h],
           HeldKnown(s)', mails' \in Seq(Mail), reverted' \subseteq Profiles,
           profile' \in [Profiles -> Profile], stops' \in Nat,
           shutdown' \in [Reporters -> BOOLEAN],
           UNCHANGED <<checkVars, owed, updater>>
    PROVE  RInv'
<1>1. RTypeOK
  BY DEF RInv
<1>2. rpc' \in [Reporters -> RSteps]
  BY <1>1 DEF RTypeOK
<1>3. held' \in [Reporters -> Held \cup {None}]
  BY <1>1 DEF RTypeOK, Held
<1>4. RTypeOK'
  BY <1>1, <1>2, <1>3 DEF RTypeOK, checkVars, Held
<1>5. ASSUME NEW t \in Reporters PROVE HeldKnown(t)'
  <2>1. t # s => rpc'[t] = rpc[t] /\ held'[t] = held[t]
    BY <1>1 DEF RTypeOK
  <2>2. HeldKnown(t)
    BY DEF RInv
  <2>3. QED BY <2>1, <2>2 DEF HeldKnown
<1>6. \A q \in Requests : FormKnown(q)'
  BY DEF RInv, FormKnown
<1>7. QED BY <1>4, <1>5, <1>6 DEF RInv

LEMMA HeldOf ==
    ASSUME RInv, NEW s \in Reporters, rpc[s] \in Busy
    PROVE  /\ held[s] \in Held /\ held[s].id \in Profiles
           /\ held[s].row \in Profile /\ held[s].at \in Nat
BY DEF RInv, HeldKnown, Held

\* Saving a copy changes one row, and may revert it.
LEMMA OverwriteTypes ==
    ASSUME RTypeOK, NEW p \in Profiles, NEW read, NEW new \in Profile, NEW set,
           Overwrite(p, read, new, set)
    PROVE  profile' \in [Profiles -> Profile] /\ reverted' \subseteq Profiles
BY DEF Overwrite, RTypeOK

LEMMA ReporterTypes ==
    ASSUME RInv, NEW s \in Reporters, RLoop(s) \/ ROnSignal(s) \/ RCrash(s)
    PROVE  RInv'
<1>0. /\ RTypeOK /\ now \in Nat /\ profile \in [Profiles -> Profile]
      /\ rpc \in [Reporters -> RSteps]
      /\ held \in [Reporters -> Held \cup {None}]
      /\ shutdown \in [Reporters -> BOOLEAN] /\ stops \in Nat
      /\ mails \in Seq(Mail) /\ reverted \subseteq Profiles
      /\ HeldKnown(s)
  BY DEF RInv, RTypeOK, Held
<1>1. UNCHANGED <<now, checkVars, owed, updater, req>>
  BY DEF RLoop, ROnSignal, RCrash, PickReport, ClaimReport, SendReport,
     PickNag, ClaimNag, SendNag, SaveNag, RRestart
<1>2. held = [held EXCEPT ![s] = held[s]] /\ rpc = [rpc EXCEPT ![s] = rpc[s]]
  BY <1>0
\* It is enough to say where the process goes and what it holds then.
<1>3. ASSUME NEW step \in RSteps, NEW h \in Held \cup {None},
             rpc' = [rpc EXCEPT ![s] = step], held' = [held EXCEPT ![s] = h],
             step \in Busy => HeldKnown(s)',
             mails' \in Seq(Mail), reverted' \subseteq Profiles,
             profile' \in [Profiles -> Profile], stops' \in Nat,
             shutdown' \in [Reporters -> BOOLEAN]
      PROVE  RInv'
  <2>1. rpc'[s] = step
    BY <1>0, <1>3
  <2>2. HeldKnown(s)'
    BY <1>3, <2>1 DEF HeldKnown, Busy
  <2>3. QED BY <1>1, <1>3, <2>2, OthersKnown
<1>4. ASSUME NEW p \in Profiles
      PROVE  [id |-> p, row |-> profile[p], at |-> now] \in Held
  BY <1>0 DEF Held
<1>5. CASE PickReport(s)
  <2>1. UNCHANGED <<profile, shutdown, stops, mails, reverted>>
    BY <1>5 DEF PickReport
  <2>2. CASE shutdown[s] \/ DueReports = {}
    <3>1. PICK step \in {"exited", "nags"} : rpc' = [rpc EXCEPT ![s] = step]
      BY <1>5, <2>2 DEF PickReport, RGoes
    <3>2. held' = [held EXCEPT ![s] = held[s]]
      BY <1>2, <1>5, <2>2 DEF PickReport
    <3>3. step \in RSteps /\ step \notin Busy
      BY <3>1 DEF RSteps, Busy
    <3>4. QED BY <1>0, <1>3, <2>1, <3>1, <3>2, <3>3
  <2>3. CASE ~(shutdown[s] \/ DueReports = {})
    <3>1. PICK p \in DueReports :
            held' = [held EXCEPT ![s] =
                       [id |-> p, row |-> profile[p], at |-> now]]
      BY <1>5, <2>3 DEF PickReport, HoldFirst
    <3> DEFINE h == [id |-> p, row |-> profile[p], at |-> now]
    <3>2. p \in Profiles /\ (profile[p].nextReport = None \/
                             profile[p].nextReport < now)
      BY DEF DueReports
    <3>3. h \in Held
      BY <1>4, <3>2
    <3>4. rpc' = [rpc EXCEPT ![s] = "claimReport"]
      BY <1>5, <2>3 DEF PickReport, RGoes
    <3>5. HeldKnown(s)'
      BY <1>0, <1>1, <3>1, <3>2, <3>3, <3>4 DEF HeldKnown
    <3> HIDE DEF h
    <3>6. QED BY <1>0, <1>3, <2>1, <3>1, <3>3, <3>4, <3>5 DEF RSteps, h
  <2>4. QED BY <2>2, <2>3
<1>6. CASE PickNag(s)
  <2>1. UNCHANGED <<profile, shutdown, stops, mails, reverted>>
    BY <1>6 DEF PickNag
  <2>2. CASE shutdown[s] \/ DueNags = {}
    <3>1. PICK step \in {"exited", "reports"} : rpc' = [rpc EXCEPT ![s] = step]
      BY <1>6, <2>2 DEF PickNag, RGoes
    <3>2. held' = [held EXCEPT ![s] = held[s]]
      BY <1>2, <1>6, <2>2 DEF PickNag
    <3>3. step \in RSteps /\ step \notin Busy
      BY <3>1 DEF RSteps, Busy
    <3>4. QED BY <1>0, <1>3, <2>1, <3>1, <3>2, <3>3
  <2>3. CASE ~(shutdown[s] \/ DueNags = {})
    <3>1. PICK p \in DueNags :
            held' = [held EXCEPT ![s] =
                       [id |-> p, row |-> profile[p], at |-> now]]
      BY <1>6, <2>3 DEF PickNag, HoldFirst
    <3> DEFINE h == [id |-> p, row |-> profile[p], at |-> now]
    <3>2. /\ p \in Profiles /\ profile[p].nagPeriod # NoNag
          /\ profile[p].nextNag # None /\ profile[p].nextNag < now
      BY DEF DueNags
    <3>3. h \in Held
      BY <1>4, <3>2
    <3>4. rpc' = [rpc EXCEPT ![s] = "claimNag"]
      BY <1>6, <2>3 DEF PickNag, RGoes
    <3>5. profile[p].nagPeriod \in NagPeriods /\ profile[p].nextNag \in Nat
      BY <1>0, <3>2 DEF Profile, Maybe
    <3>6. HeldKnown(s)'
      BY <1>0, <1>1, <3>1, <3>2, <3>3, <3>4, <3>5 DEF HeldKnown
    <3> HIDE DEF h
    <3>7. QED BY <1>0, <1>3, <2>1, <3>1, <3>3, <3>4, <3>6 DEF RSteps, h
  <2>4. QED BY <2>2, <2>3
<1>7. CASE ClaimReport(s)
  <2>1. /\ UNCHANGED <<shutdown, stops, mails, reverted>>
        /\ rpc[s] = "claimReport"
    BY <1>7 DEF ClaimReport
  <2>2. held[s] \in Held /\ held[s].id \in Profiles /\ held[s].row \in Profile
    BY <2>1, HeldOf DEF Busy
  <2>3. profile' \in [Profiles -> Profile]
    <3>1. ASSUME NEW date \in ReportDates
          PROVE  [profile EXCEPT ![held[s].id].nextReport = date]
                   \in [Profiles -> Profile]
      <4>1. date \in Nat
        BY <1>0, RConfigAssumption DEF ReportDates
      <4>2. [profile[held[s].id] EXCEPT !.nextReport = date] \in Profile
        BY <1>0, <2>2, <4>1 DEF Profile, Maybe
      <4>3. QED BY <1>0, <2>2, <4>2
    <3>2. profile' = profile \/
          \E date \in ReportDates :
             profile' = [profile EXCEPT ![held[s].id].nextReport = date]
      BY <1>7 DEF ClaimReport
    <3> HIDE DEF Profile
    <3>3. QED BY <1>0, <3>1, <3>2
  <2>4. CASE SameReportDate(s) /\ held[s].row.nextReport # None
    <3>1. rpc' = [rpc EXCEPT ![s] = "sendReport"] /\ held' = held
      BY <1>7, <2>4 DEF ClaimReport, RGoes
    <3>2. held[s].row.nextReport \in Nat
      BY <2>2, <2>4 DEF Profile, Maybe
    <3>3. HeldKnown(s)'
      BY <1>0, <1>1, <2>2, <3>1, <3>2 DEF HeldKnown
    <3>4. QED BY <1>0, <1>2, <1>3, <2>1, <2>2, <2>3, <3>1, <3>3 DEF RSteps
  <2>5. CASE ~(SameReportDate(s) /\ held[s].row.nextReport # None)
    <3>1. rpc' = [rpc EXCEPT ![s] = "reports"] /\ held' = [held EXCEPT ![s] = None]
      BY <1>7, <2>5 DEF ClaimReport, RGoes, LetGo
    <3>2. QED BY <1>0, <1>3, <2>1, <2>3, <3>1 DEF RSteps, Busy
  <2>6. QED BY <2>4, <2>5
<1>8. CASE SendReport(s)
  <2>1. /\ UNCHANGED <<profile, shutdown, stops, reverted>>
        /\ rpc[s] = "sendReport"
        /\ rpc' = [rpc EXCEPT ![s] = "reports"]
        /\ held' = [held EXCEPT ![s] = None]
    BY <1>8 DEF SendReport, RGoes, LetGo
  <2>2. held[s].id \in Profiles /\ held[s].row.nextReport \in Nat
    BY <1>0, <2>1, HeldOf DEF Busy, HeldKnown
  <2>3. mails' \in Seq(Mail)
    <3> DEFINE m == [kind |-> "report", to |-> held[s].id,
                     at |-> held[s].row.nextReport]
    <3>1. m \in Mail
      BY <2>2 DEF Mail
    <3>2. mails' = mails \/ mails' = Append(mails, m)
      BY <1>8 DEF SendReport, Send
    <3> HIDE DEF m
    <3>3. QED BY <1>0, <3>1, <3>2
  <2>4. QED BY <1>0, <1>3, <2>1, <2>3 DEF RSteps, Busy
<1>9. CASE ClaimNag(s)
  <2>1. /\ UNCHANGED <<shutdown, stops, mails, reverted>>
        /\ rpc[s] = "claimNag"
    BY <1>9 DEF ClaimNag
  <2>2. /\ held[s] \in Held /\ held[s].id \in Profiles
        /\ held[s].at \in Nat /\ held[s].row.nagPeriod \in NagPeriods
    BY <1>0, <2>1, HeldOf DEF Busy, HeldKnown
  <2>3. CASE SameNagDate(s)
    <3>1. /\ rpc' = [rpc EXCEPT ![s] = "sendNag"] /\ held' = held
          /\ profile' = [profile EXCEPT ![held[s].id].nextNag =
                           held[s].at + held[s].row.nagPeriod]
      BY <1>9, <2>3 DEF ClaimNag, RGoes
    <3>2. held[s].at + held[s].row.nagPeriod \in Nat
      <4>1. held[s].row.nagPeriod \in Nat
        BY <2>2, RConfigAssumption
      <4>2. QED BY <2>2, <4>1
    <3>3. [profile[held[s].id] EXCEPT !.nextNag =
             held[s].at + held[s].row.nagPeriod] \in Profile
      BY <1>0, <2>2, <3>2, SMTT(30) DEF Profile, Maybe
    <3>4. profile' \in [Profiles -> Profile]
      BY <1>0, <2>2, <3>1, <3>3
    <3>5. HeldKnown(s)'
      BY <1>0, <1>1, <2>1, <3>1 DEF HeldKnown, Busy
    <3>6. QED BY <1>0, <1>2, <1>3, <2>1, <2>2, <3>1, <3>4, <3>5 DEF RSteps
  <2>4. CASE ~SameNagDate(s)
    <3>1. /\ rpc' = [rpc EXCEPT ![s] = "nags"] /\ profile' = profile
          /\ held' = [held EXCEPT ![s] = None]
      BY <1>9, <2>4 DEF ClaimNag, RGoes, LetGo
    <3>2. QED BY <1>0, <1>3, <2>1, <3>1 DEF RSteps, Busy
  <2>5. QED BY <2>3, <2>4
<1>10. CASE SendNag(s)
  <2>1. UNCHANGED <<profile, shutdown, stops, reverted>> /\ rpc[s] = "sendNag"
    BY <1>10 DEF SendNag
  <2>2. held[s] \in Held /\ held[s].id \in Profiles /\ held[s].at \in Nat
    BY <2>1, HeldOf DEF Busy
  <2>3. CASE UNCHANGED <<held, mails>> /\ RGoes(s, "saveNag")
    <3>1. HeldKnown(s)'
      BY <1>0, <1>1, <2>2, <2>3 DEF HeldKnown, RGoes
    <3>2. QED BY <1>0, <1>2, <1>3, <2>1, <2>2, <2>3, <3>1 DEF RSteps, RGoes
  <2>4. CASE Send(s, "nag", held[s].at) /\ RGoes(s, "nags") /\ LetGo(s)
    <3>1. mails' \in Seq(Mail)
      BY <1>0, <2>2, <2>4 DEF Send, Mail
    <3>2. QED BY <1>0, <1>3, <2>1, <2>4, <3>1 DEF RSteps, Busy, RGoes, LetGo
  <2>5. QED BY <1>10, <2>3, <2>4 DEF SendNag
<1>11. CASE SaveNag(s)
  <2>1. /\ UNCHANGED <<shutdown, stops, mails>> /\ rpc[s] = "saveNag"
        /\ rpc' = [rpc EXCEPT ![s] = "nags"]
        /\ held' = [held EXCEPT ![s] = None]
    BY <1>11 DEF SaveNag, RGoes, LetGo
  <2>2. held[s].id \in Profiles /\ held[s].row \in Profile
    BY <2>1, HeldOf DEF Busy
  <2>3. [held[s].row EXCEPT !.nextNag = None] \in Profile
    BY <2>2 DEF Profile, Maybe
  <2>4. profile' \in [Profiles -> Profile] /\ reverted' \subseteq Profiles
    BY <1>0, <1>11, <2>2, <2>3, OverwriteTypes DEF SaveNag
  <2>5. QED BY <1>0, <1>3, <2>1, <2>4 DEF RSteps, Busy
<1>12. CASE ROnSignal(s)
  <2>1. /\ UNCHANGED <<profile, rpc, held, mails, reverted>>
        /\ stops' \in Nat /\ shutdown' \in [Reporters -> BOOLEAN]
    BY <1>0, <1>12 DEF ROnSignal
  <2>2. HeldKnown(s)'
    BY <1>0, <1>1, <2>1 DEF HeldKnown
  <2>3. rpc[s] \in RSteps /\ held[s] \in Held \cup {None}
    BY <1>0
  <2>4. QED BY <1>0, <1>2, <1>3, <2>1, <2>2, <2>3
<1>13. CASE RCrash(s)
  <2>1. /\ UNCHANGED <<profile, shutdown, mails, reverted>> /\ stops' \in Nat
        /\ rpc' = [rpc EXCEPT ![s] = "exited"]
        /\ held' = [held EXCEPT ![s] = None]
    BY <1>0, <1>13 DEF RCrash, RGoes, LetGo
  <2>2. QED BY <1>0, <1>3, <2>1 DEF RSteps, Busy
<1>14. CASE RRestart(s)
  <2>1. /\ UNCHANGED <<profile, stops, mails, reverted, held>>
        /\ shutdown' \in [Reporters -> BOOLEAN]
        /\ rpc' = [rpc EXCEPT ![s] = "reports"]
    BY <1>0, <1>14 DEF RRestart, RGoes
  <2>2. held[s] \in Held \cup {None}
    BY <1>0
  <2>3. QED BY <1>0, <1>2, <1>3, <2>1, <2>2 DEF RSteps, Busy
<1>15. QED
  BY <1>5, <1>6, <1>7, <1>8, <1>9, <1>10, <1>11, <1>12, <1>13, <1>14 DEF RLoop

LEMMA RNextGood == RInv /\ [RNext]_rVars => RInv'
<1> SUFFICES ASSUME RInv, [RNext]_rVars PROVE RInv'
  OBVIOUS
<1>1. CASE UNCHANGED rVars
  <2>1. RTypeOK'
    BY <1>1 DEF RInv, RTypeOK, rVars, checkVars, reportVars
  <2>2. now \in Nat /\ now' = now /\ UNCHANGED <<rpc, held, req>>
    BY <1>1 DEF RInv, RTypeOK, rVars, reportVars
  <2>3. QED BY <2>1, <2>2, CopiesStay
<1>2. CASE RNext
  BY <1>2, CheckAndUpdaterTypes, RequestTypes, ReporterTypes DEF RNext
<1>3. QED BY <1>1, <1>2

LEMMA RInvHolds == RSpec => []RInv
<1>1. QED BY RInitGood, RNextGood, PTL DEF RSpec

\* Every state of profiles, requests and sendreports processes is one the
\* program can be in, whatever they read, write and overwrite in turn.
THEOREM ReportTypeCorrect == RSpec => []RTypeOK
<1>1. RInv => RTypeOK
  BY DEF RInv
<1>2. QED BY RInvHolds, <1>1, PTL

-----------------------------------------------------------------------------
(* What one step may do to the row of a profile.                           *)

Claims(s, p) ==
    /\ rpc[s] = "claimNag" /\ held[s].id = p
    /\ profile[p].nextNag = held[s].row.nextNag
    /\ profile'[p].nextNag = held[s].at + held[s].row.nagPeriod

\* A new report date is ahead; a new nag date is a nag period ahead, or ahead
\* of the time at which a process found the nag due.  What is turned off has
\* no date from then on.
Effect(p) ==
    LET old == profile[p]
        new == profile'[p]
    IN
    /\ new.nextReport # old.nextReport
          => new.nextReport = None \/ new.nextReport \in ReportDates
    /\ old.reports /\ new.nextReport # None => new.reports
    /\ new.nextNag # old.nextNag
          => \/ new.nextNag = None
             \/ \E n \in NagPeriods : new.nextNag = now + n
             \/ \E s \in Reporters : Claims(s, p)
    /\ old.nagPeriod # NoNag /\ new.nextNag # None => new.nagPeriod # NoNag

LEMMA SameRow ==
    ASSUME NEW p, profile'[p] = profile[p]
    PROVE  Effect(p)
BY DEF Effect

\* A copy that is saved without reverting anything agrees with the row.
LEMMA SavedCopy ==
    ASSUME RTypeOK, NEW p \in Profiles, NEW q \in Profiles, NEW read \in Profile,
           NEW new, NEW set, Overwrite(q, read, new, set), p \notin reverted'
    PROVE  /\ p # q => profile'[p] = profile[p]
           /\ p = q => profile'[p] = new
           /\ p = q => /\ "reports" \notin set => profile[p].reports = read.reports
                       /\ "nextReport" \notin set => profile[p].nextReport = read.nextReport
                       /\ "nagPeriod" \notin set => profile[p].nagPeriod = read.nagPeriod
                       /\ "nextNag" \notin set => profile[p].nextNag = read.nextNag
<1>0. profile \in [Profiles -> Profile]
  BY DEF RTypeOK
<1>1. profile' = [profile EXCEPT ![q] = new]
  BY DEF Overwrite
<1>2. ASSUME p = q PROVE ~Reverts(p, read, set)
  BY <1>2 DEF Overwrite
<1>3. ASSUME p = q, NEW col \in Columns, col \notin set
      PROVE  profile[p][col] = read[col]
  BY <1>2, <1>3 DEF Reverts
<1>4. QED BY <1>0, <1>1, <1>3 DEF Columns, Profile

\* update_next_nag_date writes a new date, if any.
LEMMA NagDateEffect ==
    ASSUME RInv, NEW p \in Profiles, NEW q \in Profiles, NEW copy \in Profile,
           NEW anyDown \in BOOLEAN, profile' = SavedNagDate(q, copy, anyDown)
    PROVE  Effect(p)
<1> DEFINE date == NagDate(copy, anyDown)
<1>0. now \in Nat /\ profile \in [Profiles -> Profile]
  BY DEF RInv, RTypeOK
<1>1. CASE p # q \/ date = copy.nextNag
  <2>1. profile'[p] = profile[p]
    BY <1>0, <1>1 DEF SavedNagDate
  <2>2. QED BY <2>1, SameRow
<1>2. CASE p = q /\ date # copy.nextNag
  <2>1. date = None \/ \E n \in NagPeriods : date = now + n
    BY <1>0, <1>2, NagDateType
  <2>2. profile' = [profile EXCEPT ![p].nextNag = date]
    BY <1>2 DEF SavedNagDate
  <2> HIDE DEF date
  <2>3. /\ profile'[p].nextNag = date
        /\ profile'[p].reports = profile[p].reports
        /\ profile'[p].nextReport = profile[p].nextReport
        /\ profile'[p].nagPeriod = profile[p].nagPeriod
    BY <1>0, <2>2 DEF Profile
  <2>4. QED BY <2>1, <2>3 DEF Effect
<1>3. QED BY <1>1, <1>2

LEMMA SaveEffect ==
    ASSUME RInv, NEW p \in Profiles, p \notin reverted',
           NEW q \in Requests, SaveProfile(q)
    PROVE  Effect(p)
<1>0. RTypeOK /\ FormKnown(q) /\ req[q].step = "save"
  BY DEF RInv, SaveProfile
<1>1. req[q] \in Serving
  BY <1>0 DEF FormKnown, QSteps
<1>2. /\ req[q].id \in Profiles /\ req[q].row \in Profile
      /\ req[q].read \in Profile
  BY <1>1 DEF Serving
<1>3. CASE req[q].op = "settings" /\ SaveForm(q)
  <2>1. PICK date \in ReportDates :
          Overwrite(req[q].id, req[q].read,
              [req[q].row EXCEPT !.nextReport =
                 IF req[q].input.reports THEN date ELSE None],
              SetByForm(q))
    BY <1>3 DEF SaveForm
  <2> DEFINE new == [req[q].row EXCEPT !.nextReport =
                       IF req[q].input.reports THEN date ELSE None]
  <2>2. /\ new.reports = req[q].row.reports
        /\ new.nextReport = IF req[q].input.reports THEN date ELSE None
        /\ new.nagPeriod = req[q].row.nagPeriod
        /\ new.nextNag = req[q].row.nextNag
    BY <1>2 DEF Profile
  <2> HIDE DEF new
  <2>3. CASE p # req[q].id
    BY <1>0, <1>2, <2>1, <2>3, SavedCopy, SameRow DEF new
  <2>4. CASE p = req[q].id
    <3>1. /\ profile'[p] = new
          /\ "nagPeriod" \notin SetByForm(q) => profile[p].nagPeriod = req[q].read.nagPeriod
          /\ "nextNag" \notin SetByForm(q) => profile[p].nextNag = req[q].read.nextNag
      BY <1>0, <1>2, <2>1, <2>4, SavedCopy DEF new
    <3>2. /\ "nagPeriod" \in SetByForm(q) => req[q].row.nagPeriod # req[q].read.nagPeriod
          /\ "nextNag" \in SetByForm(q) => req[q].row.nextNag # req[q].read.nextNag
      <4>1. /\ req[q].row["nagPeriod"] = req[q].row.nagPeriod
            /\ req[q].read["nagPeriod"] = req[q].read.nagPeriod
            /\ req[q].row["nextNag"] = req[q].row.nextNag
            /\ req[q].read["nextNag"] = req[q].read.nextNag
        BY <1>2 DEF Profile
      <4>2. QED BY <4>1 DEF SetByForm
    <3>3. /\ req[q].row.reports = req[q].input.reports
          /\ req[q].row.nextNag \in {req[q].read.nextNag, None}
          /\ req[q].row.nagPeriod = NoNag /\ req[q].read.nagPeriod # NoNag
                => req[q].row.nextNag = None
      BY <1>0, <1>3 DEF FormKnown, QSteps
    <3>4. profile'[p].reports \/ profile'[p].nextReport = None
      BY <2>2, <3>1, <3>3
    <3>5. profile'[p].nextReport = None \/ profile'[p].nextReport \in ReportDates
      BY <2>2, <3>1
    <3>6. profile'[p].nextNag = profile[p].nextNag \/ profile'[p].nextNag = None
      BY <2>2, <3>1, <3>2, <3>3
    <3>7. profile[p].nagPeriod # NoNag /\ profile'[p].nextNag # None
             => profile'[p].nagPeriod # NoNag
      BY <2>2, <3>1, <3>2, <3>3
    <3>8. QED BY <3>4, <3>5, <3>6, <3>7 DEF Effect
  <2>5. QED BY <2>3, <2>4
<1>4. CASE Overwrite(req[q].id, req[q].read, Unsubscribed(req[q].row), Columns)
  <2>1. p # req[q].id => profile'[p] = profile[p]
    BY <1>0, <1>2, <1>4, SavedCopy
  <2>2. p = req[q].id => profile'[p] = Unsubscribed(req[q].row)
    BY <1>0, <1>2, <1>4, SavedCopy
  <2>3. /\ Unsubscribed(req[q].row).nextReport = None
        /\ Unsubscribed(req[q].row).nextNag = None
    BY <1>2 DEF Unsubscribed, Profile
  <2>4. QED BY <2>1, <2>2, <2>3, SameRow DEF Effect
<1>5. CASE req[q].op = "other" /\ Overwrite(req[q].id, req[q].read, req[q].row, {})
  <2>1. req[q].row = req[q].read
    BY <1>0, <1>5 DEF FormKnown, QSteps
  <2>2. p # req[q].id => profile'[p] = profile[p]
    BY <1>0, <1>2, <1>5, SavedCopy
  <2>3. p = req[q].id =>
          /\ profile'[p].reports = profile[p].reports
          /\ profile'[p].nextReport = profile[p].nextReport
          /\ profile'[p].nagPeriod = profile[p].nagPeriod
          /\ profile'[p].nextNag = profile[p].nextNag
    BY <1>0, <1>2, <1>5, <2>1, SavedCopy
  <2>4. QED BY <2>2, <2>3, SameRow DEF Effect
<1>6. QED BY <1>3, <1>4, <1>5 DEF SaveProfile

LEMMA RowEffect ==
    ASSUME RInv, [RNext]_rVars, NEW p \in Profiles, p \notin reverted'
    PROVE  Effect(p)
<1>0. RTypeOK /\ profile \in [Profiles -> Profile] /\ now \in Nat
  BY DEF RInv, RTypeOK
<1>1. CASE UNCHANGED profile
  BY <1>1, SameRow
<1>2. ASSUME NEW u \in Updaters, WriteNagDate(u) PROVE Effect(p)
  <2>1. PICK w \in updater[u] :
          profile' = SavedNagDate(w.copy.id, w.copy.row, w.anyDown)
    BY <1>2 DEF WriteNagDate
  <2>2. /\ w.copy.id \in Profiles /\ w.copy.row \in Profile
        /\ w.anyDown \in BOOLEAN
    BY <1>0 DEF RTypeOK, Copy
  <2>3. QED BY <2>1, <2>2, NagDateEffect
<1>3. ASSUME NEW q \in Requests, NagForForm(q) PROVE Effect(p)
  <2>1. /\ req[q].step = "nag"
        /\ profile' = SavedNagDate(req[q].id, req[q].row, req[q].anyDown)
    BY <1>3 DEF NagForForm
  <2>2. req[q] \in Serving
    BY <2>1 DEF RInv, FormKnown, QSteps
  <2>3. /\ req[q].id \in Profiles /\ req[q].row \in Profile
        /\ req[q].anyDown \in BOOLEAN
    BY <2>2 DEF Serving
  <2>4. QED BY <2>1, <2>3, NagDateEffect
<1>4. ASSUME NEW s \in Reporters, ClaimReport(s) PROVE Effect(p)
  <2>1. held[s].id \in Profiles
    BY <1>4, HeldOf DEF ClaimReport, Busy
  <2>2. profile' = profile \/
        \E date \in ReportDates :
           profile' = [profile EXCEPT ![held[s].id].nextReport = date]
    BY <1>4 DEF ClaimReport
  <2>3. ASSUME NEW date \in ReportDates,
               profile' = [profile EXCEPT ![held[s].id].nextReport = date]
        PROVE  Effect(p)
    <3>1. CASE p # held[s].id
      BY <1>0, <2>1, <2>3, <3>1, SameRow
    <3>2. CASE p = held[s].id
      <4>1. profile'[p] = [profile[p] EXCEPT !.nextReport = date]
        BY <1>0, <2>1, <2>3, <3>2
      <4>2. /\ profile'[p].reports = profile[p].reports
            /\ profile'[p].nextReport = date
            /\ profile'[p].nagPeriod = profile[p].nagPeriod
            /\ profile'[p].nextNag = profile[p].nextNag
        BY <1>0, <4>1 DEF Profile
      <4>3. QED BY <4>2 DEF Effect
    <3>3. QED BY <3>1, <3>2
  <2>4. QED BY <1>1, <2>2, <2>3
<1>5. ASSUME NEW s \in Reporters, ClaimNag(s) PROVE Effect(p)
  <2>1. held[s].id \in Profiles /\ rpc[s] = "claimNag"
    BY <1>5, HeldOf DEF ClaimNag, Busy
  <2>2. CASE profile' = profile \/ p # held[s].id
    BY <1>0, <1>5, <2>1, <2>2, SameRow DEF ClaimNag
  <2>3. CASE p = held[s].id /\ profile' # profile
    <3>1. /\ profile[p].nextNag = held[s].row.nextNag
          /\ profile' = [profile EXCEPT ![p].nextNag =
                           held[s].at + held[s].row.nagPeriod]
      BY <1>5, <2>3 DEF ClaimNag, SameNagDate
    <3>2. /\ profile'[p].reports = profile[p].reports
          /\ profile'[p].nextReport = profile[p].nextReport
          /\ profile'[p].nagPeriod = profile[p].nagPeriod
          /\ profile'[p].nextNag = held[s].at + held[s].row.nagPeriod
      BY <1>0, <3>1 DEF Profile
    <3>3. Claims(s, p)
      BY <2>1, <2>3, <3>1, <3>2 DEF Claims
    <3>4. QED BY <3>2, <3>3 DEF Effect
  <2>4. QED BY <2>2, <2>3
<1>6. ASSUME NEW s \in Reporters, SaveNag(s) PROVE Effect(p)
  <2>1. held[s].id \in Profiles /\ held[s].row \in Profile
    BY <1>6, HeldOf DEF SaveNag, Busy
  <2> DEFINE new == [held[s].row EXCEPT !.nextNag = None]
  <2>2. Overwrite(held[s].id, held[s].row, new, {"nextNag"})
    BY <1>6 DEF SaveNag
  <2>3. /\ new.reports = held[s].row.reports
        /\ new.nextReport = held[s].row.nextReport
        /\ new.nagPeriod = held[s].row.nagPeriod
        /\ new.nextNag = None
    BY <2>1 DEF Profile
  <2> HIDE DEF new
  <2>4. p # held[s].id => profile'[p] = profile[p]
    BY <1>0, <2>1, <2>2, SavedCopy
  <2>5. p = held[s].id =>
          /\ profile'[p] = new
          /\ profile[p].reports = held[s].row.reports
          /\ profile[p].nextReport = held[s].row.nextReport
          /\ profile[p].nagPeriod = held[s].row.nagPeriod
    BY <1>0, <2>1, <2>2, SavedCopy
  <2>6. QED BY <2>3, <2>4, <2>5, SameRow DEF Effect
<1>7. ASSUME NEW q \in Requests, ReadProfile(q) \/ LookForForm(q)
      PROVE  Effect(p)
  BY <1>1, <1>7 DEF ReadProfile, LookForForm
<1>8. ASSUME NEW u \in Updaters, FetchProfiles(u) \/ LookAtChecks(u)
      PROVE  Effect(p)
  BY <1>1, <1>8 DEF FetchProfiles, LookAtChecks
<1>9. ASSUME NEW s \in Reporters,
             \/ PickReport(s) \/ SendReport(s) \/ PickNag(s) \/ SendNag(s)
             \/ RRestart(s) \/ ROnSignal(s) \/ RCrash(s)
      PROVE  Effect(p)
  BY <1>1, <1>9 DEF PickReport, SendReport, PickNag, SendNag, RRestart,
                    ROnSignal, RCrash
<1>10. CASE RTick \/ \E c \in Checks : CheckChange(c)
  BY <1>1, <1>10 DEF RTick, CheckChange, GetLate, Recover, GoDown, ComeUp, Change
<1>11. CASE UNCHANGED rVars
  BY <1>1, <1>11 DEF rVars
<1>12. QED
  BY <1>2, <1>3, <1>4, <1>5, <1>6, <1>7, <1>8, <1>9, <1>10, <1>11, SaveEffect
  DEF RNext, UpdaterStep, RRequestStep, RLoop

-----------------------------------------------------------------------------
(* Nothing is claimed for a profile that has it turned off.                *)

\* Where the date a process holds is still that of the row, the row has not
\* been unsubscribed since: that would have cleared the date, and no date
\* chosen later is in the past.
Subscribed(s) ==
    LET p == held[s].id IN
    p \notin reverted =>
      /\ rpc[s] = "claimReport" /\ held[s].row.nextReport # None
         /\ profile[p].nextReport = held[s].row.nextReport
            => profile[p].reports
      /\ rpc[s] = "claimNag" /\ profile[p].nextNag = held[s].row.nextNag
            => profile[p].nagPeriod # NoNag

\* The processes that start to work on a profile.
Picks(s) == PickReport(s) \/ PickNag(s)

\* A process that goes on does so by a step of its own.
LEMMA OneMoves ==
    ASSUME RInv, [RNext]_rVars, NEW s \in Reporters,
           rpc'[s] # rpc[s] \/ held'[s] # held[s]
    PROVE  RLoop(s) \/ RCrash(s)
<1>0. RTypeOK
  BY DEF RInv
<1>1. ASSUME NEW t \in Reporters, t # s, RLoop(t) \/ ROnSignal(t) \/ RCrash(t)
      PROVE  FALSE
  BY <1>0, <1>1
  DEF RTypeOK, RLoop, ROnSignal, RCrash, PickReport, ClaimReport, SendReport,
      PickNag, ClaimNag, SendNag, SaveNag, RRestart, RGoes, LetGo, HoldFirst
<1>2. ~UNCHANGED <<rpc, held>>
  OBVIOUS
<1>3. CASE \/ RTick \/ (\E c \in Checks : CheckChange(c))
           \/ (\E u \in Updaters : UpdaterStep(u))
           \/ (\E q \in Requests : RRequestStep(q)) \/ UNCHANGED rVars
  BY <1>2, <1>3
  DEF RTick, CheckChange, GetLate, Recover, GoDown, ComeUp, Change,
      UpdaterStep, FetchProfiles, LookAtChecks, WriteNagDate, RRequestStep,
      ReadProfile, LookForForm, NagForForm, SaveProfile, rVars, reportVars
<1>4. CASE ROnSignal(s)
  BY <1>2, <1>4 DEF ROnSignal
<1>5. QED BY <1>1, <1>3, <1>4 DEF RNext

\* Other steps leave the processes that are to claim as they are.
LEMMA ClaimersStay ==
    ASSUME RInv, [RNext]_rVars, NEW s \in Reporters, ~Picks(s),
           rpc'[s] \in {"claimReport", "claimNag"}
    PROVE  rpc'[s] = rpc[s] /\ held'[s] = held[s]
<1>0. RTypeOK
  BY DEF RInv
<1>1. CASE RLoop(s) \/ RCrash(s)
  BY <1>0, <1>1
  DEF RTypeOK, Picks, RLoop, RCrash, ClaimReport, SendReport, ClaimNag,
      SendNag, SaveNag, RRestart, RGoes
<1>2. QED BY <1>1, OneMoves

LEMMA RevertedGrows ==
    ASSUME [RNext]_rVars
    PROVE  reverted \subseteq reverted'
BY DEF RNext, RTick, CheckChange, GetLate, Recover, GoDown, ComeUp, Change,
       UpdaterStep, FetchProfiles, LookAtChecks, WriteNagDate, RRequestStep,
       ReadProfile, LookForForm, NagForForm, SaveProfile, SaveForm, Overwrite,
       RLoop, ROnSignal, RCrash, PickReport, ClaimReport, SendReport, PickNag,
       ClaimNag, SendNag, SaveNag, RRestart, rVars

\* What a process finds due is turned on.
LEMMA PickSubscribed ==
    ASSUME RInv, NEW s \in Reporters, Picks(s)
    PROVE  Subscribed(s)'
<1>0. /\ held \in [Reporters -> Held \cup {None}]
      /\ rpc \in [Reporters -> RSteps]
  BY DEF RInv, RTypeOK, Held
<1>1. profile' = profile /\ reverted' = reverted
  BY DEF Picks, PickReport, PickNag
<1>2. CASE rpc'[s] = "claimReport"
  <2>1. PICK p \in DueReports :
          held' = [held EXCEPT ![s] = [id |-> p, row |-> profile[p], at |-> now]]
    BY <1>0, <1>2 DEF Picks, PickReport, PickNag, RGoes, HoldFirst
  <2>2. held'[s].id = p /\ profile[p].reports
    BY <1>0, <2>1 DEF DueReports
  <2>3. QED BY <1>1, <1>2, <2>2 DEF Subscribed
<1>3. CASE rpc'[s] = "claimNag"
  <2>1. PICK p \in DueNags :
          held' = [held EXCEPT ![s] = [id |-> p, row |-> profile[p], at |-> now]]
    BY <1>0, <1>3 DEF Picks, PickReport, PickNag, RGoes, HoldFirst
  <2>2. held'[s].id = p /\ profile[p].nagPeriod # NoNag
    BY <1>0, <2>1 DEF DueNags
  <2>3. QED BY <1>1, <1>3, <2>2 DEF Subscribed
<1>4. CASE rpc'[s] \notin {"claimReport", "claimNag"}
  BY <1>4 DEF Subscribed
<1>5. QED BY <1>2, <1>3, <1>4

LEMMA SubscribedNext ==
    ASSUME RInv, [RNext]_rVars, NEW s \in Reporters,
           \A t \in Reporters : Subscribed(t)
    PROVE  Subscribed(s)'
<1>1. CASE Picks(s)
  BY <1>1, PickSubscribed
<1>2. CASE ~Picks(s) /\ rpc'[s] = "claimReport" /\ held'[s].id \notin reverted'
  <2> DEFINE p == held[s].id
  <2>1. rpc[s] = "claimReport" /\ held'[s] = held[s]
    BY <1>2, ClaimersStay
  <2>2. p \in Profiles /\ held[s].row \in Profile
    BY <2>1, HeldOf DEF Busy
  <2>3. p \notin reverted /\ p \notin reverted'
    BY <1>2, <2>1, RevertedGrows
  <2>4. Effect(p)
    BY <2>2, <2>3, RowEffect
  <2>5. ASSUME held[s].row.nextReport # None,
               profile'[p].nextReport = held[s].row.nextReport
        PROVE  profile'[p].reports
    <3>1. held[s].row.nextReport \in Nat /\ held[s].row.nextReport < now
      BY <2>1, <2>2, <2>5 DEF RInv, HeldKnown, Profile, Maybe
    <3>2. now \in Nat /\ ReportGap \in Nat
      BY RConfigAssumption DEF RInv, RTypeOK
    <3>3. held[s].row.nextReport \notin ReportDates
      BY <3>1, <3>2 DEF ReportDates
    <3>4. profile[p].nextReport = held[s].row.nextReport
      BY <2>4, <2>5, <3>3 DEF Effect
    <3>5. profile[p].reports
      BY <2>1, <2>3, <2>5, <3>4 DEF Subscribed
    <3>6. QED BY <2>4, <2>5, <3>5 DEF Effect
  <2>6. QED BY <1>2, <2>1, <2>5 DEF Subscribed
<1>3. CASE ~Picks(s) /\ rpc'[s] = "claimNag" /\ held'[s].id \notin reverted'
  <2> DEFINE p == held[s].id
  <2>1. rpc[s] = "claimNag" /\ held'[s] = held[s]
    BY <1>3, ClaimersStay
  <2>2. p \in Profiles /\ held[s].row \in Profile
    BY <2>1, HeldOf DEF Busy
  <2>3. p \notin reverted /\ p \notin reverted'
    BY <1>3, <2>1, RevertedGrows
  <2>4. Effect(p)
    BY <2>2, <2>3, RowEffect
  <2>5. ASSUME profile'[p].nextNag = held[s].row.nextNag
        PROVE  profile'[p].nagPeriod # NoNag
    <3>1. /\ held[s].row.nextNag \in Nat /\ now \in Nat
          /\ held[s].row.nextNag < now /\ held[s].row.nextNag # None
      <4>1. /\ held[s].row.nextNag \in Nat
            /\ held[s].row.nextNag < held[s].at /\ held[s].at <= now
        BY <2>1 DEF RInv, HeldKnown
      <4>2. held[s].at \in Nat /\ now \in Nat
        BY <2>1, HeldOf DEF Busy, RInv, RTypeOK
      <4>3. QED BY <4>1, <4>2, RConfigAssumption
    <3>2. \A n \in NagPeriods : held[s].row.nextNag # now + n
      <4>1. NagPeriods \subseteq Nat
        BY RConfigAssumption
      <4>2. QED BY <3>1, <4>1
    <3>3. CASE profile[p].nextNag = held[s].row.nextNag
      <4>1. profile[p].nagPeriod # NoNag
        BY <2>1, <2>3, <3>3 DEF Subscribed
      <4>2. QED BY <2>4, <2>5, <3>1, <4>1 DEF Effect
    <3>4. CASE profile[p].nextNag # held[s].row.nextNag
      <4>1. PICK t \in Reporters : Claims(t, p)
        BY <2>4, <2>5, <3>1, <3>2, <3>4 DEF Effect
      <4>2. profile[p].nagPeriod # NoNag
        BY <2>3, <4>1 DEF Claims, Subscribed
      <4>3. QED BY <2>4, <2>5, <3>1, <4>2 DEF Effect
    <3>5. QED BY <3>3, <3>4
  <2>6. QED BY <1>3, <2>1, <2>5 DEF Subscribed
<1>4. CASE \/ rpc'[s] \notin {"claimReport", "claimNag"}
           \/ held'[s].id \in reverted'
  BY <1>4 DEF Subscribed
<1>5. QED BY <1>1, <1>2, <1>3, <1>4

\* A process claims a report or a nag only while the profile has it turned
\* on, though it goes by a date that unsubscriptions, the form, other
\* processes and update_next_nag_dates may have changed and changed back,
\* unless a save of an old copy brought an older value back.
THEOREM ClaimsSubscribed == RSpec => ClaimedOnlySubscribed
<1> DEFINE AllSubscribed == \A s \in Reporters : Subscribed(s)
<1>1. RInit => AllSubscribed
  BY DEF RInit, Subscribed
<1>2. RInv /\ AllSubscribed /\ [RNext]_rVars => AllSubscribed'
  BY SubscribedNext
<1> DEFINE Step ==
      \A s \in Reporters :
         /\ rpc[s] = "claimReport" /\ rpc'[s] = "sendReport"
               => \/ profile[held[s].id].reports
                  \/ held[s].id \in reverted
         /\ rpc[s] = "claimNag" /\ rpc'[s] = "sendNag"
               => \/ profile[held[s].id].nagPeriod # NoNag
                  \/ held[s].id \in reverted
<1>3. RInv /\ AllSubscribed /\ [RNext]_rVars => [Step]_rVars
  <2> SUFFICES ASSUME RInv, AllSubscribed, RNext, NEW s \in Reporters
               PROVE  /\ rpc[s] = "claimReport" /\ rpc'[s] = "sendReport"
                            => \/ profile[held[s].id].reports
                               \/ held[s].id \in reverted
                      /\ rpc[s] = "claimNag" /\ rpc'[s] = "sendNag"
                            => \/ profile[held[s].id].nagPeriod # NoNag
                               \/ held[s].id \in reverted
    OBVIOUS
  <2>1. ASSUME rpc[s] = "claimReport", rpc'[s] = "sendReport"
        PROVE  SameReportDate(s) /\ held[s].row.nextReport # None
    <3>1. ClaimReport(s)
      <4>1. RLoop(s) \/ RCrash(s)
        BY <2>1, OneMoves
      <4>2. rpc \in [Reporters -> RSteps]
        BY DEF RInv, RTypeOK
      <4>3. QED
        BY <2>1, <4>1, <4>2
        DEF RLoop, RCrash, PickReport, ClaimReport, SendReport, PickNag,
            ClaimNag, SendNag, SaveNag, RRestart, RGoes
    <3>2. QED BY <2>1, <3>1 DEF ClaimReport, RGoes, RInv, RTypeOK
  <2>2. ASSUME rpc[s] = "claimNag", rpc'[s] = "sendNag"
        PROVE  SameNagDate(s)
    <3>1. ClaimNag(s)
      <4>1. RLoop(s) \/ RCrash(s)
        BY <2>2, OneMoves
      <4>2. rpc \in [Reporters -> RSteps]
        BY DEF RInv, RTypeOK
      <4>3. QED
        BY <2>2, <4>1, <4>2
        DEF RLoop, RCrash, PickReport, ClaimReport, SendReport, PickNag,
            ClaimNag, SendNag, SaveNag, RRestart, RGoes
    <3>2. QED BY <2>2, <3>1 DEF ClaimNag, RGoes, RInv, RTypeOK
  <2>3. QED BY <2>1, <2>2 DEF Subscribed, SameReportDate, SameNagDate
<1> HIDE DEF AllSubscribed, Step
<1>4. RSpec => [][Step]_rVars
  BY <1>1, <1>2, <1>3, RInvHolds, PTL DEF RSpec
<1>5. QED BY <1>4 DEF ClaimedOnlySubscribed, Step

-----------------------------------------------------------------------------
(* One report for each date.                                               *)

\* The date is past, and the next one is later.
Settled(p, d) ==
    /\ d \in Nat /\ d < now
    /\ profile[p].nextReport = None \/ profile[p].nextReport > d

\* The same of the state after a step.
SettledThen(p, d) ==
    /\ d \in Nat /\ d < now'
    /\ profile'[p].nextReport = None \/ profile'[p].nextReport > d

MailsSettled ==
    \A i \in 1 .. Len(mails) :
        mails[i].kind = "report" /\ mails[i].to \notin reverted
        => Settled(mails[i].to, mails[i].at)

ClaimsSettled ==
    \A s \in Reporters :
        rpc[s] = "sendReport" /\ held[s].id \notin reverted
        => Settled(held[s].id, held[s].row.nextReport)

\* Two processes never have the same report to send, nor one that was sent.
ClaimsDiffer ==
    \A s, t \in Reporters :
        /\ rpc[s] = "sendReport" /\ rpc[t] = "sendReport" /\ s # t
        /\ held[s].id = held[t].id /\ held[s].id \notin reverted
        => held[s].row.nextReport # held[t].row.nextReport

ClaimsNew ==
    \A s \in Reporters, i \in 1 .. Len(mails) :
        /\ rpc[s] = "sendReport" /\ mails[i].kind = "report"
        /\ held[s].id = mails[i].to /\ held[s].id \notin reverted
        => held[s].row.nextReport # mails[i].at

ReportInv ==
    MailsSettled /\ ClaimsSettled /\ ClaimsDiffer /\ ClaimsNew /\ ReportOnce

LEMMA MailType ==
    ASSUME RTypeOK, NEW i \in 1 .. Len(mails)
    PROVE  mails[i] \in Mail /\ mails[i].to \in Profiles /\ mails[i].at \in Nat
<1>1. mails[i] \in Mail
  BY DEF RTypeOK
<1>2. QED BY <1>1 DEF Mail

LEMMA TimeGoesOn ==
    ASSUME RInv, [RNext]_rVars
    PROVE  now \in Nat /\ now' \in Nat /\ now <= now'
<1>1. now \in Nat
  BY DEF RInv, RTypeOK
<1>2. now' = now \/ now' = now + 1
  BY DEF RNext, RTick, CheckChange, GetLate, Recover, GoDown, ComeUp, Change,
         UpdaterStep, FetchProfiles, LookAtChecks, WriteNagDate, RRequestStep,
         ReadProfile, LookForForm, NagForForm, SaveProfile,
         RLoop, ROnSignal, RCrash, PickReport, ClaimReport, SendReport, PickNag,
         ClaimNag, SendNag, SaveNag, RRestart, rVars
<1>3. QED BY <1>1, <1>2

LEMMA SettledStays ==
    ASSUME RInv, [RNext]_rVars, NEW p \in Profiles, p \notin reverted',
           NEW d, Settled(p, d)
    PROVE  SettledThen(p, d)
<1>1. Effect(p)
  BY RowEffect
<1>2. now \in Nat /\ now' \in Nat /\ now <= now'
  BY TimeGoesOn
<1>3. \A date \in ReportDates : date \in Nat /\ date > now
  BY <1>2, RConfigAssumption DEF ReportDates
<1>4. d \in Nat /\ d < now
  BY DEF Settled
<1>5. profile'[p].nextReport = None \/ profile'[p].nextReport > d
  <2>1. CASE profile'[p].nextReport = profile[p].nextReport
    BY <2>1 DEF Settled
  <2>2. CASE profile'[p].nextReport \in ReportDates
    BY <1>2, <1>3, <1>4, <2>2
  <2>3. QED BY <1>1, <2>1, <2>2 DEF Effect
<1>6. QED BY <1>2, <1>4, <1>5 DEF SettledThen

\* Steps that neither claim nor send a report.
LEMMA ReportsStay ==
    ASSUME RInv, RInv', ReportInv, [RNext]_rVars,
           \A s \in Reporters : rpc'[s] = "sendReport" =>
              rpc[s] = "sendReport" /\ held'[s] = held[s],
           \A i \in 1 .. Len(mails') : mails'[i].kind = "report" =>
              i \in 1 .. Len(mails) /\ mails'[i] = mails[i]
    PROVE  ReportInv'
<1>0. reverted \subseteq reverted' /\ RTypeOK
  BY RevertedGrows DEF RInv
<1>1. MailsSettled'
  <2> SUFFICES ASSUME NEW i \in 1 .. Len(mails'), mails'[i].kind = "report",
                      mails'[i].to \notin reverted'
               PROVE  Settled(mails[i].to, mails[i].at)'
    BY DEF MailsSettled
  <2>1. i \in 1 .. Len(mails) /\ mails'[i] = mails[i]
    OBVIOUS
  <2>2. Settled(mails[i].to, mails[i].at) /\ mails[i].to \in Profiles
    BY <1>0, <2>1, MailType DEF ReportInv, MailsSettled
  <2>3. mails[i].to \notin reverted'
    BY <2>1
  <2>4. SettledThen(mails[i].to, mails[i].at)
    BY <2>2, <2>3, SettledStays
  <2>5. QED BY <2>1, <2>4 DEF Settled, SettledThen
<1>2. ClaimsSettled'
  <2> SUFFICES ASSUME NEW s \in Reporters, rpc'[s] = "sendReport",
                      held'[s].id \notin reverted'
               PROVE  Settled(held[s].id, held[s].row.nextReport)'
    BY DEF ClaimsSettled
  <2> DEFINE p == held[s].id
             d == held[s].row.nextReport
  <2>1. rpc[s] = "sendReport" /\ held'[s] = held[s]
    OBVIOUS
  <2>2. p \in Profiles
    BY <2>1, HeldOf DEF Busy
  <2>3. Settled(p, d) /\ p \notin reverted'
    BY <1>0, <2>1 DEF ReportInv, ClaimsSettled
  <2>4. SettledThen(p, d)
    BY <2>2, <2>3, SettledStays
  <2>5. QED BY <2>1, <2>4 DEF Settled, SettledThen
<1>3. ClaimsDiffer'
  BY <1>0 DEF ReportInv, ClaimsDiffer
<1>4. ClaimsNew'
  BY <1>0 DEF ReportInv, ClaimsNew
<1>5. ReportOnce'
  BY <1>0 DEF ReportInv, ReportOnce
<1>6. QED BY <1>1, <1>2, <1>3, <1>4, <1>5 DEF ReportInv

\* The report a process claims is due at a later date than those before it.
LEMMA ClaimReportOnce ==
    ASSUME RInv, RInv', ReportInv, RNext, NEW s \in Reporters, ClaimReport(s)
    PROVE  ReportInv'
<1>0. /\ RTypeOK /\ rpc[s] = "claimReport" /\ mails' = mails
      /\ reverted' = reverted /\ now' = now
  BY DEF RInv, ClaimReport
<1>1. CASE ~(SameReportDate(s) /\ held[s].row.nextReport # None)
  <2>1. /\ rpc' = [rpc EXCEPT ![s] = "reports"]
        /\ held' = [held EXCEPT ![s] = None]
    BY <1>1 DEF ClaimReport, RGoes, LetGo
  <2>2. \A t \in Reporters : rpc'[t] = "sendReport" =>
          rpc[t] = "sendReport" /\ held'[t] = held[t]
    BY <1>0, <2>1 DEF RTypeOK
  <2>3. QED BY <1>0, <2>2, ReportsStay
<1>2. CASE SameReportDate(s) /\ held[s].row.nextReport # None
  <2> DEFINE p == held[s].id
             d == held[s].row.nextReport
  <2>1. /\ rpc' = [rpc EXCEPT ![s] = "sendReport"] /\ held' = held
        /\ profile[p].nextReport = d
        /\ \E date \in ReportDates :
             profile' = [profile EXCEPT ![p].nextReport = date]
    BY <1>2 DEF ClaimReport, RGoes, SameReportDate
  <2>2. p \in Profiles /\ held[s].row \in Profile
    BY <1>0, HeldOf DEF Busy
  <2>3. d \in Nat /\ d < now /\ d # None /\ now \in Nat
    BY <1>0, <1>2, <2>2 DEF RInv, RTypeOK, HeldKnown, Profile, Maybe
  <2>4. PICK date \in ReportDates : profile'[p].nextReport = date
    BY <1>0, <2>1, <2>2 DEF RTypeOK, Profile
  <2>5. date \in Nat /\ date > now
    BY <2>3, RConfigAssumption DEF ReportDates
  <2>6. /\ rpc'[s] = "sendReport"
        /\ \A t \in Reporters : t # s => rpc'[t] = rpc[t]
    BY <1>0, <2>1 DEF RTypeOK
  \* What was claimed or sent before was settled.
  <2>7. \A e : Settled(p, e) => e # d
    BY <2>1, <2>3 DEF Settled
  <2>8. Settled(p, d)'
    BY <1>0, <2>1, <2>3, <2>4, <2>5 DEF Settled
  <2>9. ASSUME NEW r \in Profiles, r \notin reverted, NEW e, Settled(r, e)
        PROVE  SettledThen(r, e)
    BY <1>0, <2>9, SettledStays
  <2>10. MailsSettled'
    <3> SUFFICES ASSUME NEW i \in 1 .. Len(mails), mails[i].kind = "report",
                        mails[i].to \notin reverted
                 PROVE  Settled(mails[i].to, mails[i].at)'
      BY <1>0 DEF MailsSettled
    <3>1. mails[i].to \in Profiles /\ Settled(mails[i].to, mails[i].at)
      BY <1>0, MailType DEF ReportInv, MailsSettled
    <3>2. SettledThen(mails[i].to, mails[i].at)
      BY <2>9, <3>1
    <3>3. QED BY <1>0, <3>2 DEF Settled, SettledThen
  <2>11. ClaimsSettled'
    <3> SUFFICES ASSUME NEW t \in Reporters, rpc'[t] = "sendReport",
                        held[t].id \notin reverted
                 PROVE  Settled(held[t].id, held[t].row.nextReport)'
      BY <1>0, <2>1 DEF ClaimsSettled
    <3>1. CASE t = s
      BY <2>8, <3>1
    <3>2. CASE t # s
      <4> DEFINE r == held[t].id
                 e == held[t].row.nextReport
      <4>1. rpc[t] = "sendReport"
        BY <2>6, <3>2
      <4>2. r \in Profiles /\ r \notin reverted /\ Settled(r, e)
        BY <4>1, HeldOf DEF Busy, ReportInv, ClaimsSettled
      <4>3. SettledThen(r, e)
        BY <2>9, <4>2
      <4>4. QED BY <2>1, <4>3 DEF Settled, SettledThen
    <3>3. QED BY <3>1, <3>2
  <2>12. ASSUME NEW t \in Reporters, t # s, rpc[t] = "sendReport",
                held[t].id = p, p \notin reverted
         PROVE  held[t].row.nextReport # d
    BY <2>7, <2>12 DEF ReportInv, ClaimsSettled
  <2>13. ClaimsDiffer'
    BY <1>0, <2>1, <2>6, <2>12 DEF ReportInv, ClaimsDiffer
  <2>14. ASSUME NEW i \in 1 .. Len(mails), mails[i].kind = "report",
                mails[i].to = p, p \notin reverted
         PROVE  mails[i].at # d
    BY <2>7, <2>14 DEF ReportInv, MailsSettled
  <2>15. ClaimsNew'
    BY <1>0, <2>1, <2>6, <2>14 DEF ReportInv, ClaimsNew
  <2>16. ReportOnce'
    BY <1>0 DEF ReportInv, ReportOnce
  <2>17. QED BY <2>10, <2>11, <2>13, <2>15, <2>16 DEF ReportInv
<1>3. QED BY <1>1, <1>2

\* A process sends a report nobody has sent, and nobody else has to send.
LEMMA SendReportOnce ==
    ASSUME RInv, RInv', ReportInv, RNext, NEW s \in Reporters, SendReport(s)
    PROVE  ReportInv'
<1> DEFINE p == held[s].id
           d == held[s].row.nextReport
           m == [kind |-> "report", to |-> p, at |-> d]
<1>0. /\ RTypeOK /\ rpc[s] = "sendReport"
      /\ reverted' = reverted /\ now' = now /\ profile' = profile
      /\ rpc' = [rpc EXCEPT ![s] = "reports"]
      /\ held' = [held EXCEPT ![s] = None]
  BY DEF RInv, SendReport, RGoes, LetGo
<1>1. \A t \in Reporters : rpc'[t] = "sendReport" =>
        t # s /\ rpc[t] = "sendReport" /\ held'[t] = held[t]
  BY <1>0 DEF RTypeOK
<1>2. CASE mails' = mails
  BY <1>0, <1>1, <1>2, ReportsStay
<1>3. CASE mails' = Append(mails, m)
  <2>1. /\ mails \in Seq(Mail) /\ m.kind = "report" /\ m.to = p /\ m.at = d
        /\ Len(mails) \in Nat
    BY <1>0 DEF RTypeOK
  <2> HIDE DEF m
  <2>2. /\ Len(mails') = Len(mails) + 1
        /\ \A i \in 1 .. Len(mails) : mails'[i] = mails[i]
        /\ mails'[Len(mails) + 1] = m
    BY <1>3, <2>1
  <2>3. ASSUME NEW i \in 1 .. Len(mails')
        PROVE  i \in 1 .. Len(mails) \/ (mails'[i] = m /\ i = Len(mails) + 1)
    <3>1. i \in 1 .. Len(mails) \/ i = Len(mails) + 1
      BY <2>1, <2>2
    <3>2. QED BY <2>2, <3>1
  <2>5. p \notin reverted => Settled(p, d)
    BY <1>0 DEF ReportInv, ClaimsSettled
  <2>6. MailsSettled'
    <3> SUFFICES ASSUME NEW i \in 1 .. Len(mails'), mails'[i].kind = "report",
                        mails'[i].to \notin reverted
                 PROVE  Settled(mails[i].to, mails[i].at)'
      BY <1>0 DEF MailsSettled
    <3>1. CASE i \in 1 .. Len(mails)
      <4>1. Settled(mails[i].to, mails[i].at)
        BY <2>2, <3>1 DEF ReportInv, MailsSettled
      <4>2. mails'[i] = mails[i]
        BY <2>2, <3>1
      <4>3. QED BY <1>0, <4>1, <4>2 DEF Settled
    <3>2. CASE mails'[i] = m
      <4>1. Settled(p, d)
        BY <2>1, <2>5, <3>2
      <4>2. QED BY <1>0, <2>1, <3>2, <4>1 DEF Settled
    <3>3. QED BY <2>3, <3>1, <3>2
  <2>7. ClaimsSettled'
    BY <1>0, <1>1 DEF ReportInv, ClaimsSettled, Settled
  <2>8. ClaimsDiffer'
    BY <1>0, <1>1 DEF ReportInv, ClaimsDiffer
  <2>9. ClaimsNew'
    <3> SUFFICES ASSUME NEW t \in Reporters, NEW i \in 1 .. Len(mails'),
                        rpc'[t] = "sendReport", mails'[i].kind = "report",
                        held'[t].id = mails'[i].to, held'[t].id \notin reverted
                 PROVE  held'[t].row.nextReport # mails'[i].at
      BY <1>0 DEF ClaimsNew
    <3>1. t # s /\ rpc[t] = "sendReport" /\ held'[t] = held[t]
      BY <1>1
    <3>2. CASE i \in 1 .. Len(mails)
      BY <2>2, <3>1, <3>2 DEF ReportInv, ClaimsNew
    <3>3. CASE mails'[i] = m
      BY <1>0, <2>1, <3>1, <3>3 DEF ReportInv, ClaimsDiffer
    <3>4. QED BY <2>3, <3>2, <3>3
  <2>10. \A i \in 1 .. Len(mails) :
           mails[i].kind = "report" /\ mails[i].to = p /\ p \notin reverted
           => mails[i].at # d
    BY <1>0 DEF ReportInv, ClaimsNew
  <2>11. ReportOnce'
    <3> SUFFICES ASSUME NEW i \in 1 .. Len(mails'), NEW j \in 1 .. Len(mails'),
                        mails'[i].kind = "report", mails'[j].kind = "report",
                        mails'[i].to = mails'[j].to,
                        mails'[i].to \notin reverted,
                        mails'[i].at = mails'[j].at
                 PROVE  i = j
      BY <1>0 DEF ReportOnce
    <3>1. CASE i \in 1 .. Len(mails) /\ j \in 1 .. Len(mails)
      BY <2>2, <3>1 DEF ReportInv, ReportOnce
    <3>2. CASE i \in 1 .. Len(mails) /\ mails'[j] = m
      BY <2>1, <2>2, <2>10, <3>2
    <3>3. CASE j \in 1 .. Len(mails) /\ mails'[i] = m
      BY <2>1, <2>2, <2>10, <3>3
    <3>4. QED BY <2>3, <3>1, <3>2, <3>3
  <2>12. QED BY <2>6, <2>7, <2>8, <2>9, <2>11 DEF ReportInv
<1>4. QED BY <1>2, <1>3 DEF SendReport, Send

LEMMA ReportInvNext == RInv /\ RInv' /\ ReportInv /\ [RNext]_rVars => ReportInv'
<1> SUFFICES ASSUME RInv, RInv', ReportInv, [RNext]_rVars PROVE ReportInv'
  OBVIOUS
<1>0. RTypeOK
  BY DEF RInv
<1>1. CASE UNCHANGED rVars
  BY <1>1, ReportsStay DEF rVars, reportVars
<1>2. ASSUME NEW s \in Reporters, ClaimReport(s), RNext PROVE ReportInv'
  BY <1>2, ClaimReportOnce
<1>3. ASSUME NEW s \in Reporters, SendReport(s), RNext PROVE ReportInv'
  BY <1>3, SendReportOnce
<1>4. ASSUME NEW s \in Reporters,
             \/ PickReport(s) \/ PickNag(s) \/ ClaimNag(s) \/ SendNag(s)
             \/ SaveNag(s) \/ RRestart(s) \/ ROnSignal(s) \/ RCrash(s)
      PROVE  ReportInv'
  <2>1. \A t \in Reporters : rpc'[t] = "sendReport" =>
          rpc[t] = "sendReport" /\ held'[t] = held[t]
    BY <1>0, <1>4
    DEF RTypeOK, PickReport, PickNag, ClaimNag, SendNag, SaveNag, RRestart,
        ROnSignal, RCrash, RGoes, LetGo, HoldFirst
  <2>2. \A i \in 1 .. Len(mails') : mails'[i].kind = "report" =>
          i \in 1 .. Len(mails) /\ mails'[i] = mails[i]
    <3>1. CASE mails' = mails
      BY <3>1
    <3>2. CASE Send(s, "nag", held[s].at)
      BY <1>0, <3>2 DEF Send, RTypeOK
    <3>3. QED BY <1>4, <3>1, <3>2
      DEF PickReport, PickNag, ClaimNag, SendNag, SaveNag, RRestart,
          ROnSignal, RCrash
  <2>3. QED BY <2>1, <2>2, ReportsStay
<1>5. CASE \/ RTick \/ (\E c \in Checks : CheckChange(c))
           \/ (\E u \in Updaters : UpdaterStep(u))
           \/ (\E q \in Requests : RRequestStep(q))
  <2>1. UNCHANGED <<rpc, held, mails>>
    BY <1>5
    DEF RTick, CheckChange, GetLate, Recover, GoDown, ComeUp, Change,
        UpdaterStep, FetchProfiles, LookAtChecks, WriteNagDate, RRequestStep,
        ReadProfile, LookForForm, NagForForm, SaveProfile, reportVars
  <2>2. QED BY <2>1, ReportsStay
<1>6. QED BY <1>1, <1>2, <1>3, <1>4, <1>5 DEF RNext, RLoop

\* A date a report was scheduled for has at most one report, however many
\* processes find it due, crash and restart, and whatever the form,
\* unsubscriptions and other saves do to the dates, unless they bring one
\* back.
THEOREM OneReportPerDate == RSpec => []ReportOnce
<1>1. RInit => ReportInv
  BY DEF RInit, ReportInv, MailsSettled, ClaimsSettled, ClaimsDiffer,
         ClaimsNew, ReportOnce
<1>2. ReportInv => ReportOnce
  BY DEF ReportInv
<1>3. QED BY <1>1, <1>2, ReportInvNext, RInvHolds, PTL DEF RSpec

-----------------------------------------------------------------------------
(* Nags keep their distance.                                               *)

\* The next nag after one at a is a nag period away, if there is one.
Later(p, a) ==
    /\ a \in Nat /\ a <= now
    /\ \/ profile[p].nextNag = None
       \/ \E n \in NagPeriods : profile[p].nextNag >= a + n

\* The same of the state after a step.
LaterThen(p, a) ==
    /\ a \in Nat /\ a <= now'
    /\ \/ profile'[p].nextNag = None
       \/ \E n \in NagPeriods : profile'[p].nextNag >= a + n

Apart(a, b) == \E n \in NagPeriods : b > a + n \/ a > b + n

MailsLater ==
    \A i \in 1 .. Len(mails) :
        mails[i].kind = "nag" /\ mails[i].to \notin reverted
        => Later(mails[i].to, mails[i].at)

ClaimsLater ==
    \A s \in Reporters :
        rpc[s] = "sendNag" /\ held[s].id \notin reverted
        => Later(held[s].id, held[s].at)

ClaimsApart ==
    \A s, t \in Reporters :
        /\ rpc[s] = "sendNag" /\ rpc[t] = "sendNag" /\ s # t
        /\ held[s].id = held[t].id /\ held[s].id \notin reverted
        => Apart(held[s].at, held[t].at)

ClaimsMailsApart ==
    \A s \in Reporters, i \in 1 .. Len(mails) :
        /\ rpc[s] = "sendNag" /\ mails[i].kind = "nag"
        /\ held[s].id = mails[i].to /\ held[s].id \notin reverted
        => Apart(held[s].at, mails[i].at)

NagInv ==
    MailsLater /\ ClaimsLater /\ ClaimsApart /\ ClaimsMailsApart /\ NagsSpaced

\* The date a nag is claimed with is past the period of every nag before it.
LEMMA DueAfter ==
    ASSUME RInv, NEW s \in Reporters, rpc[s] = "claimNag",
           NEW p, profile[p].nextNag = held[s].row.nextNag,
           NEW a, Later(p, a)
    PROVE  \E n \in NagPeriods : held[s].at > a + n
<1>1. /\ held[s].row.nextNag \in Nat /\ held[s].at \in Nat
      /\ held[s].row.nextNag < held[s].at
  BY HeldOf DEF RInv, HeldKnown, Busy
<1>2. held[s].row.nextNag # None /\ NagPeriods \subseteq Nat
  BY <1>1, RConfigAssumption
<1>3. PICK n \in NagPeriods : held[s].row.nextNag >= a + n
  BY <1>2 DEF Later
<1>4. a \in Nat /\ n \in Nat
  BY <1>2 DEF Later
<1>5. QED BY <1>1, <1>3, <1>4

LEMMA LaterStays ==
    ASSUME RInv, [RNext]_rVars, NEW p \in Profiles, p \notin reverted',
           NEW a, Later(p, a)
    PROVE  LaterThen(p, a)
<1>1. Effect(p)
  BY RowEffect
<1>2. now \in Nat /\ now' \in Nat /\ now <= now' /\ a \in Nat /\ a <= now
  BY TimeGoesOn DEF Later
<1>3. NagPeriods \subseteq Nat
  BY RConfigAssumption
<1>4. \/ profile'[p].nextNag = None
      \/ \E n \in NagPeriods : profile'[p].nextNag >= a + n
  <2>1. CASE profile'[p].nextNag = profile[p].nextNag
    BY <2>1 DEF Later
  <2>2. ASSUME NEW n \in NagPeriods, profile'[p].nextNag = now + n
        PROVE  profile'[p].nextNag >= a + n
    BY <1>2, <1>3, <2>2
  <2>3. ASSUME NEW s \in Reporters, Claims(s, p)
        PROVE  \E n \in NagPeriods : profile'[p].nextNag >= a + n
    <3>1. PICK m \in NagPeriods : held[s].at > a + m
      BY <2>3, DueAfter DEF Claims
    <3>2. /\ held[s].row.nagPeriod \in NagPeriods /\ held[s].at \in Nat
          /\ profile'[p].nextNag = held[s].at + held[s].row.nagPeriod
      BY <2>3, HeldOf DEF Claims, RInv, HeldKnown, Busy
    <3>3. held[s].row.nagPeriod \in Nat /\ m \in Nat
      BY <1>3, <3>2
    <3>4. profile'[p].nextNag >= a + held[s].row.nagPeriod
      BY <1>2, <3>1, <3>2, <3>3
    <3>5. QED BY <3>2, <3>4
  <2>4. QED BY <1>1, <2>1, <2>2, <2>3 DEF Effect
<1>5. now' >= a
  BY <1>2
<1>6. QED BY <1>2, <1>4, <1>5 DEF LaterThen

\* Mails and claims that were there before a step.
LEMMA OldNagsLater ==
    ASSUME RInv, NagInv, [RNext]_rVars
    PROVE  /\ \A i \in 1 .. Len(mails) :
                mails[i].kind = "nag" /\ mails[i].to \notin reverted'
                => LaterThen(mails[i].to, mails[i].at)
           /\ \A s \in Reporters :
                rpc[s] = "sendNag" /\ held[s].id \notin reverted'
                => LaterThen(held[s].id, held[s].at)
<1>0. reverted \subseteq reverted' /\ RTypeOK
  BY RevertedGrows DEF RInv
<1>1. ASSUME NEW i \in 1 .. Len(mails),
             mails[i].kind = "nag", mails[i].to \notin reverted'
      PROVE  LaterThen(mails[i].to, mails[i].at)
  <2>1. Later(mails[i].to, mails[i].at) /\ mails[i].to \in Profiles
    BY <1>0, <1>1, MailType DEF NagInv, MailsLater
  <2>2. QED BY <1>1, <2>1, LaterStays
<1>2. ASSUME NEW s \in Reporters, rpc[s] = "sendNag",
             held[s].id \notin reverted'
      PROVE  LaterThen(held[s].id, held[s].at)
  <2>1. Later(held[s].id, held[s].at) /\ held[s].id \in Profiles
    BY <1>0, <1>2, HeldOf DEF Busy, NagInv, ClaimsLater
  <2>2. QED BY <1>2, <2>1, LaterStays
<1>3. QED BY <1>1, <1>2

\* Steps that neither claim nor send a nag.
LEMMA NagsStay ==
    ASSUME RInv, NagInv, [RNext]_rVars,
           \A s \in Reporters : rpc'[s] = "sendNag" =>
              rpc[s] = "sendNag" /\ held'[s] = held[s],
           \A i \in 1 .. Len(mails') : mails'[i].kind = "nag" =>
              i \in 1 .. Len(mails) /\ mails'[i] = mails[i]
    PROVE  NagInv'
<1>0. reverted \subseteq reverted'
  BY RevertedGrows
<1>1. MailsLater'
  BY OldNagsLater DEF MailsLater, Later, LaterThen
<1>2. ClaimsLater'
  BY OldNagsLater DEF ClaimsLater, Later, LaterThen
<1>3. ClaimsApart'
  BY <1>0 DEF NagInv, ClaimsApart, Apart
<1>4. ClaimsMailsApart'
  BY <1>0 DEF NagInv, ClaimsMailsApart, Apart
<1>5. NagsSpaced'
  BY <1>0 DEF NagInv, NagsSpaced
<1>6. QED BY <1>1, <1>2, <1>3, <1>4, <1>5 DEF NagInv

\* The nag a process claims is due well after those before it.
LEMMA ClaimNagSpaced ==
    ASSUME RInv, NagInv, RNext, NEW s \in Reporters, ClaimNag(s)
    PROVE  NagInv'
<1>0. /\ RTypeOK /\ rpc[s] = "claimNag" /\ mails' = mails
      /\ reverted' = reverted /\ now' = now
  BY DEF RInv, ClaimNag
<1>1. CASE ~SameNagDate(s)
  <2>1. /\ rpc' = [rpc EXCEPT ![s] = "nags"]
        /\ held' = [held EXCEPT ![s] = None]
    BY <1>1 DEF ClaimNag, RGoes, LetGo
  <2>2. \A t \in Reporters : rpc'[t] = "sendNag" =>
          rpc[t] = "sendNag" /\ held'[t] = held[t]
    BY <1>0, <2>1 DEF RTypeOK
  <2>3. QED BY <1>0, <2>2, NagsStay
<1>2. CASE SameNagDate(s)
  <2> DEFINE p == held[s].id
             a == held[s].at
  <2>1. /\ rpc' = [rpc EXCEPT ![s] = "sendNag"] /\ held' = held
        /\ profile[p].nextNag = held[s].row.nextNag
        /\ profile' = [profile EXCEPT ![p].nextNag = a + held[s].row.nagPeriod]
    BY <1>2 DEF ClaimNag, RGoes, SameNagDate
  <2>2. /\ p \in Profiles /\ a \in Nat /\ a <= now
        /\ held[s].row.nagPeriod \in NagPeriods
        /\ held[s].row.nagPeriod \in Nat
    BY <1>0, HeldOf, RConfigAssumption DEF Busy, RInv, HeldKnown
  <2>3. /\ rpc'[s] = "sendNag"
        /\ \A t \in Reporters : t # s => rpc'[t] = rpc[t]
    BY <1>0, <2>1 DEF RTypeOK
  <2>4. profile'[p].nextNag = a + held[s].row.nagPeriod
    BY <1>0, <2>1, <2>2 DEF RTypeOK, Profile
  <2>5. Later(p, a)'
    BY <1>0, <2>1, <2>2, <2>4 DEF Later
  <2>6. \A b : Later(p, b) => Apart(a, b) /\ Apart(b, a)
    BY <1>0, <2>1, DueAfter DEF Apart
  <2>7. MailsLater'
    BY <1>0, OldNagsLater DEF MailsLater, Later, LaterThen
  <2>8. ClaimsLater'
    <3> SUFFICES ASSUME NEW t \in Reporters, rpc'[t] = "sendNag",
                        held[t].id \notin reverted
                 PROVE  Later(held[t].id, held[t].at)'
      BY <1>0, <2>1 DEF ClaimsLater
    <3>1. CASE t = s
      BY <2>5, <3>1
    <3>2. CASE t # s
      <4>1. LaterThen(held[t].id, held[t].at)
        BY <1>0, <2>3, <3>2, OldNagsLater
      <4>2. QED BY <2>1, <4>1 DEF Later, LaterThen
    <3>3. QED BY <3>1, <3>2
  <2>9. ASSUME NEW t \in Reporters, t # s, rpc[t] = "sendNag",
               held[t].id = p, p \notin reverted
        PROVE  Apart(a, held[t].at) /\ Apart(held[t].at, a)
    BY <2>6, <2>9 DEF NagInv, ClaimsLater
  <2>10. ClaimsApart'
    <3> SUFFICES ASSUME NEW t \in Reporters, NEW u \in Reporters, t # u,
                        rpc'[t] = "sendNag", rpc'[u] = "sendNag",
                        held[t].id = held[u].id, held[t].id \notin reverted
                 PROVE  Apart(held[t].at, held[u].at)
      BY <1>0, <2>1 DEF ClaimsApart, Apart
    <3>1. CASE t = s
      BY <2>3, <2>9, <3>1
    <3>2. CASE u = s
      BY <2>3, <2>9, <3>2
    <3>3. CASE t # s /\ u # s
      BY <2>3, <3>3 DEF NagInv, ClaimsApart
    <3>4. QED BY <3>1, <3>2, <3>3
  <2>11. ASSUME NEW i \in 1 .. Len(mails), mails[i].kind = "nag",
                mails[i].to = p, p \notin reverted
         PROVE  Apart(a, mails[i].at)
    BY <2>6, <2>11 DEF NagInv, MailsLater
  <2>12. ClaimsMailsApart'
    <3> SUFFICES ASSUME NEW t \in Reporters, NEW i \in 1 .. Len(mails),
                        rpc'[t] = "sendNag", mails[i].kind = "nag",
                        held[t].id = mails[i].to, held[t].id \notin reverted
                 PROVE  Apart(held[t].at, mails[i].at)
      BY <1>0, <2>1 DEF ClaimsMailsApart, Apart
    <3>1. CASE t = s
      BY <2>11, <3>1
    <3>2. CASE t # s
      BY <2>3, <3>2 DEF NagInv, ClaimsMailsApart
    <3>3. QED BY <3>1, <3>2
  <2>13. NagsSpaced'
    BY <1>0 DEF NagInv, NagsSpaced
  <2>14. QED BY <2>7, <2>8, <2>10, <2>12, <2>13 DEF NagInv
<1>3. QED BY <1>1, <1>2

\* A process sends its nag well after those sent, and before those to come.
LEMMA SendNagSpaced ==
    ASSUME RInv, NagInv, RNext, NEW s \in Reporters, SendNag(s)
    PROVE  NagInv'
<1> DEFINE p == held[s].id
           a == held[s].at
           m == [kind |-> "nag", to |-> p, at |-> a]
<1>0. /\ RTypeOK /\ rpc[s] = "sendNag"
      /\ reverted' = reverted /\ now' = now /\ profile' = profile
  BY DEF RInv, SendNag
<1>1. CASE UNCHANGED <<held, mails>> /\ RGoes(s, "saveNag")
  <2>1. \A t \in Reporters : rpc'[t] = "sendNag" =>
          rpc[t] = "sendNag" /\ held'[t] = held[t]
    BY <1>0, <1>1 DEF RTypeOK, RGoes
  <2>2. QED BY <1>1, <2>1, NagsStay
<1>2. CASE mails' = Append(mails, m) /\ RGoes(s, "nags") /\ LetGo(s)
  <2>1. /\ mails \in Seq(Mail) /\ m.kind = "nag" /\ m.to = p /\ m.at = a
        /\ Len(mails) \in Nat
    BY <1>0 DEF RTypeOK
  <2> HIDE DEF m
  <2>2. /\ Len(mails') = Len(mails) + 1
        /\ \A i \in 1 .. Len(mails) : mails'[i] = mails[i]
        /\ mails'[Len(mails) + 1] = m
    BY <1>2, <2>1
  <2>3. ASSUME NEW i \in 1 .. Len(mails')
        PROVE  i \in 1 .. Len(mails) \/ (mails'[i] = m /\ i = Len(mails) + 1)
    <3>1. i \in 1 .. Len(mails) \/ i = Len(mails) + 1
      BY <2>1, <2>2
    <3>2. QED BY <2>2, <3>1
  <2>4. \A t \in Reporters : rpc'[t] = "sendNag" =>
          t # s /\ rpc[t] = "sendNag" /\ held'[t] = held[t]
    BY <1>0, <1>2 DEF RTypeOK, RGoes, LetGo
  <2>5. p \notin reverted => Later(p, a)
    BY <1>0 DEF NagInv, ClaimsLater
  <2>6. MailsLater'
    <3> SUFFICES ASSUME NEW i \in 1 .. Len(mails'), mails'[i].kind = "nag",
                        mails'[i].to \notin reverted'
                 PROVE  Later(mails[i].to, mails[i].at)'
      BY DEF MailsLater
    <3>1. CASE i \in 1 .. Len(mails)
      BY <2>2, <3>1, OldNagsLater DEF Later, LaterThen
    <3>2. CASE mails'[i] = m
      BY <1>0, <2>1, <2>5, <3>2 DEF Later
    <3>3. QED BY <2>3, <3>1, <3>2
  <2>7. ClaimsLater'
    BY <2>4, OldNagsLater DEF ClaimsLater, Later, LaterThen
  <2>8. ClaimsApart'
    BY <1>0, <2>4 DEF NagInv, ClaimsApart, Apart
  <2>9. ClaimsMailsApart'
    <3> SUFFICES ASSUME NEW t \in Reporters, NEW i \in 1 .. Len(mails'),
                        rpc'[t] = "sendNag", mails'[i].kind = "nag",
                        held'[t].id = mails'[i].to, held'[t].id \notin reverted
                 PROVE  Apart(held'[t].at, mails'[i].at)
      BY <1>0 DEF ClaimsMailsApart, Apart
    <3>1. t # s /\ rpc[t] = "sendNag" /\ held'[t] = held[t]
      BY <2>4
    <3>2. CASE i \in 1 .. Len(mails)
      BY <2>2, <3>1, <3>2 DEF NagInv, ClaimsMailsApart
    <3>3. CASE mails'[i] = m
      BY <1>0, <2>1, <3>1, <3>3 DEF NagInv, ClaimsApart
    <3>4. QED BY <2>3, <3>2, <3>3
  <2>10. \A i \in 1 .. Len(mails) :
           mails[i].kind = "nag" /\ mails[i].to = p /\ p \notin reverted
           => Apart(a, mails[i].at)
    BY <1>0 DEF NagInv, ClaimsMailsApart
  <2>11. NagsSpaced'
    <3> SUFFICES ASSUME NEW i \in 1 .. Len(mails'), NEW j \in 1 .. Len(mails'),
                        i # j, mails'[i].kind = "nag", mails'[j].kind = "nag",
                        mails'[i].to = mails'[j].to,
                        mails'[i].to \notin reverted
                 PROVE  Apart(mails'[i].at, mails'[j].at)
      BY <1>0 DEF NagsSpaced, Apart
    <3>1. CASE i \in 1 .. Len(mails) /\ j \in 1 .. Len(mails)
      BY <2>2, <3>1 DEF NagInv, NagsSpaced, Apart
    <3>2. CASE i \in 1 .. Len(mails) /\ mails'[j] = m
      BY <2>1, <2>2, <2>10, <3>2 DEF Apart
    <3>3. CASE j \in 1 .. Len(mails) /\ mails'[i] = m
      BY <2>1, <2>2, <2>10, <3>3 DEF Apart
    <3>4. QED BY <2>3, <3>1, <3>2, <3>3
  <2>12. QED BY <2>6, <2>7, <2>8, <2>9, <2>11 DEF NagInv
<1>3. QED BY <1>1, <1>2 DEF SendNag, Send

LEMMA NagInvNext == RInv /\ NagInv /\ [RNext]_rVars => NagInv'
<1> SUFFICES ASSUME RInv, NagInv, [RNext]_rVars PROVE NagInv'
  OBVIOUS
<1>0. RTypeOK
  BY DEF RInv
<1>1. CASE UNCHANGED rVars
  BY <1>1, NagsStay DEF rVars, reportVars
<1>2. ASSUME NEW s \in Reporters, ClaimNag(s), RNext PROVE NagInv'
  BY <1>2, ClaimNagSpaced
<1>3. ASSUME NEW s \in Reporters, SendNag(s), RNext PROVE NagInv'
  BY <1>3, SendNagSpaced
<1>4. ASSUME NEW s \in Reporters,
             \/ PickReport(s) \/ PickNag(s) \/ ClaimReport(s) \/ SendReport(s)
             \/ SaveNag(s) \/ RRestart(s) \/ ROnSignal(s) \/ RCrash(s)
      PROVE  NagInv'
  <2>1. \A t \in Reporters : rpc'[t] = "sendNag" =>
          rpc[t] = "sendNag" /\ held'[t] = held[t]
    BY <1>0, <1>4
    DEF RTypeOK, PickReport, PickNag, ClaimReport, SendReport, SaveNag,
        RRestart, ROnSignal, RCrash, RGoes, LetGo, HoldFirst
  <2>2. \A i \in 1 .. Len(mails') : mails'[i].kind = "nag" =>
          i \in 1 .. Len(mails) /\ mails'[i] = mails[i]
    <3>1. CASE mails' = mails
      BY <3>1
    <3>2. CASE Send(s, "report", held[s].row.nextReport)
      BY <1>0, <3>2 DEF Send, RTypeOK
    <3>3. QED BY <1>4, <3>1, <3>2
      DEF PickReport, PickNag, ClaimReport, SendReport, SaveNag, RRestart,
          ROnSignal, RCrash
  <2>3. QED BY <2>1, <2>2, NagsStay
<1>5. CASE \/ RTick \/ (\E c \in Checks : CheckChange(c))
           \/ (\E u \in Updaters : UpdaterStep(u))
           \/ (\E q \in Requests : RRequestStep(q))
  <2>1. UNCHANGED <<rpc, held, mails>>
    BY <1>5
    DEF RTick, CheckChange, GetLate, Recover, GoDown, ComeUp, Change,
        UpdaterStep, FetchProfiles, LookAtChecks, WriteNagDate, RRequestStep,
        ReadProfile, LookForForm, NagForForm, SaveProfile, reportVars
  <2>2. QED BY <2>1, NagsStay
<1>6. QED BY <1>1, <1>2, <1>3, <1>4, <1>5 DEF RNext, RLoop

\* Two nags to a profile are more than the shortest period apart, whoever
\* sets, clears, claims or saves the date in between, unless an older value
\* is brought back.
THEOREM NagsKeepDistance == RSpec => []NagsSpaced
<1>1. RInit => NagInv
  BY DEF RInit, NagInv, MailsLater, ClaimsLater, ClaimsApart,
         ClaimsMailsApart, NagsSpaced
<1>2. NagInv => NagsSpaced
  BY DEF NagInv
<1>3. QED BY <1>1, <1>2, NagInvNext, RInvHolds, PTL DEF RSpec
=============================================================================
