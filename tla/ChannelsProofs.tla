--------------------------- MODULE ChannelsProofs ---------------------------
(***************************************************************************)
(* What channels promise, for any channels, threads and requests.          *)
(*                                                                         *)
(* Everything works on copies of rows.  The argument is that each copy is  *)
(* good for ever, whoever holds it: what it says of its address has been   *)
(* proven, and when it is disabled something asked for that, and neither   *)
(* is ever taken back.  So it does not matter when it is saved.            *)
(***************************************************************************)
EXTENDS Channels, FiniteSetTheorems, TLAPS

(***************************************************************************)
(* The table of transports.                                                *)
(***************************************************************************)

Outcomes == {"done", "again", "error", "permanent", "moved", "throws"}
AnswerNames ==
    {"ok", "failed", "unreachable", "invalid_number", "status404", "status410",
     "invalid_user", "invalid_token", "disconnected", "refused", "uninstalled",
     "no_token", "unregistered", "rate_limited", "timed_out", "blocked",
     "migrated"}
VerdictMaps == UNION {[D -> Outcomes] : D \in SUBSET AnswerNames}
IsVerdictMap(f) ==
    /\ f = [a \in DOMAIN f |-> f[a]]
    /\ DOMAIN f \subseteq AnswerNames
    /\ \A a \in DOMAIN f : f[a] \in Outcomes
Transport ==
    [on : {"both", "down", "config"}, gated : BOOLEAN,
     limited : {"none", "call", "sms", "bucket"}, tries : Nat, requests : Nat,
     verdict : VerdictMaps]

LEMMA VerdictMap ==
    ASSUME NEW f, IsVerdictMap(f)
    PROVE  f \in VerdictMaps
<1>1. f \in [DOMAIN f -> Outcomes]
  BY DEF IsVerdictMap
<1>2. QED
  BY <1>1 DEF VerdictMaps, IsVerdictMap

LEMMA TransportBuilt ==
    ASSUME NEW t \in Transport, NEW extra \in VerdictMaps
    PROVE  Gated(t) \in Transport /\ Verdicts(t, extra) \in Transport
<1>1. Gated(t) \in Transport
  BY DEF Gated, Transport
<1>2. PICK D \in SUBSET AnswerNames : extra \in [D -> Outcomes]
  BY DEF VerdictMaps
<1>3. PICK E \in SUBSET AnswerNames : t.verdict \in [E -> Outcomes]
  BY DEF VerdictMaps, Transport
<1>4. [a \in DOMAIN extra \union DOMAIN t.verdict |->
          IF a \in DOMAIN extra THEN extra[a] ELSE t.verdict[a]]
         \in [D \union E -> Outcomes]
  BY <1>2, <1>3
<1>5. D \union E \in SUBSET AnswerNames
  OBVIOUS
<1>6. [a \in DOMAIN extra \union DOMAIN t.verdict |->
          IF a \in DOMAIN extra THEN extra[a] ELSE t.verdict[a]] \in VerdictMaps
  BY <1>4, <1>5 DEF VerdictMaps
<1>7. Verdicts(t, extra) \in Transport
  BY <1>6 DEF Verdicts, Transport
<1>8. QED
  BY <1>1, <1>7

LEMMA PlainIsTransport == Plain \in Transport /\ Http \in Transport
<1>1. /\ IsVerdictMap([ok |-> "done", failed |-> "error"])
      /\ IsVerdictMap([ok |-> "done", failed |-> "again", unreachable |-> "again"])
  BY DEF IsVerdictMap, Outcomes, AnswerNames
<1>2. /\ [ok |-> "done", failed |-> "error"] \in VerdictMaps
      /\ [ok |-> "done", failed |-> "again", unreachable |-> "again"] \in VerdictMaps
  BY <1>1, VerdictMap
<1>3. Plain \in Transport
  BY <1>2 DEF Plain, Transport
<1>4. Http \in Transport
  BY <1>2, <1>3 DEF Http, Transport
<1>5. QED
  BY <1>3, <1>4

LEMMA EmailTransport ==
    /\ Email \in Transport
    /\ \A a \in DOMAIN Email.verdict : Email.verdict[a] \in {"done", "again", "throws"}
<1>1. IsVerdictMap(SmtpVerdict)
  BY DEF IsVerdictMap, Outcomes, AnswerNames, SmtpVerdict
<1>2. \A a \in DOMAIN SmtpVerdict : SmtpVerdict[a] \in {"done", "again", "throws"}
  BY DEF SmtpVerdict
<1>3. SmtpVerdict \in VerdictMaps
  BY <1>1, VerdictMap
<1>4. Email.verdict = SmtpVerdict /\ Email \in Transport
  BY <1>3, PlainIsTransport DEF Email, Transport
<1>5. QED
  BY <1>2, <1>4

LEMMA ServiceVerdicts ==
    /\ [invalid_number |-> "permanent"] \in VerdictMaps
    /\ [status404 |-> "permanent"] \in VerdictMaps
    /\ [status410 |-> "permanent"] \in VerdictMaps
    /\ [invalid_user |-> "permanent"] \in VerdictMaps
    /\ [status404 |-> "permanent", invalid_token |-> "permanent"] \in VerdictMaps
    /\ GitHubToken \in VerdictMaps
    /\ SignalReply \in VerdictMaps
    /\ TelegramErrors \in VerdictMaps
<1>1. IsVerdictMap([invalid_number |-> "permanent"])
  BY DEF IsVerdictMap, Outcomes, AnswerNames
<1>2. IsVerdictMap([status404 |-> "permanent"])
  BY DEF IsVerdictMap, Outcomes, AnswerNames
<1>3. IsVerdictMap([status410 |-> "permanent"])
  BY DEF IsVerdictMap, Outcomes, AnswerNames
<1>4. IsVerdictMap([invalid_user |-> "permanent"])
  BY DEF IsVerdictMap, Outcomes, AnswerNames
<1>5. IsVerdictMap([status404 |-> "permanent", invalid_token |-> "permanent"])
  BY DEF IsVerdictMap, Outcomes, AnswerNames
<1>6. IsVerdictMap(GitHubToken)
  BY DEF IsVerdictMap, Outcomes, AnswerNames, GitHubToken
<1>7. IsVerdictMap(SignalReply)
  BY DEF IsVerdictMap, Outcomes, AnswerNames, SignalReply
<1>8. IsVerdictMap(TelegramErrors)
  BY DEF IsVerdictMap, Outcomes, AnswerNames, TelegramErrors
<1>9. QED
  BY <1>1, <1>2, <1>3, <1>4, <1>5, <1>6, <1>7, <1>8, VerdictMap

LEMMA GatedAreTransports ==
    /\ Gated(Plain) \in Transport /\ Gated(Http) \in Transport
    /\ Twilio \in Transport
    /\ Slackalike \in Transport
BY PlainIsTransport, ServiceVerdicts, TransportBuilt DEF Twilio, Slackalike

LEMMA TransportsTyped == \A k \in Kinds : TransportOf[k] \in Transport
<1>1. Apprise \in Transport
  BY GatedAreTransports DEF Apprise
<1>2. Call \in Transport /\ Sms \in Transport /\ WhatsApp \in Transport
  BY GatedAreTransports DEF Call, Sms, WhatsApp, Transport
<1>3. Discord \in Transport
  BY PlainIsTransport, ServiceVerdicts, TransportBuilt DEF Discord
<1>4. GitHub \in Transport
  <2>1. Verdicts(Verdicts(Gated(Http), [status410 |-> "permanent"]), GitHubToken)
           \in Transport
    BY GatedAreTransports, ServiceVerdicts, TransportBuilt
  <2>2. QED
    BY <2>1 DEF GitHub, Transport
<1>5. GoogleChat \in Transport /\ Matrix \in Transport /\ Pushbullet \in Transport
      /\ Group \in Transport
  BY PlainIsTransport DEF GoogleChat, Matrix, Pushbullet, Group
<1>6. Gotify \in Transport /\ Ntfy \in Transport
  BY PlainIsTransport DEF Gotify, Ntfy, Transport
<1>7. /\ Mattermost \in Transport /\ MsTeamsWorkflow \in Transport
      /\ Opsgenie \in Transport /\ PagerTree \in Transport /\ PagerDuty \in Transport
      /\ RocketChat \in Transport /\ Spike \in Transport /\ Zulip \in Transport
  BY GatedAreTransports DEF Mattermost, MsTeamsWorkflow, Opsgenie, PagerTree,
     PagerDuty, RocketChat, Spike, Zulip
<1>8. Pushover \in Transport
  <2>1. Verdicts(Gated(Http), [invalid_user |-> "permanent"]) \in Transport
    BY GatedAreTransports, ServiceVerdicts, TransportBuilt
  <2>2. QED
    BY <2>1 DEF Pushover, Transport
<1>9. Shell \in Transport /\ Trello \in Transport /\ Webhook \in Transport
  BY GatedAreTransports DEF Shell, Trello, Webhook, Transport
<1>10. Signal \in Transport
  <2>1. Verdicts(Gated(Plain), SignalReply) \in Transport
    BY GatedAreTransports, ServiceVerdicts, TransportBuilt
  <2>2. QED
    BY <2>1 DEF Signal, Transport
<1>11. Slack \in Transport
  BY GatedAreTransports, ServiceVerdicts, TransportBuilt DEF Slack
<1>12. Telegram \in Transport
  <2>1. Verdicts(Http, TelegramErrors) \in Transport
    BY PlainIsTransport, ServiceVerdicts, TransportBuilt
  <2>2. QED
    BY <2>1 DEF Telegram, Transport
<1>13. VictorOps \in Transport
  BY GatedAreTransports, ServiceVerdicts, TransportBuilt DEF VictorOps
<1>14. Email \in Transport
  BY EmailTransport
<1>15. QED
  BY <1>1, <1>2, <1>3, <1>4, <1>5, <1>6, <1>7, <1>8, <1>9, <1>10, <1>11, <1>12,
     <1>13, <1>14 DEF Kinds, TransportOf

LEMMA EmailIsEmail == "email" \in Kinds /\ TransportOf["email"] = Email
BY DEF Kinds, TransportOf

\* Only a service that says so for good gives up on a channel, and only a
\* Telegram group moves.
LEMMA VerdictIs ==
    ASSUME NEW kind \in Kinds, NEW tries \in Int,
           NEW answer \in DOMAIN TransportOf[kind].verdict
    PROVE  LET v == Verdict(kind, answer, tries) IN
           /\ v \in Outcomes
           /\ v \notin {"throws", "done", "again", "error"} =>
                 TransportOf[kind].verdict[answer] \in {"permanent", "moved"}
           /\ kind = "email" => v \in {"done", "again", "throws"}
<1>1. TransportOf[kind].verdict[answer] \in Outcomes
  <2>1. TransportOf[kind].verdict \in VerdictMaps
    BY TransportsTyped DEF Transport
  <2>2. QED
    BY <2>1 DEF VerdictMaps
<1>2. kind = "email" =>
          TransportOf[kind].verdict[answer] \in {"done", "again", "throws"}
  BY EmailIsEmail, EmailTransport
<1>3. QED
  BY <1>1, <1>2 DEF Verdict, Outcomes

\* Tries and requests left, at the start of a notification.
LEMMA CountsTyped ==
    ASSUME NEW s, NEW kind \in Kinds
    PROVE  Tries(s, kind) \in Nat /\ Requests(s, kind) \in Nat
BY TransportsTyped DEF Tries, Requests, Transport

(***************************************************************************)
(* The good rows, and the copies of them.                                  *)
(***************************************************************************)

GoodRows(c) ==
    {row \in ChannelRow :
        /\ row.kind = "email" /\ row.verified => row.value \in proven[c]
        /\ row.disabled => c \in causes}

GoodCopies ==
    {copy \in [id : ChannelIds, row : ChannelRow] : copy.row \in GoodRows(copy.id)}

Frame ==
    [id : ChannelIds, row : ChannelRow, note : Nat,
     step : {"send", "settle", "save"}, tries : Int, requests : Int,
     moved : BOOLEAN, members : SUBSET [id : ChannelIds, row : ChannelRow],
     error : {"", "failed"}, disabled : BOOLEAN]

GoodFrames ==
    {f \in Frame :
        /\ f.row \in GoodRows(f.id)
        /\ f.members \subseteq GoodCopies
        /\ f.disabled => f.id \in causes
        /\ f.row.kind = "email" /\ f.step = "send" => f.row.verified}

\* The first copy of `todo` is the one it works on.
GoodThreads ==
    {t \in [status : Both, test : BOOLEAN, todo : Seq(GoodCopies),
            frames : Seq(GoodFrames)] :
        t.frames # <<>> => t.todo # <<>>}

WebRequest ==
    [step : {"save", "link"}, id : ChannelIds, row : ChannelRow,
     form : BOOLEAN, adding : BOOLEAN]

GoodRequests == {NoRequest} \union {r \in WebRequest : r.row \in GoodRows(r.id)}

Note == [id : ChannelIds, test : BOOLEAN,
         error : {"Sending", "", "failed", "reported"}, sent : BOOLEAN]

RowsGood ==
    /\ chan \in [ChannelIds -> ChannelRow \union {NoRow}]
    /\ \A c \in Existing : chan[c] \in GoodRows(c)

\* The notifications of a channel go with it.
NotesHaveChannels ==
    /\ notes \in Seq(Note \union {NoRow})
    /\ \A n \in DOMAIN notes : notes[n] # NoRow => Exists(notes[n].id)

ThreadsGood == thread \in [Threads -> GoodThreads]

RequestsGood == request \in [WebRequests -> GoodRequests]

HistoryTyped ==
    /\ proven \in [ChannelIds -> SUBSET Targets]
    /\ \A c \in ChannelIds : OwnAddress \in proven[c]
    /\ assigned \subseteq ChannelIds

GoodForEver ==
    RowsGood /\ NotesHaveChannels /\ ThreadsGood /\ RequestsGood /\ HistoryTyped

LEMMA SeqEnds ==
    ASSUME NEW S, NEW q \in Seq(S), q # <<>>
    PROVE  /\ Head(q) \in S /\ Tail(q) \in Seq(S)
           /\ Last(q) \in S /\ Front(q) \in Seq(S)
BY DEF Last, Front

LEMMA SeqGrows ==
    ASSUME NEW S, NEW T, S \subseteq T
    PROVE  Seq(S) \subseteq Seq(T)
OBVIOUS

\* What is proven, or has a cause, stays so.
Grown ==
    /\ \A c \in ChannelIds : proven[c] \subseteq proven'[c]
    /\ causes \subseteq causes'

LEMMA GoodGrows ==
    ASSUME Grown
    PROVE  /\ \A c \in ChannelIds : GoodRows(c) \subseteq GoodRows(c)'
           /\ GoodCopies \subseteq GoodCopies'
           /\ GoodFrames \subseteq GoodFrames'
           /\ GoodThreads \subseteq GoodThreads'
           /\ GoodRequests \subseteq GoodRequests'
<1>1. \A c \in ChannelIds : GoodRows(c) \subseteq GoodRows(c)'
  BY DEF Grown, GoodRows
<1>2. GoodCopies \subseteq GoodCopies'
  BY <1>1 DEF GoodCopies
<1>3. GoodFrames \subseteq GoodFrames'
  BY <1>1, <1>2 DEF GoodFrames, Frame, Grown
<1>4. GoodThreads \subseteq GoodThreads'
  <2>1. /\ Seq(GoodCopies) \subseteq Seq(GoodCopies')
        /\ Seq(GoodFrames) \subseteq Seq(GoodFrames')
    BY <1>2, <1>3, SeqGrows
  <2>2. QED
    BY <2>1 DEF GoodThreads
<1>5. GoodRequests \subseteq GoodRequests'
  BY <1>1 DEF GoodRequests, WebRequest
<1>6. QED
  BY <1>1, <1>2, <1>3, <1>4, <1>5

LEMMA InitGood == ChannelsInit => GoodForEver
<1> SUFFICES ASSUME ChannelsInit PROVE GoodForEver
  OBVIOUS
<1> USE ChannelAssumption
<1>1. PICK f \in FirstKind, on \in Configured :
         chan = [c \in ChannelIds |->
                    IF c \notin DOMAIN f THEN NoRow
                    ELSE IF f[c] = "group"
                    THEN NewChannel("group", ChannelIds \ {c}, on)
                    ELSE [NewChannel(f[c], OwnAddress, on)
                            EXCEPT !.verified = TRUE]]
  BY DEF ChannelsInit
<1>2. proven = [c \in ChannelIds |-> {OwnAddress}] /\ assigned = Existing
  BY DEF ChannelsInit
<1>3. ASSUME NEW c \in ChannelIds, c \in DOMAIN f
      PROVE  chan[c] \in GoodRows(c)
  <2>1. f[c] \in Kinds /\ on \in SUBSET Both
    BY <1>3
  <2>2. CASE f[c] = "group"
    BY <1>1, <1>3, <2>1, <2>2 DEF NewChannel, GoodRows, ChannelRow
  <2>3. CASE f[c] # "group"
    BY <1>1, <1>2, <1>3, <2>1, <2>3 DEF NewChannel, GoodRows, ChannelRow
  <2>4. QED
    BY <2>2, <2>3
<1>4. RowsGood
  <2>1. \A c \in ChannelIds : c \notin DOMAIN f => chan[c] = NoRow
    BY <1>1
  <2>2. \A c \in ChannelIds : chan[c] \in ChannelRow \union {NoRow}
    BY <1>3, <2>1 DEF GoodRows
  <2>3. chan = [c \in ChannelIds |-> chan[c]]
    BY <1>1
  <2>4. QED
    BY <1>3, <2>1, <2>2, <2>3 DEF RowsGood, Existing, Exists
<1>5. NotesHaveChannels
  BY DEF ChannelsInit, NotesHaveChannels
<1>6. ThreadsGood
  BY DEF ChannelsInit, ThreadsGood, GoodThreads, Idle, Both
<1>7. RequestsGood
  BY DEF ChannelsInit, RequestsGood, GoodRequests
<1>8. HistoryTyped
  BY <1>2 DEF HistoryTyped, Existing
<1>9. QED
  BY <1>4, <1>5, <1>6, <1>7, <1>8 DEF GoodForEver

\* A copy is good as long as the row it is taken from is.
LEMMA CopiesGood ==
    ASSUME RowsGood, NEW ids \in SUBSET Existing
    PROVE  Copies(ids) \subseteq GoodCopies
BY DEF Copies, GoodCopies, GoodRows, RowsGood, Existing

\* A step that changes what one thread works on.
LEMMA OneThread ==
    ASSUME GoodForEver, Grown, NEW s \in Threads, NEW t \in GoodThreads',
           thread' = [thread EXCEPT ![s] = t]
    PROVE  ThreadsGood'
<1>1. \A r \in Threads : thread[r] \in GoodThreads'
  BY GoodGrows DEF ThreadsGood, GoodForEver
<1>2. thread' \in [Threads -> GoodThreads']
  BY <1>1 DEF ThreadsGood, GoodForEver
<1>3. QED
  BY <1>2 DEF ThreadsGood

LEMMA NothingTakenBack ==
    ASSUME UNCHANGED <<proven, causes>>
    PROVE  /\ Grown
           /\ \A c : GoodRows(c)' = GoodRows(c)
           /\ GoodCopies' = GoodCopies
           /\ GoodFrames' = GoodFrames
           /\ GoodThreads' = GoodThreads
           /\ GoodRequests' = GoodRequests
<1>1. Grown
  BY DEF Grown
<1>2. \A c : GoodRows(c)' = GoodRows(c)
  BY DEF GoodRows
<1>3. GoodCopies' = GoodCopies
  BY <1>2 DEF GoodCopies
<1>4. GoodFrames' = GoodFrames
  BY <1>2, <1>3 DEF GoodFrames
<1>5. GoodThreads' = GoodThreads
  BY <1>3, <1>4 DEF GoodThreads
<1>6. GoodRequests' = GoodRequests
  BY <1>2 DEF GoodRequests
<1>7. QED
  BY <1>1, <1>2, <1>3, <1>4, <1>5, <1>6

\* What a step that changes only threads and notifications has to show.
LEMMA SenderStep ==
    ASSUME GoodForEver, ThreadsGood', NotesHaveChannels',
           UNCHANGED <<chan, assigned, request, proven, causes>>
    PROVE  GoodForEver'
<1>1. RowsGood'
  BY NothingTakenBack DEF GoodForEver, RowsGood, Existing, Exists
<1>2. RequestsGood'
  BY NothingTakenBack DEF GoodForEver, RequestsGood
<1>3. HistoryTyped'
  BY DEF GoodForEver, HistoryTyped
<1>4. QED
  BY <1>1, <1>2, <1>3 DEF GoodForEver

LEMMA NotesKept ==
    ASSUME GoodForEver, UNCHANGED <<chan, notes>>
    PROVE  NotesHaveChannels'
BY DEF GoodForEver, NotesHaveChannels, Exists

LEMMA StartFlipGood ==
    ASSUME GoodForEver, NEW s \in Threads, NEW status \in Both, StartFlip(s, status)
    PROVE  GoodForEver'
<1> DEFINE ids == SelectChannels(status)
<1>1. ids \in SUBSET Existing /\ ids \subseteq ChannelIds
  BY DEF SelectChannels, Existing, GoodForEver, HistoryTyped
<1>2. IsFiniteSet(ids)
  BY <1>1, FS_Subset, ChannelAssumption
<1>3. IsFiniteSet(Copies(ids))
  <2> DEFINE copy == [c \in ids |-> [id |-> c, row |-> chan[c]]]
  <2>1. copy \in Surjection(ids, Copies(ids))
    BY DEF Surjection, Copies
  <2>2. QED
    BY <1>2, <2>1, FS_Surjection
<1>4. Cardinality(Copies(ids)) \in Nat
  BY <1>3, FS_CardinalityType
<1>5. PICK list \in SetToSeqs(Copies(ids)) :
         thread' = [thread EXCEPT ![s].todo = list, ![s].status = status]
  BY DEF StartFlip
<1>6. list \in [1 .. Cardinality(Copies(ids)) -> Copies(ids)]
  BY <1>5 DEF SetToSeqs
<1>7. list \in Seq(Copies(ids))
  BY <1>4, <1>6
<1>8. Copies(ids) \subseteq GoodCopies
  BY <1>1, CopiesGood DEF GoodForEver
<1>9. list \in Seq(GoodCopies)
  BY <1>7, <1>8, SeqGrows
<1>10. ThreadsGood'
  <2> DEFINE t == [thread[s] EXCEPT !.todo = list, !.status = status]
  <2>1. t \in GoodThreads
    <3>1. thread[s] \in GoodThreads /\ thread[s].frames = <<>>
      <4>1. thread[s] = Idle
        BY DEF StartFlip
      <4>2. thread[s] \in GoodThreads
        BY DEF GoodForEver, ThreadsGood
      <4>3. QED
        BY <4>1, <4>2 DEF Idle
    <3>2. QED
      BY <1>9, <3>1 DEF GoodThreads
  <2>2. thread' = [thread EXCEPT ![s] = t]
    BY <1>5 DEF GoodForEver, ThreadsGood, GoodThreads
  <2>3. QED
    BY <2>1, <2>2, OneThread, NothingTakenBack DEF StartFlip, historyVars
<1>11. QED
  BY <1>10, SenderStep, NotesKept DEF StartFlip, historyVars

LEMMA StartTestGood ==
    ASSUME GoodForEver, NEW s \in Threads, NEW c \in ChannelIds, StartTest(s, c)
    PROVE  GoodForEver'
<1> DEFINE copy == [id |-> c, row |-> chan[c]]
<1>1. copy \in GoodCopies
  BY DEF StartTest, GoodForEver, RowsGood, Existing, Exists, GoodCopies, GoodRows
<1>2. <<copy>> \in Seq(GoodCopies)
  BY <1>1
<1>3. ThreadsGood'
  <2> DEFINE t == [thread[s] EXCEPT !.todo = <<copy>>, !.test = TRUE]
  <2>1. t \in GoodThreads
    <3>1. thread[s] \in GoodThreads /\ thread[s].frames = <<>>
      BY DEF GoodForEver, ThreadsGood, StartTest, Idle
    <3>2. QED
      BY <1>2, <3>1 DEF GoodThreads
  <2>2. thread' = [thread EXCEPT ![s] = t]
    BY DEF StartTest, GoodForEver, ThreadsGood, GoodThreads
  <2>3. QED
    BY <2>1, <2>2, OneThread, NothingTakenBack DEF StartTest, historyVars
<1>4. NotesHaveChannels'
  <2>1. /\ \A n \in DOMAIN notes : notes'[n] \in {notes[n], NoRow}
        /\ DOMAIN notes' = DOMAIN notes
        /\ notes' = [n \in DOMAIN notes |-> notes'[n]]
        /\ chan' = chan
    BY DEF StartTest
  <2>2. QED
    BY <2>1 DEF GoodForEver, NotesHaveChannels, Exists
<1>5. QED
  BY <1>3, <1>4, SenderStep DEF StartTest, historyVars

\* A new notification: it is on a row that exists, and a transport that
\* sends to an address goes on only when the copy says it is verified.
LEMMA NotifyGood ==
    ASSUME GoodForEver, NEW s \in Threads, NEW copy \in GoodCopies,
           NEW frames \in Seq(GoodFrames), Notify(s, copy, frames),
           thread[s].todo # <<>>,
           UNCHANGED <<chan, assigned, request, proven, causes>>
    PROVE  GoodForEver'
<1>1. PICK refused \in BOOLEAN :
         /\ Unable(copy) => refused
         /\ thread' = [thread EXCEPT ![s].frames = Append(frames,
                         NewFrame(s, copy, Len(notes) + 1, refused))]
  BY DEF Notify
<1> DEFINE f == NewFrame(s, copy, Len(notes) + 1, refused)
<1>2. copy.id \in ChannelIds /\ copy.row \in ChannelRow /\ copy.row \in GoodRows(copy.id)
  BY DEF GoodCopies
<1>3. copy.row.kind \in Kinds
  BY <1>2 DEF ChannelRow
<1>4. MembersOf(copy.row) \subseteq GoodCopies
  <2>1. Copies(copy.row.value \intersect Existing) \subseteq GoodCopies
    BY CopiesGood DEF GoodForEver
  <2>2. QED
    BY <2>1 DEF MembersOf
<1>5. Tries(s, copy.row.kind) \in Int /\ Requests(s, copy.row.kind) \in Int
  BY <1>3, CountsTyped
<1>6. Len(notes) + 1 \in Nat
  BY DEF GoodForEver, NotesHaveChannels
<1>7. MembersOf(copy.row) \in SUBSET [id : ChannelIds, row : ChannelRow]
  BY <1>4 DEF GoodCopies
<1>8. f \in Frame
  BY <1>2, <1>5, <1>6, <1>7 DEF NewFrame, Frame, ChannelRow
<1>9. f \in GoodFrames
  BY <1>1, <1>2, <1>4, <1>8 DEF GoodFrames, NewFrame, Unable, GoodRows
<1>10. Append(frames, f) \in Seq(GoodFrames)
  BY <1>9
<1>11. ThreadsGood'
  <2> DEFINE t == [thread[s] EXCEPT !.frames = Append(frames, f)]
  <2>1. t \in GoodThreads
    BY <1>10 DEF GoodForEver, ThreadsGood, GoodThreads
  <2>2. thread' = [thread EXCEPT ![s] = t]
    BY <1>1 DEF GoodForEver, ThreadsGood, GoodThreads
  <2>3. QED
    BY <2>1, <2>2, OneThread, NothingTakenBack
<1>12. NotesHaveChannels'
  <2> DEFINE note == [id |-> copy.id, test |-> thread[s].test,
                      error |-> "Sending", sent |-> FALSE]
  <2>1. notes' = Append(notes, note) /\ Exists(copy.id)
    BY DEF Notify
  <2>2. note \in Note
    BY <1>2 DEF Note, GoodForEver, ThreadsGood, GoodThreads
  <2>3. QED
    BY <2>1, <2>2 DEF GoodForEver, NotesHaveChannels, Exists
<1>13. QED
  BY <1>11, <1>12, SenderStep

LEMMA NextCopyGood ==
    ASSUME GoodForEver, NEW s \in Threads, thread[s].todo # <<>>
    PROVE  /\ Head(thread[s].todo) \in GoodCopies
           /\ Tail(thread[s].todo) \in Seq(GoodCopies)
<1>1. thread[s].todo \in Seq(GoodCopies)
  BY DEF GoodForEver, ThreadsGood, GoodThreads
<1>2. QED
  BY <1>1, SeqEnds

LEMMA NotifyNextGood ==
    ASSUME GoodForEver, NEW s \in Threads, NotifyNext(s)
    PROVE  GoodForEver'
<1>1. Head(thread[s].todo) \in GoodCopies
  BY NextCopyGood DEF NotifyNext
<1>2. <<>> \in Seq(GoodFrames)
  OBVIOUS
<1>3. QED
  BY <1>1, <1>2, NotifyGood DEF NotifyNext, historyVars

LEMMA IdleGood == Idle \in GoodThreads
BY DEF Idle, GoodThreads, Both

LEMMA NextChannelGood ==
    ASSUME GoodForEver, NEW s \in Threads, thread[s].todo # <<>>
    PROVE  NextChannel(s) \in GoodThreads
<1>1. Tail(thread[s].todo) \in Seq(GoodCopies) /\ thread[s] \in GoodThreads
  BY NextCopyGood DEF GoodForEver, ThreadsGood
<1>2. <<>> \in Seq(GoodFrames)
  OBVIOUS
<1>3. QED
  BY <1>1, <1>2, IdleGood DEF NextChannel, GoodThreads

LEMMA SkipNextGood ==
    ASSUME GoodForEver, NEW s \in Threads, SkipNext(s)
    PROVE  GoodForEver'
<1>1. thread[s].todo # <<>> /\ UNCHANGED <<proven, causes>>
  BY DEF SkipNext, historyVars
<1>2. ThreadsGood'
  <2>1. CASE thread' = [thread EXCEPT ![s].status = "up"]
    <3> DEFINE t == [thread[s] EXCEPT !.status = "up"]
    <3>1. t \in GoodThreads
      BY DEF GoodForEver, ThreadsGood, GoodThreads, Both
    <3>2. thread' = [thread EXCEPT ![s] = t]
      BY <2>1 DEF GoodForEver, ThreadsGood, GoodThreads
    <3>3. QED
      BY <1>1, <3>1, <3>2, OneThread, NothingTakenBack
  <2>2. CASE thread' = [thread EXCEPT ![s] = NextChannel(s)]
    BY <1>1, <2>2, NextChannelGood, OneThread, NothingTakenBack
  <2>3. QED
    BY <2>1, <2>2 DEF SkipNext
<1>3. QED
  BY <1>2, SenderStep, NotesKept DEF SkipNext, historyVars

\* The notification a thread works on, and the ones that wait for it.
LEMMA FramesGood ==
    ASSUME GoodForEver, NEW s \in Threads, thread[s].frames # <<>>
    PROVE  Top(s) \in GoodFrames /\ Below(s) \in Seq(GoodFrames)
<1>1. thread[s].frames \in Seq(GoodFrames)
  BY DEF GoodForEver, ThreadsGood, GoodThreads
<1>2. QED
  BY <1>1, SeqEnds DEF Top, Below

LEMMA WithTopGood ==
    ASSUME GoodForEver, Grown, NEW s \in Threads, thread[s].frames # <<>>,
           NEW f \in GoodFrames', WithTop(s, f)
    PROVE  ThreadsGood'
<1>1. Below(s) \in Seq(GoodFrames')
  BY FramesGood, GoodGrows, SeqGrows
<1>2. Append(Below(s), f) \in Seq(GoodFrames')
  BY <1>1
<1> DEFINE t == [thread[s] EXCEPT !.frames = Append(Below(s), f)]
<1>3. thread[s] \in GoodThreads'
  BY GoodGrows DEF GoodForEver, ThreadsGood
<1>4. t \in GoodThreads'
  BY <1>2, <1>3 DEF GoodThreads
<1>5. thread' = [thread EXCEPT ![s] = t]
  BY DEF WithTop, GoodForEver, ThreadsGood, GoodThreads
<1>6. QED
  BY <1>4, <1>5, OneThread

LEMMA NotifyMemberGood ==
    ASSUME GoodForEver, NEW s \in Threads, NotifyMember(s)
    PROVE  GoodForEver'
<1>1. /\ thread[s].frames # <<>>
      /\ UNCHANGED <<chan, assigned, request, proven, causes>>
  BY DEF NotifyMember, Sends, historyVars
<1>2. Top(s) \in GoodFrames /\ Below(s) \in Seq(GoodFrames)
  BY <1>1, FramesGood
<1>3. PICK m \in Top(s).members :
         LET parent == [Top(s) EXCEPT !.members = @ \ {m}] IN
         \/ WithTop(s, parent) /\ UNCHANGED notes
         \/ Notify(s, m, Append(Below(s), parent))
         \/ WithTop(s, [parent EXCEPT !.error = "failed"]) /\ UNCHANGED notes
  BY DEF NotifyMember
<1> DEFINE parent == [Top(s) EXCEPT !.members = @ \ {m}]
<1> DEFINE counted == [parent EXCEPT !.error = "failed"]
<1>4. m \in GoodCopies
  BY <1>2, <1>3 DEF GoodFrames
<1>5. parent \in GoodFrames
  BY <1>2 DEF GoodFrames, Frame
<1>6. counted \in GoodFrames
  BY <1>5 DEF GoodFrames, Frame
<1>7. CASE \/ WithTop(s, parent) /\ UNCHANGED notes
           \/ WithTop(s, counted) /\ UNCHANGED notes
  BY <1>1, <1>5, <1>6, <1>7, WithTopGood, NothingTakenBack, SenderStep, NotesKept
<1>8. CASE Notify(s, m, Append(Below(s), parent))
  <2>1. Append(Below(s), parent) \in Seq(GoodFrames)
    BY <1>2, <1>5
  <2>2. thread[s].todo # <<>>
    BY <1>1 DEF GoodForEver, ThreadsGood, GoodThreads
  <2>3. QED
    BY <1>1, <1>4, <1>8, <2>1, <2>2, NotifyGood
<1>9. QED
  BY <1>3, <1>7, <1>8

LEMMA MembersDoneGood ==
    ASSUME GoodForEver, NEW s \in Threads, MembersDone(s)
    PROVE  GoodForEver'
<1>1. thread[s].frames # <<>>
  BY DEF MembersDone, Sends
<1>2. [Top(s) EXCEPT !.step = "settle"] \in GoodFrames
  BY <1>1, FramesGood DEF GoodFrames, Frame
<1>3. ThreadsGood'
  BY <1>1, <1>2, WithTopGood, NothingTakenBack DEF MembersDone, historyVars
<1>4. QED
  BY <1>3, SenderStep, NotesKept DEF MembersDone, historyVars

\* Notifications that change, but not their channels.
LEMMA NotesChanged ==
    ASSUME GoodForEver,
           notes' \in Seq(Note \union {NoRow}), DOMAIN notes' = DOMAIN notes,
           \A n \in DOMAIN notes : notes'[n] # NoRow =>
               notes[n] # NoRow /\ notes'[n].id = notes[n].id,
           \A c \in ChannelIds : chan[c] # NoRow => chan'[c] # NoRow
    PROVE  NotesHaveChannels'
<1>1. ASSUME NEW i \in DOMAIN notes', notes'[i] # NoRow
      PROVE  chan'[notes'[i].id] # NoRow
  <2>1. notes[i] # NoRow /\ notes'[i].id = notes[i].id
    BY <1>1
  <2>2. chan[notes[i].id] # NoRow
    BY <1>1, <2>1 DEF GoodForEver, NotesHaveChannels, Exists
  <2>3. notes[i] \in Note
    BY <1>1, <2>1 DEF GoodForEver, NotesHaveChannels
  <2>4. notes[i].id \in ChannelIds
    BY <2>3 DEF Note
  <2>5. QED
    BY <2>1, <2>2, <2>4
<1>2. QED
  BY <1>1 DEF NotesHaveChannels, Exists

\* The row of one notification changes, if it is still there.
LEMMA NoteChanged ==
    ASSUME GoodForEver, NEW n, NEW row,
           n \in DOMAIN notes =>
               notes[n] # NoRow /\ row \in Note /\ row.id = notes[n].id,
           notes' = [notes EXCEPT ![n] = row],
           \A c \in ChannelIds : chan[c] # NoRow => chan'[c] # NoRow
    PROVE  NotesHaveChannels'
<1>1. notes \in Seq(Note \union {NoRow})
  BY DEF GoodForEver, NotesHaveChannels
<1>2. notes' \in Seq(Note \union {NoRow}) /\ DOMAIN notes' = DOMAIN notes
  <2>1. notes \in [1 .. Len(notes) -> Note \union {NoRow}] /\ Len(notes) \in Nat
    BY <1>1
  <2>2. notes' \in [1 .. Len(notes) -> Note \union {NoRow}]
    BY <2>1
  <2>3. QED
    BY <2>1, <2>2
<1>3. \A i \in DOMAIN notes : notes'[i] # NoRow =>
         notes[i] # NoRow /\ notes'[i].id = notes[i].id
  BY <1>1
<1>4. QED
  BY <1>2, <1>3, NotesChanged

\* A save, of a good row.
LEMMA RowSaved ==
    ASSUME GoodForEver, Grown, NEW c \in ChannelIds, NEW row \in GoodRows(c)',
           chan' = [chan EXCEPT ![c] = row]
    PROVE  /\ RowsGood'
           /\ \A i \in ChannelIds : chan[i] # NoRow => chan'[i] # NoRow
<1>1. row \in ChannelRow /\ row # NoRow
  BY ChannelAssumption DEF GoodRows
<1>2. chan \in [ChannelIds -> ChannelRow \union {NoRow}]
  BY DEF GoodForEver, RowsGood
<1>3. chan' \in [ChannelIds -> ChannelRow \union {NoRow}]
  BY <1>1, <1>2
<1>4. \A i \in ChannelIds : chan[i] # NoRow => chan[i] \in GoodRows(i)'
  BY GoodGrows DEF GoodForEver, RowsGood, Existing, Exists
<1>5. \A i \in ChannelIds : chan'[i] = IF i = c THEN row ELSE chan[i]
  BY <1>2
<1>6. \A i \in ChannelIds : chan'[i] # NoRow => chan'[i] \in GoodRows(i)'
  BY <1>4, <1>5
<1>7. RowsGood'
  BY <1>3, <1>6 DEF RowsGood, Existing, Exists
<1>8. QED
  BY <1>1, <1>5, <1>7

\* No row is changed.
LEMMA RowsKept ==
    ASSUME GoodForEver, Grown, UNCHANGED chan
    PROVE  /\ RowsGood'
           /\ \A i \in ChannelIds : chan[i] # NoRow => chan'[i] # NoRow
<1>1. \A i \in ChannelIds : chan[i] # NoRow => chan[i] \in GoodRows(i)'
  BY GoodGrows DEF GoodForEver, RowsGood, Existing, Exists
<1>2. QED
  BY <1>1 DEF GoodForEver, RowsGood, Existing, Exists

LEMMA ThreadsKept ==
    ASSUME GoodForEver, Grown, UNCHANGED thread
    PROVE  ThreadsGood'
BY GoodGrows DEF GoodForEver, ThreadsGood

LEMMA RequestsKept ==
    ASSUME GoodForEver, Grown, UNCHANGED request
    PROVE  RequestsGood'
BY GoodGrows DEF GoodForEver, RequestsGood

\* The answer of a service: a copy that moves is not one of an address, and
\* a channel is given up only for a cause.
LEMMA AttemptGood ==
    ASSUME GoodForEver, NEW s \in Threads, NEW answer \in Answers, Attempt(s, answer)
    PROVE  GoodForEver'
<1>0. PICK f : f = Top(s)
  OBVIOUS
<1> DEFINE v == Verdict(f.row.kind, answer, f.tries)
           gone == TransportOf[f.row.kind].verdict[answer] \in {"permanent", "moved"}
<1>1. /\ thread[s].frames # <<>> /\ f.step = "send"
      /\ answer \in DOMAIN TransportOf[f.row.kind].verdict
      /\ UNCHANGED <<assigned, request, linked, proven>>
      /\ causes' = IF gone THEN causes \union {f.id} ELSE causes
  BY <1>0 DEF Attempt, Sends
<1>2. Grown
  BY <1>1 DEF Grown
<1>3. f \in GoodFrames /\ f \in GoodFrames' /\ f.row \in GoodRows(f.id)'
  <2>1. f \in GoodFrames /\ f \in GoodFrames'
    BY <1>0, <1>1, <1>2, FramesGood, GoodGrows
  <2>2. QED
    BY <2>1 DEF GoodFrames
<1>4. /\ f.id \in ChannelIds /\ f.row \in ChannelRow /\ f.row.kind \in Kinds
      /\ f.tries \in Int /\ f.requests \in Int
  BY <1>3 DEF GoodFrames, Frame, ChannelRow
<1>5. /\ v \notin {"throws", "done", "again", "error"} => f.id \in causes'
      /\ f.row.kind = "email" => v \in {"done", "again", "throws"}
  BY <1>1, <1>4, VerdictIs
<1>6. /\ Tries(s, f.row.kind) \in Int
  BY <1>4, CountsTyped
<1> HIDE DEF v, gone
<1>7. /\ notes' = IF v = "done" /\ notes[f.note] # NoRow
                  THEN [notes EXCEPT ![f.note].sent = TRUE] ELSE notes
      /\ \/ /\ v = "moved" /\ ~f.moved
            /\ \E target \in Targets : SaveMoved(s, target)
         \/ /\ v = "throws"
            /\ thread' = [thread EXCEPT ![s] = Idle]
            /\ UNCHANGED chan
         \/ /\ v # "throws" /\ (v = "moved" => f.moved)
            /\ WithTop(s,
                  CASE v = "done" /\ f.requests > 1 ->
                         [f EXCEPT !.requests = @ - 1,
                                   !.tries = Tries(s, f.row.kind)]
                    [] v = "done"  -> [f EXCEPT !.step = "settle"]
                    [] v = "again" -> [f EXCEPT !.tries = @ - 1]
                    [] v = "error" -> [f EXCEPT !.step = "settle",
                                                !.error = "failed"]
                    [] OTHER       -> [f EXCEPT !.step = "settle",
                                                !.error = "failed",
                                                !.disabled = TRUE])
            /\ UNCHANGED chan
  BY <1>0 DEF Attempt, v
<1>8. /\ ThreadsGood' /\ RowsGood'
      /\ \A i \in ChannelIds : chan[i] # NoRow => chan'[i] # NoRow
  <2>1. CASE v = "moved" /\ ~f.moved /\ \E target \in Targets : SaveMoved(s, target)
    <3>1. PICK target \in Targets : SaveMoved(s, target)
      BY <2>1
    <3> DEFINE row == [f.row EXCEPT !.value = target]
               g == [f EXCEPT !.row = row, !.moved = TRUE, !.tries = Tries(s, row.kind)]
    <3>2. /\ chan' = [chan EXCEPT ![f.id] = row]
          /\ WithTop(s, g)
      BY <1>0, <3>1 DEF SaveMoved
    <3>3. row \in ChannelRow /\ row.kind = f.row.kind /\ row.disabled = f.row.disabled
      BY <1>4 DEF ChannelRow
    <3>4. f.row.kind # "email"
      BY <1>5, <2>1
    <3>5. row \in GoodRows(f.id)'
      BY <1>3, <3>3, <3>4 DEF GoodRows
    <3>6. g \in GoodFrames'
      BY <1>3, <1>6, <3>3, <3>4, <3>5 DEF GoodFrames, Frame
    <3>7. QED
      BY <1>1, <1>2, <1>4, <3>2, <3>5, <3>6, RowSaved, WithTopGood
  <2>2. CASE v = "throws" /\ thread' = [thread EXCEPT ![s] = Idle] /\ UNCHANGED chan
    <3>1. Idle \in GoodThreads'
      BY <1>2, IdleGood, GoodGrows
    <3>2. QED
      BY <1>2, <2>2, <3>1, OneThread, RowsKept
  <2>3. ASSUME NEW g, WithTop(s, g), UNCHANGED chan, v # "throws",
               g = CASE v = "done" /\ f.requests > 1 ->
                         [f EXCEPT !.requests = @ - 1,
                                   !.tries = Tries(s, f.row.kind)]
                    [] v = "done"  -> [f EXCEPT !.step = "settle"]
                    [] v = "again" -> [f EXCEPT !.tries = @ - 1]
                    [] v = "error" -> [f EXCEPT !.step = "settle",
                                                !.error = "failed"]
                    [] OTHER       -> [f EXCEPT !.step = "settle",
                                                !.error = "failed",
                                                !.disabled = TRUE]
        PROVE  ThreadsGood' /\ RowsGood'
               /\ \A i \in ChannelIds : chan[i] # NoRow => chan'[i] # NoRow
    <3>1. g \in GoodFrames'
      <4>1. CASE g = [f EXCEPT !.requests = @ - 1, !.tries = Tries(s, f.row.kind)]
        <5>1. f.requests - 1 \in Int
          BY <1>4
        <5>2. g \in Frame
          BY <1>3, <1>6, <4>1, <5>1 DEF GoodFrames, Frame
        <5>3. QED
          BY <1>3, <4>1, <5>2 DEF GoodFrames, Frame
      <4>2. CASE g = [f EXCEPT !.step = "settle"]
        BY <1>3, <4>2 DEF GoodFrames, Frame
      <4>3. CASE g = [f EXCEPT !.tries = @ - 1]
        <5>1. f.tries - 1 \in Int
          BY <1>4
        <5>2. g \in Frame
          BY <1>3, <4>3, <5>1 DEF GoodFrames, Frame
        <5>3. QED
          BY <1>3, <4>3, <5>2 DEF GoodFrames, Frame
      <4>4. CASE g = [f EXCEPT !.step = "settle", !.error = "failed"]
        BY <1>3, <4>4 DEF GoodFrames, Frame
      <4>5. CASE /\ v \notin {"done", "again", "error"}
                 /\ g = [f EXCEPT !.step = "settle", !.error = "failed",
                                  !.disabled = TRUE]
        <5>1. f.id \in causes'
          BY <1>5, <2>3, <4>5
        <5>2. QED
          BY <1>3, <4>5, <5>1 DEF GoodFrames, Frame
      <4>6. QED
        BY <2>3, <4>1, <4>2, <4>3, <4>4, <4>5
    <3>2. QED
      BY <1>1, <1>2, <2>3, <3>1, WithTopGood, RowsKept
  <2>4. QED
    BY <1>7, <2>1, <2>2, <2>3
<1>9. NotesHaveChannels'
  <2>1. CASE notes' = notes
    BY <1>8, <2>1, NotesChanged DEF GoodForEver, NotesHaveChannels
  <2>2. CASE notes[f.note] # NoRow /\ notes' = [notes EXCEPT ![f.note].sent = TRUE]
    <3> DEFINE row == [notes[f.note] EXCEPT !.sent = TRUE]
    <3>1. f.note \in DOMAIN notes => row \in Note /\ row.id = notes[f.note].id
      <4>1. f.note \in DOMAIN notes => notes[f.note] \in Note
        BY <2>2 DEF GoodForEver, NotesHaveChannels
      <4>2. QED
        BY <4>1 DEF Note
    <3>2. notes' = [notes EXCEPT ![f.note] = row]
      BY <2>2
    <3> HIDE DEF row
    <3>3. QED
      BY <1>8, <2>2, <3>1, <3>2, NoteChanged
  <2>3. QED
    BY <1>7, <2>1, <2>2
<1>10. RequestsGood'
  BY <1>1, <1>2, RequestsKept
<1>11. HistoryTyped'
  BY <1>1 DEF GoodForEver, HistoryTyped
<1>12. QED
  BY <1>8, <1>9, <1>10, <1>11 DEF GoodForEver

LEMMA SettleGood ==
    ASSUME GoodForEver, NEW s \in Threads, Settle(s)
    PROVE  GoodForEver'
<1>0. PICK f : f = Top(s)
  OBVIOUS
<1>1. /\ thread[s].frames # <<>>
      /\ notes' = IF notes[f.note] = NoRow THEN notes
                  ELSE [notes EXCEPT ![f.note].error = f.error]
      /\ WithTop(s, [f EXCEPT !.step = "save"])
      /\ UNCHANGED <<chan, assigned, request, proven, causes>>
  BY <1>0 DEF Settle, historyVars
<1>2. f \in GoodFrames
  BY <1>0, <1>1, FramesGood
<1>3. [f EXCEPT !.step = "save"] \in GoodFrames
  BY <1>2 DEF GoodFrames, Frame
<1>4. ThreadsGood'
  BY <1>1, <1>3, WithTopGood, NothingTakenBack
<1>5. NotesHaveChannels'
  <2>1. CASE notes' = notes
    BY <1>1, <2>1, NotesKept
  <2>2. CASE notes[f.note] # NoRow /\ notes' = [notes EXCEPT ![f.note].error = f.error]
    <3> DEFINE row == [notes[f.note] EXCEPT !.error = f.error]
    <3>1. f.note \in DOMAIN notes => notes[f.note] \in Note
      BY <2>2 DEF GoodForEver, NotesHaveChannels
    <3>2. f.error \in {"", "failed"}
      BY <1>2 DEF GoodFrames, Frame
    <3>3. f.note \in DOMAIN notes => row \in Note /\ row.id = notes[f.note].id
      BY <3>1, <3>2 DEF Note
    <3>4. notes' = [notes EXCEPT ![f.note] = row]
      BY <2>2
    <3> HIDE DEF row
    <3>5. QED
      BY <1>1, <2>2, <3>3, <3>4, NoteChanged
  <2>3. QED
    BY <1>1, <2>1, <2>2
<1>6. QED
  BY <1>1, <1>4, <1>5, SenderStep

\* One column is updated: `disabled`.
LEMMA DisabledUpdated ==
    ASSUME GoodForEver, Grown, NEW c \in ChannelIds, Exists(c), NEW d \in BOOLEAN,
           d => c \in causes', chan' = [chan EXCEPT ![c].disabled = d]
    PROVE  /\ RowsGood'
           /\ \A i \in ChannelIds : chan[i] # NoRow => chan'[i] # NoRow
<1>1. PICK row : row = [chan[c] EXCEPT !.disabled = d]
  OBVIOUS
<1>2. chan[c] \in GoodRows(c)'
  BY GoodGrows DEF GoodForEver, RowsGood, Existing
<1>3. row \in GoodRows(c)'
  BY <1>1, <1>2 DEF GoodRows, ChannelRow
<1>4. chan' = [chan EXCEPT ![c] = row]
  BY <1>1
<1>5. QED
  BY <1>3, <1>4, RowSaved

\* What the caller goes on with.
LEMMA ReturnedGood ==
    ASSUME GoodForEver, NEW s \in Threads, thread[s].frames # <<>>
    PROVE  Returned(s) \in GoodThreads
<1>1. thread[s] \in GoodThreads /\ thread[s].todo # <<>>
  BY DEF GoodForEver, ThreadsGood, GoodThreads
<1>2. CASE Len(thread[s].frames) > 1
  <2>1. thread[s].frames \in Seq(GoodFrames)
    BY <1>1 DEF GoodThreads
  <2>2. Below(s) \in Seq(GoodFrames) /\ Below(s) # <<>>
    <3>1. Below(s) \in Seq(GoodFrames)
      BY <2>1, SeqEnds DEF Below
    <3>2. Below(s) = SubSeq(thread[s].frames, 1, Len(thread[s].frames) - 1)
      BY DEF Below, Front
    <3>3. Len(Below(s)) = Len(thread[s].frames) - 1
      BY <1>2, <2>1, <3>2
    <3>4. QED
      BY <1>2, <2>1, <3>1, <3>3
  <2>3. Last(Below(s)) \in GoodFrames /\ Front(Below(s)) \in Seq(GoodFrames)
    BY <2>2, SeqEnds
  <2> DEFINE f == [Last(Below(s)) EXCEPT
                     !.error = IF Top(s).error = "" THEN @ ELSE "failed"]
  <2>4. f \in GoodFrames
    BY <2>3 DEF GoodFrames, Frame
  <2>5. Returned(s) = [thread[s] EXCEPT !.frames = Append(Front(Below(s)), f)]
    BY <1>2 DEF Returned
  <2> HIDE DEF f
  <2>6. Append(Front(Below(s)), f) \in Seq(GoodFrames)
    BY <2>3, <2>4
  <2>7. QED
    BY <1>1, <2>5, <2>6 DEF GoodThreads
<1>3. CASE ~(Len(thread[s].frames) > 1)
  BY <1>1, <1>3, NextChannelGood DEF Returned
<1>4. QED
  BY <1>2, <1>3

LEMMA FinishGood ==
    ASSUME GoodForEver, NEW s \in Threads, Finish(s)
    PROVE  GoodForEver'
<1>0. PICK f : f = Top(s)
  OBVIOUS
<1>1. /\ thread[s].frames # <<>>
      /\ chan' = IF ~Exists(f.id) THEN chan
                 ELSE [chan EXCEPT ![f.id].disabled = f.disabled]
      /\ thread' = [thread EXCEPT ![s] = Returned(s)]
      /\ UNCHANGED <<assigned, notes, request, proven, causes>>
  BY <1>0 DEF Finish, historyVars
<1>2. Grown
  BY <1>1 DEF Grown
<1>3. f \in GoodFrames
  BY <1>0, <1>1, FramesGood
<1>4. ThreadsGood'
  BY <1>1, ReturnedGood, OneThread, NothingTakenBack
<1>5. RowsGood' /\ \A i \in ChannelIds : chan[i] # NoRow => chan'[i] # NoRow
  <2>1. f.id \in ChannelIds /\ f.disabled \in BOOLEAN /\ (f.disabled => f.id \in causes')
    BY <1>1, <1>3 DEF GoodFrames, Frame
  <2>2. CASE Exists(f.id)
    BY <1>1, <1>2, <2>1, <2>2, DisabledUpdated
  <2>3. CASE ~Exists(f.id)
    BY <1>1, <1>2, <2>3, RowsKept
  <2>4. QED
    BY <2>2, <2>3
<1>6. NotesHaveChannels'
  BY <1>1, <1>5, NotesChanged DEF GoodForEver, NotesHaveChannels
<1>7. RequestsGood' /\ HistoryTyped'
  BY <1>1, <1>2, RequestsKept DEF GoodForEver, HistoryTyped
<1>8. QED
  BY <1>4, <1>5, <1>6, <1>7 DEF GoodForEver

\* A report about a notification, which may ask to disable its channel.
LEMMA ReportGood ==
    ASSUME GoodForEver, NEW n, NEW disables \in BOOLEAN, n \in DOMAIN notes,
           notes[n] # NoRow, Reported(n), ReportRow(notes[n].id, disables),
           causes' = IF disables THEN causes \union {notes[n].id} ELSE causes
    PROVE  GoodForEver'
<1>0. PICK c : c = notes[n].id
  OBVIOUS
<1>1. notes[n] \in Note /\ Exists(c)
  BY <1>0 DEF GoodForEver, NotesHaveChannels
<1>2. c \in ChannelIds
  BY <1>0, <1>1 DEF Note
<1>3. Grown
  BY DEF Grown, Reported
<1>4. RowsGood' /\ \A i \in ChannelIds : chan[i] # NoRow => chan'[i] # NoRow
  <2>1. PICK d : d = (chan[c].disabled \/ disables)
    OBVIOUS
  <2>2. chan[c] \in GoodRows(c)
    BY <1>1, <1>2 DEF GoodForEver, RowsGood, Existing
  <2>3. d \in BOOLEAN /\ (d => c \in causes')
    BY <1>0, <2>1, <2>2 DEF GoodRows, ChannelRow
  <2>4. chan' = [chan EXCEPT ![c].disabled = d]
    BY <1>0, <2>1 DEF ReportRow
  <2>5. QED
    BY <1>1, <1>2, <1>3, <2>3, <2>4, DisabledUpdated
<1>5. NotesHaveChannels'
  <2> DEFINE row == [notes[n] EXCEPT !.error = "reported"]
  <2>1. row \in Note /\ row.id = notes[n].id
    BY <1>1 DEF Note
  <2>2. notes' = [notes EXCEPT ![n] = row]
    BY DEF Reported
  <2> HIDE DEF row
  <2>3. QED
    BY <1>4, <2>1, <2>2, NoteChanged
<1>6. ThreadsGood' /\ RequestsGood' /\ HistoryTyped'
  BY <1>3, ThreadsKept, RequestsKept DEF Reported, GoodForEver, HistoryTyped
<1>7. QED
  BY <1>4, <1>5, <1>6 DEF GoodForEver

LEMMA UnsubscribeGood ==
    ASSUME GoodForEver, NEW c \in ChannelIds, NEW a \in Targets, Unsubscribe(c, a)
    PROVE  GoodForEver'
<1>1. /\ Exists(c)
      /\ chan' = [chan EXCEPT ![c].disabled = TRUE]
      /\ causes' = causes \union {c}
      /\ UNCHANGED <<assigned, notes, thread, request, proven>>
  BY DEF Unsubscribe
<1>2. Grown
  BY <1>1 DEF Grown
<1>3. RowsGood' /\ \A i \in ChannelIds : chan[i] # NoRow => chan'[i] # NoRow
  BY <1>1, <1>2, DisabledUpdated
<1>4. NotesHaveChannels'
  BY <1>1, <1>3, NotesChanged DEF GoodForEver, NotesHaveChannels
<1>5. ThreadsGood' /\ RequestsGood' /\ HistoryTyped'
  BY <1>1, <1>2, ThreadsKept, RequestsKept DEF GoodForEver, HistoryTyped
<1>6. QED
  BY <1>3, <1>4, <1>5 DEF GoodForEver

(***************************************************************************)
(* Requests.                                                               *)
(***************************************************************************)

LEMMA OneRequest ==
    ASSUME GoodForEver, Grown, NEW q \in WebRequests, NEW r \in GoodRequests',
           request' = [request EXCEPT ![q] = r]
    PROVE  RequestsGood'
BY GoodGrows DEF GoodForEver, RequestsGood

FormRow ==
    [kind : Kinds, value : Targets \union (SUBSET ChannelIds) \union {NoRow},
     verified : BOOLEAN, disabled : BOOLEAN, on : SUBSET Both]

\* A form keeps a copy good: a new address is verified only when it is the
\* user's own.  The row a new channel starts from has no value yet.
LEMMA FormGood ==
    ASSUME HistoryTyped, NEW c \in ChannelIds, NEW row \in FormRow,
           row.kind = "email" /\ row.verified => row.value \in proven[c],
           row.disabled => c \in causes,
           NEW new \in EditForm(row)
    PROVE  new \in GoodRows(c)
<1> USE ChannelAssumption
<1>1. CASE row.kind = "email"
  <2>1. PICK address \in Targets, on \in Configured : new = WithAddress(row, address, on)
    BY <1>1 DEF EditForm, EmailForm
  <2>2. CASE row.disabled \/ address # row.value
    <3>1. new = [row EXCEPT !.value = address, !.on = on, !.disabled = FALSE,
                            !.verified = (address = OwnAddress)]
      BY <2>1, <2>2 DEF WithAddress
    <3>2. on \in SUBSET Both /\ (address = OwnAddress) \in BOOLEAN
      OBVIOUS
    <3>3. new \in ChannelRow /\ new.disabled = FALSE
      BY <3>1, <3>2 DEF ChannelRow, FormRow
    <3>4. new.value = address /\ (new.verified => address = OwnAddress)
      BY <3>1 DEF FormRow
    <3>5. QED
      BY <3>3, <3>4 DEF GoodRows, HistoryTyped
  <2>3. CASE ~(row.disabled \/ address # row.value)
    BY <1>1, <2>1, <2>3 DEF WithAddress, GoodRows, ChannelRow, FormRow
  <2>4. QED
    BY <2>2, <2>3
<1>2. CASE row.kind = "group"
  <2>1. PICK members \in SUBSET ChannelIds : new = [row EXCEPT !.value = members]
    BY <1>2 DEF EditForm, GroupForm, Existing
  <2>2. QED
    BY <1>2, <2>1 DEF GoodRows, ChannelRow, FormRow
<1>3. CASE row.kind \notin {"email", "group"}
  <2>1. new \in Refilled(row)
    BY <1>3 DEF EditForm, WebhookForm, SmsForm, SignalForm, WhatsAppForm, NtfyForm,
       GotifyForm
  <2>2. PICK target \in Targets, on \in Configured : new = Filled(row, target, on)
    BY <2>1 DEF Refilled
  <2>3. QED
    BY <1>3, <2>2 DEF Filled, GoodRows, ChannelRow, FormRow
<1>4. QED
  BY <1>1, <1>2, <1>3

\* A request that takes a good copy changes nothing yet.
LEMMA OpenedGood ==
    ASSUME GoodForEver, Grown, NEW q \in WebRequests, NEW c \in ChannelIds,
           NEW row \in GoodRows(c)', NEW form \in BOOLEAN, NEW adding \in BOOLEAN,
           Opened(q, c, row, form, adding), UNCHANGED <<chan, assigned, notes, thread>>,
           HistoryTyped'
    PROVE  GoodForEver'
<1> DEFINE r == [step |-> "save", id |-> c, row |-> row, form |-> form,
                 adding |-> adding]
<1>1. row \in ChannelRow
  BY DEF GoodRows
<1>2. r \in WebRequest
  BY <1>1 DEF WebRequest
<1>3. r \in GoodRequests'
  BY <1>2 DEF GoodRequests
<1>4. request' = [request EXCEPT ![q] = r]
  BY DEF Opened
<1> HIDE DEF r
<1>5. RequestsGood'
  BY <1>3, <1>4, OneRequest
<1>6. QED
  BY <1>5, RowsKept, NotesKept, ThreadsKept DEF GoodForEver

LEMMA AddGood ==
    ASSUME GoodForEver, NEW q \in WebRequests, NEW c \in ChannelIds, Add(q, c)
    PROVE  GoodForEver'
<1>1. UNCHANGED <<chan, assigned, notes, thread, proven, causes>>
  BY DEF Add, historyVars
<1> DEFINE some == CHOOSE on \in Configured : TRUE
<1>2. PICK kind \in {"email", "webhook"} :
         \E row \in EditForm(NewChannel(kind, NoRow, some)) :
            Opened(q, c, row, TRUE, TRUE)
  BY DEF Add
<1>3. PICK row \in EditForm(NewChannel(kind, NoRow, some)) : Opened(q, c, row, TRUE, TRUE)
  BY <1>2
<1>4. \E on \in Configured : TRUE
  <2>1. NewChannel(kind, NoRow, some).kind = kind
    BY DEF NewChannel
  <2>2. row \in EmailForm(NewChannel(kind, NoRow, some))
            \union Refilled(NewChannel(kind, NoRow, some))
    BY <1>2, <1>3, <2>1 DEF EditForm, WebhookForm
  <2>3. QED
    BY <2>2 DEF EmailForm, Refilled
<1>5. some \in SUBSET Both
  BY <1>4, ChannelAssumption
<1> HIDE DEF some
<1>6. {"email", "webhook"} \subseteq Kinds
  BY DEF Kinds, TransportOf
<1>7. NewChannel(kind, NoRow, some) \in FormRow
  <2>1. kind \in Kinds /\ (kind # "email") \in BOOLEAN
    BY <1>2, <1>6
  <2>2. NoRow \in Targets \union (SUBSET ChannelIds) \union {NoRow}
    OBVIOUS
  <2>3. QED
    BY <1>5, <2>1, <2>2 DEF NewChannel, FormRow
<1>8. row \in GoodRows(c)
  BY <1>3, <1>7, FormGood DEF NewChannel, GoodForEver
<1>9. QED
  BY <1>1, <1>3, <1>8, OpenedGood, NothingTakenBack DEF GoodForEver, HistoryTyped

LEMMA EditGood ==
    ASSUME GoodForEver, NEW q \in WebRequests, NEW c \in ChannelIds, Edit(q, c)
    PROVE  GoodForEver'
<1>1. UNCHANGED <<chan, assigned, notes, thread, proven, causes>> /\ Exists(c)
  BY DEF Edit, historyVars
<1>2. PICK row \in EditForm(chan[c]) : Opened(q, c, row, TRUE, FALSE)
  BY DEF Edit
<1>3. chan[c] \in GoodRows(c)
  BY <1>1 DEF GoodForEver, RowsGood, Existing
<1>4. chan[c] \in FormRow
  BY <1>3 DEF GoodRows, ChannelRow, FormRow
<1>5. row \in GoodRows(c)
  BY <1>2, <1>3, <1>4, FormGood DEF GoodRows, GoodForEver
<1>6. QED
  BY <1>1, <1>2, <1>5, OpenedGood, NothingTakenBack DEF GoodForEver, HistoryTyped

LEMMA UpdateChannelNameGood ==
    ASSUME GoodForEver, NEW q \in WebRequests, NEW c \in ChannelIds,
           UpdateChannelName(q, c)
    PROVE  GoodForEver'
<1>1. UNCHANGED <<chan, assigned, notes, thread, proven, causes>> /\ Exists(c)
  BY DEF UpdateChannelName, historyVars
<1>2. chan[c] \in GoodRows(c)
  BY <1>1 DEF GoodForEver, RowsGood, Existing
<1>3. PICK row \in GoodRows(c) : Opened(q, c, row, FALSE, FALSE)
  BY <1>2 DEF UpdateChannelName
<1>4. QED
  BY <1>1, <1>3, OpenedGood, NothingTakenBack DEF GoodForEver, HistoryTyped

\* The owner of the address agrees: the copy is verified with good reason.
LEMMA VerifyGood ==
    ASSUME GoodForEver, NEW q \in WebRequests, NEW c \in ChannelIds, NEW a \in Targets,
           Verify(q, c, a)
    PROVE  GoodForEver'
<1>1. /\ UNCHANGED <<chan, assigned, notes, thread, causes>>
      /\ Exists(c) /\ chan[c].value = a
      /\ proven' = [proven EXCEPT ![c] = @ \union {a}]
  BY DEF Verify
<1>2. \A i \in ChannelIds :
         proven'[i] = IF i = c THEN proven[i] \union {a} ELSE proven[i]
  BY <1>1 DEF GoodForEver, HistoryTyped
<1>3. Grown
  BY <1>1, <1>2 DEF Grown
<1>4. HistoryTyped'
  <2>1. proven' \in [ChannelIds -> SUBSET Targets]
    BY <1>1 DEF GoodForEver, HistoryTyped
  <2>2. QED
    BY <1>1, <1>2, <2>1 DEF GoodForEver, HistoryTyped
<1>5. chan[c] \in GoodRows(c)'
  BY <1>1, <1>3, GoodGrows DEF GoodForEver, RowsGood, Existing
<1>6. PICK row : row = [chan[c] EXCEPT !.verified = TRUE]
  OBVIOUS
<1>7. row \in GoodRows(c)'
  <2>1. chan[c] \in ChannelRow /\ (chan[c].disabled => c \in causes')
    BY <1>5 DEF GoodRows
  <2>2. row \in ChannelRow /\ row.value = a /\ row.disabled = chan[c].disabled
    BY <1>1, <1>6, <2>1 DEF ChannelRow
  <2>3. a \in proven'[c]
    BY <1>2
  <2>4. QED
    BY <2>1, <2>2, <2>3 DEF GoodRows
<1>8. Opened(q, c, row, FALSE, FALSE)
  BY <1>6 DEF Verify
<1>9. QED
  BY <1>1, <1>3, <1>4, <1>7, <1>8, OpenedGood

\* Django's save, of the whole copy, whenever it comes.
LEMMA SaveRowGood ==
    ASSUME GoodForEver, NEW q \in WebRequests, SaveRow(q)
    PROVE  GoodForEver'
<1>0. PICK r : r = request[q]
  OBVIOUS
<1>1. /\ r.step = "save"
      /\ chan' = [chan EXCEPT ![r.id] = r.row]
      /\ assigned' = IF r.adding THEN assigned \union {r.id} ELSE assigned
      /\ request' = [request EXCEPT ![q] = NextStep(r)]
      /\ UNCHANGED <<notes, thread, proven, causes>>
  BY <1>0 DEF SaveRow
<1>2. r \in WebRequest /\ r.row \in GoodRows(r.id)
  <2>1. r \in GoodRequests
    BY <1>0 DEF GoodForEver, RequestsGood
  <2>2. r # NoRequest
    BY <1>1 DEF NoRequest
  <2>3. QED
    BY <2>1, <2>2 DEF GoodRequests
<1>3. r.id \in ChannelIds
  BY <1>2 DEF WebRequest
<1>4. RowsGood' /\ \A i \in ChannelIds : chan[i] # NoRow => chan'[i] # NoRow
  <2>1. r.row \in GoodRows(r.id)'
    BY <1>1, <1>2, NothingTakenBack
  <2>2. QED
    BY <1>1, <1>3, <2>1, NothingTakenBack, RowSaved
<1>5. NextStep(r) \in GoodRequests
  BY <1>2 DEF NextStep, GoodRequests, WebRequest
<1>6. RequestsGood'
  BY <1>1, <1>5, NothingTakenBack, OneRequest
<1>7. NotesHaveChannels'
  BY <1>1, <1>4, NotesChanged DEF GoodForEver, NotesHaveChannels
<1>8. ThreadsGood' /\ HistoryTyped'
  BY <1>1, <1>3, NothingTakenBack, ThreadsKept DEF GoodForEver, HistoryTyped
<1>9. QED
  BY <1>4, <1>6, <1>7, <1>8 DEF GoodForEver

LEMMA SendVerifyLinkGood ==
    ASSUME GoodForEver, NEW q \in WebRequests, SendVerifyLink(q)
    PROVE  GoodForEver'
<1>1. /\ request' = [request EXCEPT ![q] = NoRequest]
      /\ UNCHANGED <<chan, assigned, notes, thread, proven, causes>>
  BY DEF SendVerifyLink
<1>2. RequestsGood'
  BY <1>1, NothingTakenBack, OneRequest DEF GoodRequests
<1>3. QED
  BY <1>1, <1>2, NothingTakenBack, RowsKept, NotesKept, ThreadsKept
     DEF GoodForEver, HistoryTyped

\* The notifications of a channel that is removed go with it.
LEMMA RemoveChannelGood ==
    ASSUME GoodForEver, NEW c \in ChannelIds, RemoveChannel(c)
    PROVE  GoodForEver'
<1>1. /\ chan' = [chan EXCEPT ![c] = NoRow]
      /\ assigned' = assigned \ {c}
      /\ notes' = [n \in DOMAIN notes |->
                     IF notes[n] # NoRow /\ notes[n].id = c THEN NoRow ELSE notes[n]]
      /\ UNCHANGED <<thread, request, proven, causes>>
  BY DEF RemoveChannel
<1>2. \A i \in ChannelIds : chan'[i] = IF i = c THEN NoRow ELSE chan[i]
  BY <1>1 DEF GoodForEver, RowsGood
<1>3. RowsGood'
  <2>1. chan' \in [ChannelIds -> ChannelRow \union {NoRow}]
    BY <1>1 DEF GoodForEver, RowsGood
  <2>2. \A i \in ChannelIds : chan'[i] # NoRow => chan'[i] \in GoodRows(i)'
    BY <1>1, <1>2, NothingTakenBack DEF GoodForEver, RowsGood, Existing, Exists
  <2>3. QED
    BY <2>1, <2>2 DEF RowsGood, Existing, Exists
<1>4. NotesHaveChannels'
  <2>1. notes \in Seq(Note \union {NoRow})
    BY DEF GoodForEver, NotesHaveChannels
  <2>2. notes' \in Seq(Note \union {NoRow}) /\ DOMAIN notes' = DOMAIN notes
    BY <1>1, <2>1
  <2>3. ASSUME NEW n \in DOMAIN notes', notes'[n] # NoRow
        PROVE  chan'[notes'[n].id] # NoRow
    <3>1. notes[n] \in Note /\ notes'[n] = notes[n] /\ notes[n].id # c
      BY <1>1, <2>1, <2>3
    <3>2. chan[notes[n].id] # NoRow
      BY <2>2, <2>3, <3>1 DEF GoodForEver, NotesHaveChannels, Exists
    <3>3. QED
      BY <1>2, <3>1, <3>2 DEF Note
  <2>4. QED
    BY <2>2, <2>3 DEF NotesHaveChannels, Exists
<1>5. ThreadsGood' /\ RequestsGood' /\ HistoryTyped'
  BY <1>1, NothingTakenBack, ThreadsKept, RequestsKept DEF GoodForEver, HistoryTyped
<1>6. QED
  BY <1>3, <1>4, <1>5 DEF GoodForEver

LEMMA SwitchChannelGood ==
    ASSUME GoodForEver, NEW c \in ChannelIds, SwitchChannel(c)
    PROVE  GoodForEver'
<1>1. /\ assigned' \in {assigned \ {c}, assigned \union {c}}
      /\ UNCHANGED <<chan, notes, thread, request, proven, causes>>
  BY DEF SwitchChannel, historyVars
<1>2. QED
  BY <1>1, NothingTakenBack, RowsKept, NotesKept, ThreadsKept, RequestsKept
     DEF GoodForEver, HistoryTyped

LEMMA StutterGood ==
    ASSUME GoodForEver, UNCHANGED channelVars
    PROVE  GoodForEver'
<1>1. UNCHANGED <<chan, assigned, notes, thread, request, proven, causes>>
  BY DEF channelVars
<1>2. QED
  BY <1>1, NothingTakenBack, RowsKept, NotesKept, ThreadsKept, RequestsKept
     DEF GoodForEver, HistoryTyped

LEMMA NextGood == GoodForEver /\ [ChannelsNext]_channelVars => GoodForEver'
<1> SUFFICES ASSUME GoodForEver, [ChannelsNext]_channelVars PROVE GoodForEver'
  OBVIOUS
<1>1. ASSUME NEW s \in Threads, ThreadStep(s) PROVE GoodForEver'
  <2>1. CASE \E status \in Both : StartFlip(s, status)
    BY <2>1, StartFlipGood
  <2>2. CASE \E c \in ChannelIds : StartTest(s, c)
    BY <2>2, StartTestGood
  <2>3. CASE NotifyNext(s)
    BY <2>3, NotifyNextGood
  <2>4. CASE SkipNext(s)
    BY <2>4, SkipNextGood
  <2>5. CASE NotifyMember(s)
    BY <2>5, NotifyMemberGood
  <2>6. CASE MembersDone(s)
    BY <2>6, MembersDoneGood
  <2>7. CASE \E answer \in Answers : Attempt(s, answer)
    BY <2>7, AttemptGood
  <2>8. CASE Settle(s)
    BY <2>8, SettleGood
  <2>9. CASE Finish(s)
    BY <2>9, FinishGood
  <2>10. QED
    BY <1>1, <2>1, <2>2, <2>3, <2>4, <2>5, <2>6, <2>7, <2>8, <2>9 DEF ThreadStep
<1>2. ASSUME ReportStep PROVE GoodForEver'
  <2>1. PICK n \in 1 .. MaxNotes :
           \/ \E disables \in BOOLEAN : NotificationStatus(n, disables)
           \/ \E permanent \in BOOLEAN : Bounce(n, permanent)
    BY <1>2 DEF ReportStep
  <2>2. ASSUME NEW d \in BOOLEAN, NotificationStatus(n, d) \/ Bounce(n, d)
        PROVE  GoodForEver'
    <3>1. /\ n \in DOMAIN notes /\ notes[n] # NoRow /\ Reported(n)
          /\ ReportRow(notes[n].id, d)
          /\ causes' = IF d THEN causes \union {notes[n].id} ELSE causes
      BY <2>2 DEF NotificationStatus, Bounce, SentTo
    <3>2. QED
      BY <3>1, ReportGood
  <2>3. QED
    BY <2>1, <2>2
<1>3. ASSUME NEW q \in WebRequests, RequestStep(q) PROVE GoodForEver'
  BY <1>3, AddGood, EditGood, UpdateChannelNameGood, VerifyGood, SaveRowGood,
     SendVerifyLinkGood DEF RequestStep
<1>4. ASSUME NEW c \in ChannelIds,
             RemoveChannel(c) \/ SwitchChannel(c) \/ \E a \in Targets : Unsubscribe(c, a)
      PROVE  GoodForEver'
  BY <1>4, RemoveChannelGood, SwitchChannelGood, UnsubscribeGood
<1>5. CASE ChannelsNext
  BY <1>1, <1>2, <1>3, <1>4, <1>5 DEF ChannelsNext
<1>6. CASE UNCHANGED channelVars
  BY <1>6, StutterGood
<1>7. QED
  BY <1>5, <1>6

(***************************************************************************)
(* The theorems.                                                           *)
(***************************************************************************)

\* Every row, and every copy of one that a sender or a request holds, is good,
\* and notifications belong to channels that exist.
THEOREM CopiesStayGood == ChannelsSpec => []GoodForEver
<1>1. QED
  BY InitGood, NextGood, PTL DEF ChannelsSpec

\* A channel that counts as verified has the address somebody verified,
\* whichever requests save the rows they read before (email_form, verify).
THEOREM VerifiedAreProven == ChannelsSpec => []VerifiedIsProven
<1>1. GoodForEver => VerifiedIsProven
  BY DEF GoodForEver, RowsGood, GoodRows, VerifiedIsProven, Existing
<1>2. QED
  BY <1>1, CopiesStayGood, PTL

\* An alert goes only to an address whose owner agreed, also when the row has
\* changed since the sender read it (Email.notify).
THEOREM AlertsAreToProven == ChannelsSpec => []AlertsGoToProven
<1>1. GoodForEver => AlertsGoToProven
  <2>1. SUFFICES ASSUME GoodForEver, NEW s \in Threads,
                        NEW i \in DOMAIN thread[s].frames,
                        thread[s].frames[i].row.kind = "email",
                        thread[s].frames[i].step = "send"
                 PROVE  thread[s].frames[i].row.value
                            \in proven[thread[s].frames[i].id]
    BY DEF AlertsGoToProven
  <2>2. thread[s].frames \in Seq(GoodFrames)
    BY <2>1 DEF GoodForEver, ThreadsGood, GoodThreads
  <2>3. thread[s].frames[i] \in GoodFrames
    BY <2>2
  <2>4. QED
    BY <2>1, <2>3 DEF GoodFrames, GoodRows
<1>2. QED
  BY <1>1, CopiesStayGood, PTL

\* A channel is disabled only when a service said that it will never work,
\* something reported that, or the owner unsubscribed (Channel.notify).
THEOREM DisabledHasCause == ChannelsSpec => []DisabledForCause
<1>1. GoodForEver => DisabledForCause
  BY DEF GoodForEver, RowsGood, GoodRows, DisabledForCause, Existing
<1>2. QED
  BY <1>1, CopiesStayGood, PTL
=============================================================================
