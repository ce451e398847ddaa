------------------------------ MODULE Channels ------------------------------
(***************************************************************************)
(* Channels (the "integrations" of a project) and the notifications sent   *)
(* through them.                                                           *)
(*                                                                         *)
(* A sender is a thread that runs notify of sendalerts, or a web request   *)
(* that sends a test notification.  It holds the rows it selected, works   *)
(* on one Channel.notify at a time, and, in a group, on one nested notify. *)
(* A request is a web request that reads a row, changes its copy, and      *)
(* saves the whole copy (Django's save: an UPDATE of every column, and an  *)
(* INSERT when the row is gone).  Bounces, delivery reports and            *)
(* unsubscribe links update single columns.                                *)
(***************************************************************************)
EXTENDS Transports, FiniteSets, Sequences, SequencesExt, Integers

CONSTANTS
    NoRow,         \* no row, and no copy of one
    ChannelIds,
    Targets,       \* addresses, numbers, urls: what a channel sends to
    OwnAddress,    \* the address of the user who edits the channels
    FirstKind,     \* kind of each channel that exists at first
    Fresh,         \* ids of the channels that may be added
    Configured,    \* the statuses a channel can be configured for
    KindsOff,      \* kinds whose setting is off
    Threads,       \* senders
    WebRequests,
    MaxNotes       \* bound: notifications

ChannelRow ==
    [kind : Kinds, value : Targets \union SUBSET ChannelIds,
     verified : BOOLEAN, disabled : BOOLEAN, on : SUBSET Both]

ASSUME ChannelAssumption ==
    /\ IsFiniteSet(ChannelIds)
    /\ OwnAddress \in Targets
    /\ \A f \in FirstKind : \A c \in DOMAIN f : f[c] \in Kinds
    /\ KindsOff \subseteq Kinds
    /\ Configured \subseteq (SUBSET Both) \ {{}}
    /\ MaxNotes \in Nat
    /\ NoRow \notin Targets \union ChannelRow

VARIABLES
    chan,       \* the rows of the channel table: `value` is an address, or
                \* the members of a group, `on` what it is configured for
    assigned,   \* the channels assigned to the check
    unused,     \* ids no channel has had yet
    notes,      \* the rows of the notification table, oldest first
    thread,     \* what each sender works on: `todo` are the rows it selected,
                \* `frames` the Channel.notify under way, with the copy of the
                \* row, the tries and requests left, the members still to do
    request,    \* what each web request works on
    linked,     \* history: addresses each channel has sent a verify link to
    proven,     \* history: addresses whose owner agreed, by channel
    causes      \* history: channels something asked to disable

channelVars == <<chan, assigned, unused, notes, thread, request, linked,
                 proven, causes>>

Idle == [status |-> "down", test |-> FALSE, todo |-> <<>>, frames |-> <<>>]

Exists(c) == chan[c] # NoRow

Existing == {c \in ChannelIds : Exists(c)}

NewChannel(kind, value, on) ==
    [kind |-> kind, value |-> value, verified |-> kind # "email",
     disabled |-> FALSE, on |-> on]

NoRequest == [step |-> "idle", id |-> NoRow, row |-> NoRow,
              form |-> FALSE, adding |-> FALSE]

Answers == UNION {DOMAIN TransportOf[k].verdict : k \in Kinds}

\* The addresses of the first rows have been verified.
ChannelsInit ==
    /\ \E f \in FirstKind, on \in Configured :
          chan = [c \in ChannelIds |->
                    IF c \notin DOMAIN f THEN NoRow
                    ELSE IF f[c] = "group"
                    THEN NewChannel("group", ChannelIds \ {c}, on)
                    ELSE [NewChannel(f[c], OwnAddress, on)
                            EXCEPT !.verified = TRUE]]
    /\ assigned = Existing
    /\ unused = Fresh \ Existing
    /\ notes = <<>>
    /\ thread = [s \in Threads |-> Idle]
    /\ request = [q \in WebRequests |-> NoRequest]
    /\ linked = [c \in ChannelIds |-> {}]
    /\ proven = [c \in ChannelIds |-> {OwnAddress}]
    /\ causes = {}

historyVars == <<linked, proven, causes>>

-----------------------------------------------------------------------------
(* Sending.                                                                *)

\* Flip.select_channels.
SelectChannels(status) ==
    {c \in assigned : /\ Exists(c)
                      /\ ~chan[c].disabled
                      /\ ~IsNoop(chan[c].kind, chan[c].on, status)}

Copies(ids) == {[id |-> c, row |-> chan[c]] : c \in ids}

\* notify of sendalerts: the channels are read once, fastest first.
StartFlip(s, status) ==
    /\ thread[s] = Idle
    /\ SelectChannels(status) # {}
    /\ Len(notes) < MaxNotes
    /\ \E list \in SetToSeqs(Copies(SelectChannels(status))) :
          thread' = [thread EXCEPT ![s].todo = list, ![s].status = status]
    /\ UNCHANGED <<chan, assigned, notes, request, unused, historyVars>>

\* send_test_notification: older test notifications go away.
StartTest(s, c) ==
    /\ thread[s] = Idle
    /\ Exists(c)
    /\ Len(notes) < MaxNotes
    /\ notes' = [n \in DOMAIN notes |->
                   IF /\ notes[n] # NoRow
                      /\ notes[n].id = c
                      /\ notes[n].test
                   THEN NoRow ELSE notes[n]]
    /\ thread' = [thread EXCEPT ![s].todo = <<[id |-> c, row |-> chan[c]]>>,
                                ![s].test = TRUE]
    /\ UNCHANGED <<chan, assigned, request, unused, historyVars>>

Tries(s, kind) ==
    IF kind = "webhook" /\ thread[s].test THEN 1 ELSE TransportOf[kind].tries

\* Pushover cancels an emergency with a request of its own.
Requests(s, kind) ==
    IF thread[s].status = "up" THEN TransportOf[kind].requests ELSE 1

\* Mutant of Unable: Email.notify does not look at email_verified.
UnableGated(copy) ==
    copy.row.kind \in KindsOff /\ TransportOf[copy.row.kind].gated

\* What a transport checks before it sends anything.
Unable(copy) ==
    \/ copy.row.kind \in KindsOff /\ TransportOf[copy.row.kind].gated
    \/ copy.row.kind = "email" /\ ~copy.row.verified

MembersOf(row) ==
    IF row.kind = "group" THEN Copies(row.value \intersect Existing) ELSE {}

NewFrame(s, copy, note, refused) ==
    [id |-> copy.id, row |-> copy.row, note |-> note,
     step |-> IF refused THEN "settle" ELSE "send",
     tries |-> Tries(s, copy.row.kind),
     requests |-> Requests(s, copy.row.kind), moved |-> FALSE,
     members |-> MembersOf(copy.row),
     error |-> IF refused THEN "failed" ELSE "",
     disabled |-> copy.row.disabled]

\* Channel.notify up to transport.notify: the notification row, unless the
\* channel is gone (IntegrityError).  A quota or a bucket may refuse.
Notify(s, copy, frames) ==
    /\ Len(notes) < MaxNotes
    /\ Exists(copy.id)
    /\ notes' = Append(notes, [id |-> copy.id, test |-> thread[s].test,
                               error |-> "Sending", sent |-> FALSE])
    /\ \E refused \in BOOLEAN :
          /\ Unable(copy) => refused
          /\ refused => Unable(copy)
                        \/ TransportOf[copy.row.kind].limited # "none"
          /\ thread' = [thread EXCEPT ![s].frames = Append(frames,
                          NewFrame(s, copy, Len(notes) + 1, refused))]

Noop(s, copy) == IsNoop(copy.row.kind, copy.row.on, thread[s].status)

\* The next channel of the flip.
NotifyNext(s) ==
    /\ thread[s].frames = <<>>
    /\ thread[s].todo # <<>>
    /\ ~Noop(s, Head(thread[s].todo))
    /\ Notify(s, Head(thread[s].todo), <<>>)
    /\ UNCHANGED <<chan, assigned, request, unused, historyVars>>

\* Of the thread: notify of the flip's next channel, if there is one.
NextChannel(s) ==
    IF Len(thread[s].todo) = 1 THEN Idle
    ELSE [thread[s] EXCEPT !.todo = Tail(@), !.frames = <<>>]

\* notify returned without a notification: "no-op", or the channel is gone.
\* A test of a channel that ignores down events becomes a test of up.
SkipNext(s) ==
    /\ thread[s].frames = <<>>
    /\ thread[s].todo # <<>>
    /\ LET copy == Head(thread[s].todo) IN
       IF Noop(s, copy) /\ thread[s].test /\ thread[s].status = "down"
       THEN thread' = [thread EXCEPT ![s].status = "up"]
       ELSE /\ Noop(s, copy) \/ ~Exists(copy.id)
            /\ thread' = [thread EXCEPT ![s] = NextChannel(s)]
    /\ UNCHANGED <<chan, assigned, notes, request, unused, historyVars>>

Top(s) == Last(thread[s].frames)

Below(s) == Front(thread[s].frames)

WithTop(s, frame) ==
    thread' = [thread EXCEPT ![s].frames = Append(Below(s), frame)]

Sends(s) == thread[s].frames # <<>> /\ Top(s).step = "send"

\* Group.notify: one member after the other, the disabled ones included.
NotifyMember(s) ==
    /\ Sends(s)
    /\ \E m \in Top(s).members :
          LET parent == [Top(s) EXCEPT !.members = @ \ {m}] IN
          IF Noop(s, m)
          THEN WithTop(s, parent) /\ UNCHANGED notes
          ELSE IF Exists(m.id)
          THEN Notify(s, m, Append(Below(s), parent))
          ELSE WithTop(s, [parent EXCEPT !.error = "failed"])
               /\ UNCHANGED notes
    /\ UNCHANGED <<chan, assigned, request, unused, historyVars>>

MembersDone(s) ==
    /\ Sends(s)
    /\ Top(s).row.kind = "group"
    /\ Top(s).members = {}
    /\ WithTop(s, [Top(s) EXCEPT !.step = "settle"])
    /\ UNCHANGED <<chan, assigned, notes, request, unused, historyVars>>

\* update_telegram_id saves the whole copy, and the message is sent again.
SaveMoved(s, target) ==
    LET row == [Top(s).row EXCEPT !.value = target] IN
    /\ chan' = [chan EXCEPT ![Top(s).id] = row]
    /\ WithTop(s, [Top(s) EXCEPT !.row = row, !.moved = TRUE,
                                 !.tries = Tries(s, row.kind)])

\* One request of a transport, and its answer.
Attempt(s, answer) ==
    /\ Sends(s)
    /\ Top(s).row.kind # "group"
    /\ answer \in DOMAIN TransportOf[Top(s).row.kind].verdict
    /\ LET v == Verdict(Top(s).row.kind, answer, Top(s).tries)
           f == Top(s)
       IN
       /\ notes' = IF v = "done" /\ notes[f.note] # NoRow
                   THEN [notes EXCEPT ![f.note].sent = TRUE] ELSE notes
       /\ \/ /\ v = "moved" /\ ~f.moved
             /\ \E target \in Targets : SaveMoved(s, target)
          \/ /\ v = "throws"
             /\ thread' = [thread EXCEPT ![s] = Idle]
             /\ UNCHANGED chan
          \/ /\ v # "throws" /\ (v = "moved" => f.moved)
             /\ WithTop(s,
                  CASE v = "done" /\ f.requests > 1 ->
                         [f EXCEPT !.requests = @ - 1,
                                   !.tries = Tries(s, f.row.kind)]
                    [] v = "done"  -> [f EXCEPT !.step = "settle"]
                    [] v = "again" -> [f EXCEPT !.tries = @ - 1]
                    [] v = "error" -> [f EXCEPT !.step = "settle",
                                                !.error = "failed"]
                    [] OTHER       -> [f EXCEPT !.step = "settle",
                                                !.error = "failed",
                                                !.disabled = TRUE])
             /\ UNCHANGED chan
    /\ causes' = IF TransportOf[Top(s).row.kind].verdict[answer]
                      \in {"permanent", "moved"}
                 THEN causes \union {Top(s).id}
                 ELSE causes
    /\ UNCHANGED <<assigned, request, unused, linked, proven>>

\* Notification.update(error=...).
Settle(s) ==
    /\ thread[s].frames # <<>>
    /\ Top(s).step = "settle"
    /\ notes' = IF notes[Top(s).note] = NoRow THEN notes
                ELSE [notes EXCEPT ![Top(s).note].error = Top(s).error]
    /\ WithTop(s, [Top(s) EXCEPT !.step = "save"])
    /\ UNCHANGED <<chan, assigned, request, unused, historyVars>>

\* The caller goes on: the group counts the error, or the next channel.
Returned(s) ==
    IF Len(thread[s].frames) > 1
    THEN [thread[s] EXCEPT !.frames =
            Append(Front(Below(s)),
                   [Last(Below(s)) EXCEPT
                      !.error = IF Top(s).error = "" THEN @ ELSE "failed"])]
    ELSE NextChannel(s)

\* Channel.update(last_error=..., disabled=...), from the copy.
Finish(s) ==
    /\ thread[s].frames # <<>>
    /\ Top(s).step = "save"
    /\ chan' = IF ~Exists(Top(s).id) THEN chan
               ELSE [chan EXCEPT ![Top(s).id].disabled = Top(s).disabled]
    /\ thread' = [thread EXCEPT ![s] = Returned(s)]
    /\ UNCHANGED <<assigned, notes, request, unused, historyVars>>

-----------------------------------------------------------------------------
(* What the services report later.                                         *)

Reported(n) ==
    /\ notes' = [notes EXCEPT ![n].error = "reported"]
    /\ UNCHANGED <<assigned, thread, request, unused, linked, proven>>

ReportRow(c, disables) ==
    chan' = [chan EXCEPT ![c].disabled = @ \/ disables]

SentTo(n, kinds) ==
    /\ n \in DOMAIN notes
    /\ notes[n] # NoRow
    /\ notes[n].sent
    /\ chan[notes[n].id].kind \in kinds

\* notification_status, with an error: Twilio's callback, or a service that
\* may also ask to disable the channel.
NotificationStatus(n, markDisabled) ==
    /\ SentTo(n, {"sms", "whatsapp", "call", "email"})
    /\ Reported(n)
    /\ ReportRow(notes[n].id, markDisabled)
    /\ causes' = IF markDisabled
                 THEN causes \union {notes[n].id}
                 ELSE causes

\* bounces, for a notification: a permanent bounce disables the channel.
Bounce(n, permanent) ==
    /\ SentTo(n, {"email"})
    /\ Reported(n)
    /\ ReportRow(notes[n].id, permanent)
    /\ causes' = IF permanent
                 THEN causes \union {notes[n].id}
                 ELSE causes

\* unsubscribe: the link of an address works while the channel has it.
Unsubscribe(c, address) ==
    /\ Exists(c)
    /\ chan[c].kind = "email"
    /\ \E n \in DOMAIN notes : notes[n] # NoRow /\ notes[n].id = c
                               /\ notes[n].sent
    /\ chan[c].value = address
    /\ chan' = [chan EXCEPT ![c].disabled = TRUE]
    /\ causes' = causes \union {c}
    /\ UNCHANGED <<assigned, notes, thread, request, unused, linked, proven>>

-----------------------------------------------------------------------------
(* Web requests.  A form maps the copy of a row to the rows it may save.   *)

\* A target and the statuses to notify of.
Filled(row, target, on) == [row EXCEPT !.value = target, !.on = on]

Refilled(row) == {Filled(row, target, on) : target \in Targets, on \in Configured}

WebhookForm(row)  == Refilled(row)
SmsForm(row)      == Refilled(row)
SignalForm(row)   == Refilled(row)
WhatsAppForm(row) == Refilled(row)
NtfyForm(row)     == Refilled(row)
GotifyForm(row)   == Refilled(row)

\* GroupForm offers the channels of the project that are not groups.
GroupForm(row) ==
    {[row EXCEPT !.value = members] :
        members \in (SUBSET {c \in Existing : chan[c].kind # "group"}) \ {{}}}

\* A new address, or a disabled channel: enable it, and verify the address
\* again unless it is the user's own.
WithAddress(row, address, on) ==
    IF row.disabled \/ address # row.value
    THEN [row EXCEPT !.value = address, !.on = on, !.disabled = FALSE,
                     !.verified = (address = OwnAddress)]
    ELSE [row EXCEPT !.on = on]

EmailForm(row) ==
    {WithAddress(row, address, on) : address \in Targets, on \in Configured}

\* edit_channel: the kinds that can be edited.
EditForm(row) ==
    CASE row.kind = "email"    -> EmailForm(row)
      [] row.kind = "webhook"  -> WebhookForm(row)
      [] row.kind = "sms"      -> SmsForm(row)
      [] row.kind = "signal"   -> SignalForm(row)
      [] row.kind = "whatsapp" -> WhatsAppForm(row)
      [] row.kind = "ntfy"     -> NtfyForm(row)
      [] row.kind = "group"    -> GroupForm(row)
      [] row.kind = "gotify"   -> GotifyForm(row)
      [] OTHER                 -> {}

Opened(q, c, row, form, adding) ==
    request' = [request EXCEPT ![q] = [step |-> "save", id |-> c, row |-> row,
                                       form |-> form, adding |-> adding]]

\* The add view of a kind with a form: a row with nothing filled in yet.
Add(q, c) ==
    /\ request[q] = NoRequest
    /\ c \in unused
    /\ \E kind \in {"email", "webhook"} :
          \E row \in EditForm(NewChannel(kind, NoRow, CHOOSE on \in Configured : TRUE)) :
             Opened(q, c, row, TRUE, TRUE)
    /\ unused' = unused \ {c}
    /\ UNCHANGED <<chan, assigned, notes, thread, historyVars>>

Edit(q, c) ==
    /\ request[q] = NoRequest
    /\ Exists(c)
    /\ \E row \in EditForm(chan[c]) : Opened(q, c, row, TRUE, FALSE)
    /\ UNCHANGED <<chan, assigned, notes, thread, unused, historyVars>>

\* update_channel_name: the name is not modelled, the save of the row is.
UpdateChannelName(q, c) ==
    /\ request[q] = NoRequest
    /\ Exists(c)
    /\ Opened(q, c, chan[c], FALSE, FALSE)
    /\ UNCHANGED <<chan, assigned, notes, thread, unused, historyVars>>

\* verify: the owner of the address follows the link.
Verify(q, c, address) ==
    /\ request[q] = NoRequest
    /\ Exists(c)
    /\ address \in linked[c]
    /\ chan[c].value = address
    /\ Opened(q, c, [chan[c] EXCEPT !.verified = TRUE], FALSE, FALSE)
    /\ proven' = [proven EXCEPT ![c] = @ \union {address}]
    /\ UNCHANGED <<chan, assigned, notes, thread, unused, linked, causes>>

\* An address that is not verified is sent the link.
NextStep(r) ==
    IF r.form /\ r.row.kind = "email" /\ ~r.row.verified
    THEN [r EXCEPT !.step = "link"] ELSE NoRequest

\* Mutant of SaveRow: two columns are written, from two copies.
SaveRowVerified(q) ==
    /\ request[q].step = "save"
    /\ LET r == request[q] IN
       /\ chan' = [chan EXCEPT ![r.id] =
                     IF r.form \/ @ = NoRow THEN r.row
                     ELSE [@ EXCEPT !.verified = r.row.verified]]
       /\ assigned' = IF r.adding THEN assigned \union {r.id} ELSE assigned
       /\ request' = [request EXCEPT ![q] = NextStep(r)]
    /\ UNCHANGED <<notes, thread, unused, linked, proven, causes>>

\* channel.save(), and assign_all_checks for a new channel.
SaveRow(q) ==
    /\ request[q].step = "save"
    /\ LET r == request[q] IN
       /\ chan' = [chan EXCEPT ![r.id] = r.row]
       /\ assigned' = IF r.adding THEN assigned \union {r.id} ELSE assigned
       /\ request' = [request EXCEPT ![q] = NextStep(r)]
    /\ UNCHANGED <<notes, thread, unused, linked, proven, causes>>

\* send_verify_link, of the address just saved.
SendVerifyLink(q) ==
    /\ request[q].step = "link"
    /\ linked' = [linked EXCEPT ![request[q].id] =
                    @ \union {request[q].row.value}]
    /\ request' = [request EXCEPT ![q] = NoRequest]
    /\ UNCHANGED <<chan, assigned, notes, thread, unused, proven, causes>>

\* remove_channel: the notifications go with the channel.
RemoveChannel(c) ==
    /\ Exists(c)
    /\ chan' = [chan EXCEPT ![c] = NoRow]
    /\ assigned' = assigned \ {c}
    /\ notes' = [n \in DOMAIN notes |->
                   IF notes[n] # NoRow /\ notes[n].id = c
                   THEN NoRow ELSE notes[n]]
    /\ UNCHANGED <<thread, request, unused, linked, proven, causes>>

\* switch_channel, and the checkboxes of the channels page.
SwitchChannel(c) ==
    /\ Exists(c)
    /\ assigned' = IF c \in assigned THEN assigned \ {c}
                   ELSE assigned \union {c}
    /\ UNCHANGED <<chan, notes, thread, request, unused, historyVars>>

-----------------------------------------------------------------------------

ThreadStep(s) ==
    \/ \E status \in Both : StartFlip(s, status)
    \/ \E c \in ChannelIds : StartTest(s, c)
    \/ NotifyNext(s)
    \/ SkipNext(s)
    \/ NotifyMember(s)
    \/ MembersDone(s)
    \/ \E answer \in Answers : Attempt(s, answer)
    \/ Settle(s)
    \/ Finish(s)

ReportStep ==
    \E n \in 1 .. MaxNotes :
        \/ \E disables \in BOOLEAN : NotificationStatus(n, disables)
        \/ \E permanent \in BOOLEAN : Bounce(n, permanent)

RequestStep(q) ==
    \/ \E c \in ChannelIds : \/ Add(q, c)
                             \/ Edit(q, c)
                             \/ UpdateChannelName(q, c)
                             \/ \E a \in Targets : Verify(q, c, a)
    \/ SaveRow(q)
    \/ SendVerifyLink(q)

ChannelsNext ==
    \/ \E s \in Threads : ThreadStep(s)
    \/ ReportStep
    \/ \E q \in WebRequests : RequestStep(q)
    \/ \E c \in ChannelIds : \/ RemoveChannel(c)
                             \/ SwitchChannel(c)
                             \/ \E a \in Targets : Unsubscribe(c, a)

ChannelsSpec == ChannelsInit /\ [][ChannelsNext]_channelVars

-----------------------------------------------------------------------------
(* What the channels promise.                                              *)

\* A channel that counts as verified has the address somebody verified: the
\* mark never outlives a change of the address, however the requests that
\* save a row they read before interleave (email_form, verify).
VerifiedIsProven ==
    \A c \in Existing : chan[c].kind = "email" /\ chan[c].verified
                            => chan[c].value \in proven[c]

\* An alert goes only to an address whose owner agreed, even when the row
\* has changed since it was read (Email.notify).
AlertsGoToProven ==
    \A s \in Threads : \A i \in DOMAIN thread[s].frames :
        LET f == thread[s].frames[i] IN
        f.row.kind = "email" /\ f.step = "send" => f.row.value \in proven[f.id]

\* A channel is disabled only when a service said that it will never work, a
\* report or a bounce asked for it, or its owner unsubscribed; a service
\* that is down for long never disables one (Channel.notify).
DisabledForCause ==
    \A c \in Existing : chan[c].disabled => c \in causes
=============================================================================
