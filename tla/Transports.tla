----------------------------- MODULE Transports -----------------------------
(***************************************************************************)
(* What each transport does with a notification: the statuses it ignores,  *)
(* what stops it before it sends anything, how often it tries, and what it *)
(* makes of each answer of the service.  The message it sends, and the way *)
(* it is encoded, are left out.                                            *)
(*                                                                         *)
(* A verdict on an answer is                                               *)
(*   "done"       the transport returns;                                   *)
(*   "again"      a TransportError that is retried while tries are left;   *)
(*   "error"      a TransportError that is not retried;                    *)
(*   "permanent"  a TransportError with permanent=True;                    *)
(*   "moved"      the recipient has a new name: save it, send once more;   *)
(*   "throws"     an exception that is not a TransportError.               *)
(***************************************************************************)
EXTENDS Naturals

Both == {"up", "down"}

\* Transport: it never ignores a status, and asks for nothing.  "config"
\* stands for the statuses the channel itself is configured for.
Plain == [on       |-> "both",    \* statuses is_noop lets through
          gated    |-> FALSE,     \* a setting can switch it off
          limited  |-> "none",    \* a token bucket, or the account's quota
          tries    |-> 1,
          requests |-> 1,         \* requests of one notification
          verdict  |-> [ok |-> "done", failed |-> "error"]]

\* A status other than 200, 201, 202 or 204, or a CurlError: three tries.
Http == [Plain EXCEPT !.tries = 3,
                      !.verdict = [ok |-> "done", failed |-> "again",
                                   unreachable |-> "again"]]

Gated(t) == [t EXCEPT !.gated = TRUE]

Verdicts(t, extra) ==
    [t EXCEPT !.verdict = [a \in DOMAIN extra \union DOMAIN @ |->
                             IF a \in DOMAIN extra THEN extra[a] ELSE @[a]]]

-----------------------------------------------------------------------------

Apprise == Gated(Plain)

\* Twilio's code 21211 says that the number is not valid.
Twilio == Verdicts(Gated(Http), [invalid_number |-> "permanent"])

Call == [Twilio EXCEPT !.on = "down", !.limited = "call"]

Sms == [Twilio EXCEPT !.on = "config", !.limited = "sms"]

WhatsApp == [Twilio EXCEPT !.on = "config", !.limited = "sms"]

Discord == Verdicts(Http, [status404 |-> "permanent"])

\* EmailThread.run tries three times when the server hangs up or refuses the
\* data; what it raises in the end is no TransportError.
SmtpVerdict == [ok |-> "done", disconnected |-> "again", refused |-> "throws"]

Email == [Plain EXCEPT !.on = "config", !.tries = 3, !.verdict = SmtpVerdict]

\* get_installation_access_token: 404 when the app has been uninstalled; its
\* own CurlError, or an answer without a token, is not caught.
GitHubToken == [uninstalled |-> "error", no_token |-> "throws"]

GitHub == [Verdicts(Verdicts(Gated(Http), [status410 |-> "permanent"]), GitHubToken)
             EXCEPT !.on = "down"]

GoogleChat == Http

Gotify == [Http EXCEPT !.on = "config"]

\* Group.notify calls notify of the members: see NotifyMembers of Channels.
Group == Plain

Matrix == Http

Mattermost == Gated(Http)

MsTeamsWorkflow == Gated(Http)

Ntfy == [Http EXCEPT !.on = "config", !.limited = "bucket"]

Opsgenie == Gated(Http)

PagerTree == Gated(Http)

PagerDuty == Gated(Http)

\* Up events of an emergency channel cancel the emergency first.
Pushover == [Verdicts(Gated(Http), [invalid_user |-> "permanent"])
               EXCEPT !.on = "config", !.limited = "bucket", !.requests = 2]

Pushbullet == Http

RocketChat == Gated(Http)

\* os.system, and its exit code.
Shell == [Gated(Plain) EXCEPT !.on = "config"]

\* Signal.send reads replies until one has the id of its request.
SignalReply == [unregistered |-> "permanent", rate_limited |-> "error",
                failed |-> "again", timed_out |-> "again"]

Signal == [Verdicts(Gated(Plain), SignalReply)
             EXCEPT !.on = "config", !.limited = "bucket", !.tries = 2]

Slackalike == Gated(Http)

Slack == Verdicts(Slackalike, [status404 |-> "permanent",
                               invalid_token |-> "permanent"])

Spike == Gated(Http)

\* PERMANENT_ERRORS, and the error that names the new chat.
TelegramErrors == [blocked |-> "permanent", migrated |-> "moved"]

Telegram == [Verdicts(Http, TelegramErrors) EXCEPT !.limited = "bucket"]

Trello == [Gated(Http) EXCEPT !.on = "down"]

VictorOps == Verdicts(Gated(Http), [status404 |-> "permanent"])

\* A test notification is tried once.
Webhook == [Gated(Http) EXCEPT !.on = "config"]

Zulip == Gated(Http)

-----------------------------------------------------------------------------

\* TRANSPORTS, by the kind of the channel.
TransportOf ==
    [apprise |-> Apprise, call |-> Call, discord |-> Discord, email |-> Email,
     github |-> GitHub, googlechat |-> GoogleChat, gotify |-> Gotify,
     group |-> Group, matrix |-> Matrix, mattermost |-> Mattermost,
     msteamsw |-> MsTeamsWorkflow, ntfy |-> Ntfy, opsgenie |-> Opsgenie,
     pagertree |-> PagerTree, pd |-> PagerDuty, po |-> Pushover,
     pushbullet |-> Pushbullet, rocketchat |-> RocketChat, shell |-> Shell,
     signal |-> Signal, slack |-> Slack, sms |-> Sms, spike |-> Spike,
     telegram |-> Telegram, trello |-> Trello, victorops |-> VictorOps,
     webhook |-> Webhook, whatsapp |-> WhatsApp, zulip |-> Zulip]

Kinds == DOMAIN TransportOf

\* is_noop: `config` are the statuses the channel is configured for.
IsNoop(kind, config, status) ==
    CASE TransportOf[kind].on = "both"   -> FALSE
      [] TransportOf[kind].on = "down"   -> status # "down"
      [] TransportOf[kind].on = "config" -> status \notin config

\* Mutant of Verdict: a service that stays down is gone for good.
VerdictGivingUp(kind, answer, tries) ==
    LET v == TransportOf[kind].verdict[answer] IN
    IF v # "again" \/ tries > 1 THEN v ELSE "permanent"

\* HttpTransport.request: what a verdict becomes with so many tries left.
Verdict(kind, answer, tries) ==
    LET v == TransportOf[kind].verdict[answer] IN
    IF v # "again" \/ tries > 1 THEN v
    ELSE IF kind = "email" THEN "throws" ELSE "error"
=============================================================================
