---------------------------- MODULE Integrations ----------------------------
(***************************************************************************)
(* The views that add a channel: those with a form, and those that send    *)
(* the user to another service and add the channel when the browser comes  *)
(* back.                                                                   *)
(*                                                                         *)
(* What such a flow has to remember is in the session.  A request reads    *)
(* the session when it starts, and the middleware writes all of it back    *)
(* when the request ends, if the view has changed it and has not raised.   *)
(* The pages of one user in one browser, in several tabs.                  *)
(***************************************************************************)
EXTENDS Naturals, Sequences, FiniteSets, TLC

CONSTANTS
    Places,         \* projects
    Tabs,           \* requests served at a time
    SettingsOn,     \* settings that are true
    Empty,          \* no value in the session, no request
    MaxFlows,       \* bound: flows started
    MaxVisits,      \* bound: requests begun
    MaxForms        \* bound: those begun when a form is used

Rights == {"ro", "rw"}

\* Kinds whose service gives a code that can be exchanged once.
CodeKinds == {"slack", "discord", "pushbullet"}

FlowKinds == CodeKinds \union {"pd", "po", "github"}
FormKinds ==
    {"apprise", "call", "googlechat", "matrix", "mattermost", "msteamsw", "opsgenie",
     "pagertree", "rocketchat", "shell", "slack", "spike", "trello", "victorops",
     "zulip", "telegram", "pd"}

\* Session keys: the pair of state and project of a kind, the state of "po",
\* and three keys of GitHub.
SessionKeys == CodeKinds \union {"pd", "po", "ghState", "ghProject", "ghToken"}

Cookies ==
    [SessionKeys ->
        [state : Nat, project : Places] \union Nat \union Places \union {Empty}]

RowsToAdd ==
    [kind : FlowKinds \union FormKinds, project : Places, state : Nat,
     key : {1, 2}, allowed : BOOLEAN]

TabRequests ==
    [copy : Cookies, popped : Nat, exchange : BOOLEAN, rows : Seq(RowsToAdd),
     saves : BOOLEAN]

ASSUME IntegrationsAssumption ==
    /\ {MaxFlows, MaxVisits, MaxForms} \subseteq Nat
    /\ Empty \notin Nat \union TabRequests

VARIABLES
    rights,     \* of the user, in each project
    cookie,     \* the session
    tab,        \* the request of each tab
    flow,       \* kind and project of each flow; its index is its state
    spent,      \* flows whose code has been exchanged
    forms,      \* projects GitHub's form was shown for
    added,      \* the channels
    visits,     \* requests begun so far
    repeated    \* history: flows seen by two requests at once, brought back
                \* by a save of an old session, or by a request that raised

integrationVars ==
    <<rights, cookie, tab, flow, spent, forms, added, visits, repeated>>

\* What a request that begins leaves alone.
world == <<rights, cookie, spent, forms, added>>

IntegrationsInit ==
    /\ rights = [p \in Places |-> "rw"]
    /\ cookie = [k \in SessionKeys |-> Empty]
    /\ tab = [t \in Tabs |-> Empty]
    /\ flow = <<>>
    /\ spent = {} /\ forms = {} /\ added = {} /\ repeated = {}
    /\ visits = 0

-----------------------------------------------------------------------------
(* Requests.                                                               *)

\* A row to insert; `allowed` is for the history.
NewRow(kind, p, state, key) ==
    [kind |-> kind, project |-> p, state |-> state, key |-> key,
     allowed |-> rights[p] = "rw"]

\* The request of t works with `copy` of the session; `popped` is the flow it
\* is about, `exchange` whether a code has to be exchanged before the rows are
\* inserted.
Begins(t, copy, popped, exchange, inserts) ==
    /\ tab[t] = Empty
    /\ visits < MaxVisits
    /\ visits' = visits + 1
    /\ tab' = [tab EXCEPT ![t] =
                 [copy |-> copy, popped |-> popped, exchange |-> exchange,
                  rows |-> inserts, saves |-> copy # cookie]]
    /\ repeated' = IF \E o \in Tabs \ {t} : tab[o] # Empty /\ tab[o].popped = popped
                   THEN repeated \union {popped} ELSE repeated

Drops(key) == [cookie EXCEPT ![key] = Empty]

\* The flows a session knows of.
FlowsIn(held) ==
    {held[k].state : k \in {x \in CodeKinds \union {"pd"} : held[x] # Empty}}
        \union ({held[k] : k \in {"po", "ghState", "ghToken"}} \ {Empty})

\* curl.post to the service, with the code of the callback; GitHub's raises
\* when there is no token in the answer.
Exchange(t, ok) ==
    LET r == tab[t] IN
    /\ r # Empty
    /\ r.exchange
    /\ ok => r.popped \notin spent
    /\ spent' = spent \union {r.popped}
    /\ IF ok \/ flow[r.popped].kind # "github"
       THEN /\ tab' = [tab EXCEPT ![t].exchange = FALSE,
                                  ![t].rows = IF ok THEN @ ELSE <<>>]
            /\ UNCHANGED repeated
       ELSE /\ tab' = [tab EXCEPT ![t] = Empty]
            /\ repeated' = repeated \union {r.popped}
    /\ UNCHANGED <<rights, cookie, flow, forms, added, visits>>

\* The channel of a row; `nth` tells it from others like it.
Nth(row, n) ==
    [kind |-> row.kind, project |-> row.project, state |-> row.state, key |-> row.key,
     allowed |-> row.allowed, nth |-> n]

\* channel.save() and assign_all_checks().
Insert(t) ==
    LET r == tab[t] IN
    /\ r # Empty
    /\ ~r.exchange /\ r.rows # <<>>
    /\ LET row  == Head(r.rows)
           same == {x \in added : x = Nth(row, x.nth)}
       IN added' = added \union {Nth(row, Cardinality(same) + 1)}
    /\ tab' = [tab EXCEPT ![t].rows = Tail(@)]
    /\ UNCHANGED <<rights, cookie, flow, spent, forms, visits,
                   repeated>>

\* SessionMiddleware.process_response.
Respond(t) ==
    LET r == tab[t] IN
    /\ r # Empty
    /\ ~r.exchange /\ r.rows = <<>>
    /\ tab' = [tab EXCEPT ![t] = Empty]
    /\ forms' = IF /\ r.popped # 0 /\ flow[r.popped].kind = "github"
                   /\ r.copy["ghToken"] # Empty /\ r.copy["ghState"] = Empty
                THEN forms \union {r.copy["ghProject"]} ELSE forms
    /\ IF r.saves
       THEN /\ cookie' = r.copy
            /\ repeated' = repeated \union
                 {s \in FlowsIn(r.copy) \ FlowsIn(cookie) : s # r.popped}
       ELSE UNCHANGED <<cookie, repeated>>
    /\ UNCHANGED <<rights, flow, spent, added, visits>>

\* An error of curl, an answer nobody expected, harakiri: nothing is saved.
Raise(t) ==
    /\ tab[t] # Empty
    /\ tab' = [tab EXCEPT ![t] = Empty]
    /\ repeated' = repeated \union ({tab[t].popped} \ {0})
    /\ UNCHANGED <<world, flow, visits>>

-----------------------------------------------------------------------------
(* Meanwhile.                                                              *)

\* A manager changes the role of the user; one who is no member any more may
\* edit as little as one who may only read.
SetRights(p, r) ==
    /\ rights[p] # r
    /\ rights' = [rights EXCEPT ![p] = r]
    /\ UNCHANGED <<cookie, tab, flow, spent, forms, added, visits,
                   repeated>>

-----------------------------------------------------------------------------
(* Views with a form.  One that is not valid adds nothing.                 *)

FormView(t, p, kind, settings) ==
    /\ settings \subseteq SettingsOn
    /\ rights[p] = "rw"
    /\ visits < MaxForms
    /\ Begins(t, cookie, 0, FALSE, <<NewRow(kind, p, 0, 1)>>)
    /\ UNCHANGED <<world, flow>>

AddApprise(t, p)    == FormView(t, p, "apprise", {"APPRISE_ENABLED"})
AddCall(t, p)       == FormView(t, p, "call", {"TWILIO_AUTH"})
AddGoogleChat(t, p) == FormView(t, p, "googlechat", {})
AddMatrix(t, p)     == FormView(t, p, "matrix", {"MATRIX_ACCESS_TOKEN"})
AddMattermost(t, p) == FormView(t, p, "mattermost", {"MATTERMOST_ENABLED"})
AddMsTeams(t, p)    == FormView(t, p, "msteamsw", {"MSTEAMS_ENABLED"})
AddOpsgenie(t, p)   == FormView(t, p, "opsgenie", {"OPSGENIE_ENABLED"})
AddPagerTree(t, p)  == FormView(t, p, "pagertree", {"PAGERTREE_ENABLED"})
AddRocketChat(t, p) == FormView(t, p, "rocketchat", {"ROCKETCHAT_ENABLED"})
AddShell(t, p)      == FormView(t, p, "shell", {"SHELL_ENABLED"})
AddSlackUrl(t, p)   == FormView(t, p, "slack", {"SLACK_ENABLED"})
AddSpike(t, p)      == FormView(t, p, "spike", {"SPIKE_ENABLED"})
AddTrello(t, p)     == FormView(t, p, "trello", {"TRELLO_APP_KEY"})
AddVictorOps(t, p)  == FormView(t, p, "victorops", {"VICTOROPS_ENABLED"})
AddZulip(t, p)      == FormView(t, p, "zulip", {"ZULIP_ENABLED"})

\* With a link that the bot answers /start with (telegram_bot).
AddTelegram(t, p)   == FormView(t, p, "telegram", {"TELEGRAM_TOKEN"})

AddByForm(t, p) ==
    \/ AddApprise(t, p)    \/ AddCall(t, p)      \/ AddGoogleChat(t, p)
    \/ AddMatrix(t, p)     \/ AddMattermost(t, p) \/ AddMsTeams(t, p)
    \/ AddOpsgenie(t, p)   \/ AddPagerTree(t, p) \/ AddRocketChat(t, p)
    \/ AddShell(t, p)      \/ AddSlackUrl(t, p)  \/ AddSpike(t, p)
    \/ AddTrello(t, p)     \/ AddVictorOps(t, p) \/ AddZulip(t, p)
    \/ AddTelegram(t, p)

-----------------------------------------------------------------------------
(* Views that send the browser to another service, and get it back.        *)

\* The page has the link, with a new state; the pair in the session replaces
\* the one of a flow in another tab.
StartFlow(t, p, kind, settings, copy) ==
    /\ settings \subseteq SettingsOn
    /\ rights[p] = "rw"
    /\ Len(flow) < MaxFlows
    /\ flow' = Append(flow, [kind |-> kind, project |-> p])
    /\ Begins(t, copy, Len(flow) + 1, FALSE, <<>>)
    /\ UNCHANGED world

Remember(key, p) ==
    [cookie EXCEPT ![key] = [state |-> Len(flow) + 1, project |-> p]]

AddSlack(t, p)      == StartFlow(t, p, "slack", {"SLACK_ENABLED", "SLACK_CLIENT_ID"},
                                 Remember("slack", p))
AddDiscord(t, p)    == StartFlow(t, p, "discord", {"DISCORD_CLIENT_ID"},
                                 Remember("discord", p))
AddPushbullet(t, p) == StartFlow(t, p, "pushbullet", {"PUSHBULLET_CLIENT_ID"},
                                 Remember("pushbullet", p))

\* A form without an id of the site's app.
AddPd(t, p) ==
    IF "PD_APP_ID" \in SettingsOn
    THEN StartFlow(t, p, "pd", {"PD_ENABLED"}, Remember("pd", p))
    ELSE FormView(t, p, "pd", {"PD_ENABLED"})

\* The URLs the services send the browser to, when the user has authorised the
\* site or has cancelled; it may load them again at any time.
Callbacks == {[state |-> s, denied |-> d] : s \in DOMAIN flow, d \in BOOLEAN}

\* The state is popped, whatever comes of the rest.  Cancelled, or the wrong
\* state, or a project the user may not edit any more: nothing is added.
Complete(t, u, kind) ==
    /\ cookie[kind] # Empty
    /\ LET held == cookie[kind]
           ok   == rights[held.project] = "rw" /\ ~u.denied /\ u.state = held.state
       IN Begins(t, Drops(kind), u.state, ok,
                 IF ok THEN <<NewRow(kind, held.project, u.state, 1)>> ELSE <<>>)
    /\ UNCHANGED <<world, flow>>

SlackComplete(t, u)      == flow[u.state].kind = "slack" /\ Complete(t, u, "slack")
DiscordComplete(t, u)    == flow[u.state].kind = "discord" /\ Complete(t, u, "discord")

\* Mutant of PushbulletComplete: the state is popped, and not compared.
PushbulletAnyState(t, u) ==
    /\ flow[u.state].kind = "pushbullet"
    /\ cookie["pushbullet"] # Empty
    /\ LET p  == cookie["pushbullet"].project
           ok == rights[p] = "rw" /\ ~u.denied
       IN Begins(t, Drops("pushbullet"), u.state, ok,
                 IF ok THEN <<NewRow("pushbullet", p, u.state, 1)>> ELSE <<>>)
    /\ UNCHANGED <<world, flow>>

PushbulletComplete(t, u) == flow[u.state].kind = "pushbullet" /\ Complete(t, u, "pushbullet")

\* Mutant of PdComplete: the pair stays in the session.
PdCompleteAgain(t, u) ==
    /\ flow[u.state].kind = "pd" /\ ~u.denied
    /\ cookie["pd"] # Empty
    /\ LET held == cookie["pd"]
           ok   == rights[held.project] = "rw" /\ u.state = held.state
       IN \E n \in 1 .. 2 :
            Begins(t, cookie, u.state, FALSE,
                   IF ok THEN [k \in 1 .. n |-> NewRow("pd", held.project, u.state, k)]
                   ELSE <<>>)
    /\ UNCHANGED <<world, flow>>

\* The callback itself has the keys, one for each channel.
PdComplete(t, u) ==
    /\ flow[u.state].kind = "pd" /\ ~u.denied
    /\ cookie["pd"] # Empty
    /\ LET held == cookie["pd"]
           ok   == rights[held.project] = "rw" /\ u.state = held.state
       IN \E n \in 1 .. 2 :
            Begins(t, Drops("pd"), u.state, FALSE,
                   IF ok THEN [k \in 1 .. n |-> NewRow("pd", held.project, u.state, k)]
                   ELSE <<>>)
    /\ UNCHANGED <<world, flow>>

\* The URLs Pushover is given have the project, the session only the state.
AddPushover(t, p) ==
    StartFlow(t, p, "po", {"PUSHOVER_API_TOKEN"},
              [cookie EXCEPT !["po"] = Len(flow) + 1])

PushoverSuccess(t, u) ==
    LET p == flow[u.state].project IN
    /\ flow[u.state].kind = "po" /\ ~u.denied
    /\ rights[p] = "rw"
    /\ cookie["po"] # Empty
    /\ Begins(t, Drops("po"), u.state, FALSE,
              IF u.state = cookie["po"] THEN <<NewRow("po", p, u.state, 1)>> ELSE <<>>)
    /\ UNCHANGED <<world, flow>>

\* pushover_unsubscribed: every Pushover channel of the project goes.
PushoverUnsubscribed(t, u) ==
    LET p == flow[u.state].project IN
    /\ flow[u.state].kind = "po" /\ ~u.denied
    /\ rights[p] = "rw"
    /\ u.state = cookie["po"]
    /\ Begins(t, Drops("po"), u.state, FALSE, <<>>)
    /\ added' = {x \in added : x.kind # "po" \/ x.project # p}
    /\ UNCHANGED <<rights, cookie, spent, forms, flow>>

AddGitHub(t, p) ==
    StartFlow(t, p, "github", {"GITHUB_CLIENT_ID"},
              [cookie EXCEPT !["ghState"] = Len(flow) + 1, !["ghProject"] = p])

\* get_repos: the user may have revoked the token by now.
AfterRepos(copy, revoked) ==
    IF revoked THEN [copy EXCEPT !["ghProject"] = Empty, !["ghToken"] = Empty]
    ELSE copy

\* select: the state is popped and the code exchanged for a token, if that is
\* not done; then the form is shown, with the repositories.
GitHubSelect(t, u) ==
    /\ flow[u.state].kind = "github"
    /\ cookie["ghProject"] # Empty
    /\ rights[cookie["ghProject"]] = "rw"
    /\ \/ /\ cookie["ghState"] # Empty
          /\ LET ok == u.state = cookie["ghState"] /\ ~u.denied IN
             IF ok THEN \E revoked \in BOOLEAN :
                Begins(t, AfterRepos([Drops("ghState") EXCEPT !["ghToken"] = u.state],
                                     revoked), u.state, TRUE, <<>>)
             ELSE Begins(t, Drops("ghState"), u.state, FALSE, <<>>)
       \/ /\ cookie["ghState"] = Empty
          /\ cookie["ghToken"] # Empty
          /\ \E revoked \in BOOLEAN :
                Begins(t, AfterRepos(cookie, revoked), cookie["ghToken"], FALSE, <<>>)
    /\ UNCHANGED <<world, flow>>

\* save: the repositories are looked up again; there may be none any more.
GitHubSave(t, p) ==
    /\ p \in forms
    /\ rights[p] = "rw"
    /\ cookie["ghToken"] # Empty
    /\ \E found \in BOOLEAN :
          Begins(t, [Drops("ghProject") EXCEPT !["ghToken"] = Empty],
                 cookie["ghToken"], FALSE,
                 IF found THEN <<NewRow("github", p, cookie["ghToken"], 1)>>
                 ELSE <<>>)
    /\ UNCHANGED <<world, flow>>

-----------------------------------------------------------------------------

VisitPage(t, p) ==
    \/ AddByForm(t, p)
    \/ AddSlack(t, p) \/ AddDiscord(t, p) \/ AddPushbullet(t, p)
    \/ AddPd(t, p) \/ AddPushover(t, p) \/ AddGitHub(t, p)
    \/ GitHubSave(t, p)

VisitCallback(t, u) ==
    \/ SlackComplete(t, u) \/ DiscordComplete(t, u) \/ PushbulletComplete(t, u)
    \/ PdComplete(t, u) \/ PushoverSuccess(t, u) \/ PushoverUnsubscribed(t, u)
    \/ GitHubSelect(t, u)

IntegrationsNext ==
    \/ \E t \in Tabs :
          \/ \E p \in Places : VisitPage(t, p)
          \/ \E u \in Callbacks : VisitCallback(t, u)
          \/ \E ok \in BOOLEAN : Exchange(t, ok)
          \/ Insert(t) \/ Respond(t) \/ Raise(t)
    \/ \E p \in Places, r \in Rights : SetRights(p, r)

IntegrationsSpec == IntegrationsInit /\ [][IntegrationsNext]_integrationVars

-----------------------------------------------------------------------------
(* What these views promise.                                               *)

\* What a service grants goes to the project the user started from, and only
\* if the user could still edit it when the browser came back, whatever other
\* tabs have started or finished since (add_complete, pushover add).  GitHub
\* has a form in between, which names its project.  And however often its URL
\* is loaded, a grant adds a channel once: where the session alone remembers
\* it, unless two requests about it were under way at once, one of them
\* raised, or a save of an old session brought it back.
GrantsGoHomeOnce ==
    \A x \in added :
        /\ x.allowed
        /\ x.kind \notin {"github"} /\ x.state # 0
              => flow[x.state] = [kind |-> x.kind, project |-> x.project]
        /\ x.state # 0 /\ x.nth > 1 =>
              x.kind \notin CodeKinds /\ x.state \in repeated
=============================================================================
