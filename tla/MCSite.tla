------------------------------- MODULE MCSite --------------------------------
(***************************************************************************)
(* Small instances of the components that web requests drive, for TLC: the *)
(* channels, the sign-in, the projects, the views that add channels, and   *)
(* the log of a check with its bodies, and what is said of many checks.    *)
(* They share no table that a property is about, so that one run explores  *)
(* one after the other: `part` says which, and the rest stays as it is.    *)
(***************************************************************************)
EXTENDS Channels, SignIn, Projects, Integrations, PingBodies, PingLog,
        Summaries, TLC

CONSTANTS
    c1, c2, me, other, s1, q1, q2,                  \* channels
    u1, u2, a1, a2, secret,                         \* sign-in
    ann, bob, eve, p1, p2, k1, k2, k3, h1,          \* projects
    t1, t2                              \* browsers, tabs, requests, handlers

VARIABLE part

logVars == <<pingLogVars, listing>>
siteVars ==
    <<channelVars, signInVars, projectsVars, integrationVars, pingBodyVars,
      logVars, part>>

SiteInit ==
    /\ ChannelsInit /\ SignInInit /\ ProjectsInit /\ IntegrationsInit
    /\ PingBodiesInit /\ PingLogInit /\ SummariesInit
    /\ part \in {"channels", "sign-in", "projects", "integrations", "bodies",
                 "durations", "summaries"}
    /\ part # "channels" => \A c \in ChannelIds : chan[c] = NoRow
    /\ part # "sign-in" => account[u1].email = a1

SiteNext ==
    /\ part' = part
    /\ \/ /\ part = "channels" /\ ChannelsNext
          /\ UNCHANGED <<signInVars, projectsVars, integrationVars, pingBodyVars,
                         logVars>>
       \/ /\ part = "sign-in" /\ SignInNext
          /\ UNCHANGED <<channelVars, projectsVars, integrationVars, pingBodyVars,
                         logVars>>
       \/ /\ part = "projects" /\ ProjectsNext
          /\ UNCHANGED <<channelVars, signInVars, integrationVars, pingBodyVars,
                         logVars>>
       \/ /\ part = "integrations" /\ IntegrationsNext
          /\ UNCHANGED <<channelVars, signInVars, projectsVars, pingBodyVars,
                         logVars>>
       \/ /\ part = "bodies" /\ PingBodiesNext
          /\ UNCHANGED <<channelVars, signInVars, projectsVars, integrationVars,
                         logVars>>
       \/ /\ part = "durations" /\ PingLogNext
          /\ UNCHANGED <<channelVars, signInVars, projectsVars, integrationVars,
                         pingBodyVars, listing>>
       \/ /\ part = "summaries" /\ SummariesNext
          /\ UNCHANGED <<channelVars, signInVars, projectsVars, integrationVars,
                         pingBodyVars, pingLogVars>>

SiteSpec == SiteInit /\ [][SiteNext]_siteVars

SiteSymmetry == Permutations({t1, t2})

-----------------------------------------------------------------------------
(* Channels: one of any transport, or a group and a member.                *)

\* Kinds with the same transport behave alike: one of them is enough.
MCAlike(k) == {j \in Kinds \ {"group", "email"} : TransportOf[j] = TransportOf[k]}

MCFirstKind ==
    {<<>>, c1 :> "group" @@ c2 :> "github"}
        \union {c1 :> (CHOOSE j \in MCAlike(k) : TRUE) :
                  k \in Kinds \ {"group", "email"}}

MCConfigured == {{"up"}}

\* Two requests are followed only while nothing has been sent, and a second
\* notification only where no channel is an email one.
MCOneRequest ==
    /\ notes # <<>> \/ thread # [s \in Threads |-> Idle]
          => request[q2] = NoRequest
    /\ Len(notes) = 2 =>
          \A c \in Existing : chan[c].kind # "email"

-----------------------------------------------------------------------------
(* Projects: ann's has a manager and a member; anybody may add another.    *)

MCOwner == p1 :> ann
MCHome == k1 :> p1
MCMembers ==
    { << [user |-> bob, project |-> p1, role |-> "manager"],
         [user |-> eve, project |-> p1, role |-> "regular"] >> }

-----------------------------------------------------------------------------
(* Adding channels: forms alone; two flows of one kind, or the second next *)
(* to one of Pushbullet; a fourth request only in a flow of GitHub.        *)

MCSettings ==
    {"APPRISE_ENABLED", "TWILIO_AUTH", "MATRIX_ACCESS_TOKEN", "MATTERMOST_ENABLED",
     "MSTEAMS_ENABLED", "OPSGENIE_ENABLED", "PAGERTREE_ENABLED",
     "ROCKETCHAT_ENABLED", "SHELL_ENABLED", "SLACK_ENABLED", "SPIKE_ENABLED",
     "TRELLO_APP_KEY", "VICTOROPS_ENABLED", "ZULIP_ENABLED", "TELEGRAM_TOKEN",
     "SLACK_CLIENT_ID", "DISCORD_CLIENT_ID", "PUSHBULLET_CLIENT_ID", "PD_ENABLED",
     "PD_APP_ID", "PUSHOVER_API_TOKEN", "GITHUB_CLIENT_ID"}

MCFewFlows ==
    /\ \A x \in added : x.state = 0 => visits = 1
    /\ Len(flow) = 2 => flow[1].kind \in {"pushbullet", flow[2].kind}
    /\ visits = 4 => [n \in DOMAIN flow |-> flow[n].kind] = <<"github">>
    /\ Cardinality({p \in Places : rights[p] = "ro"}) < 2

-----------------------------------------------------------------------------
(* Summaries: three checks, the last in a project of its own.              *)

MCListedIn == <<1, 1, 2>>

-----------------------------------------------------------------------------
(* Bodies: pruneobjects, or events that are cleared or old, not both.      *)

MCSweptOrCleared == forgotten = 0 \/ ~sweep

SiteBounds == MCOneRequest /\ MCFewFlows /\ MCSweptOrCleared
=============================================================================
