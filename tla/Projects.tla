------------------------------ MODULE Projects ------------------------------
(***************************************************************************)
(* Projects: their owners, members and keys, the checks and channels in    *)
(* them, and which channel is assigned to which check.                     *)
(*                                                                         *)
(* A request, of a user of the site or of a client of the API that has a   *)
(* project's key, reads what it needs when it starts, and then executes    *)
(* one statement after the other: `steps` holds those that are left.       *)
(* project.save() and membership.save() write every column of a copy, and  *)
(* insert the row again when it is gone.                                   *)
(***************************************************************************)
EXTENDS Naturals, Sequences, SequencesExt, FiniteSets

CONSTANTS
    People,         \* users
    ProjectIds,
    FirstOwner,     \* owners of the projects that exist at first
    FirstMembers,   \* their members: sets of [user, project, role]
    MemberIds,
    Checks,         \* ids of checks
    FirstHome,      \* projects of the checks that exist at first
    Hooks,   \* ids of channels
    Slots,          \* requests served at a time
    CheckLimit,     \* checks an account may have
    Gone,           \* no row
    MaxBegun,       \* bound: requests
    MaxKeys         \* bound: keys created

Roles == {"readonly", "regular", "manager"}
NoKey == 0

ProjectRow == [owner : People, key : Nat]
MemberRow ==
    [user : People, project : ProjectIds, role : Roles, asked : BOOLEAN]

ASSUME ProjectsAssumption ==
    /\ CheckLimit \in Nat /\ MaxBegun \in Nat /\ MaxKeys \in Nat
    /\ DOMAIN FirstOwner \subseteq ProjectIds
    /\ \A p \in DOMAIN FirstOwner : FirstOwner[p] \in People
    /\ DOMAIN FirstHome \subseteq Checks /\ IsFiniteSet(Checks)
    /\ \A c \in DOMAIN FirstHome : FirstHome[c] \in DOMAIN FirstOwner
    /\ \A u \in People :       \* at first nobody is beyond the limit
          Cardinality({c \in DOMAIN FirstHome : FirstOwner[FirstHome[c]] = u})
            <= CheckLimit
    /\ MemberIds \subseteq Nat \ {0}
    /\ \A m \in FirstMembers : \A i \in DOMAIN m :
          m[i].user \in People /\ m[i].project \in DOMAIN FirstOwner
            /\ m[i].role \in Roles
    /\ Gone \notin People \union ProjectIds \union ProjectRow \union MemberRow

VARIABLES
    project,        \* rows of the table of projects
    member,         \* rows of the table of members
    home,           \* the project of each check
    place,          \* the project of each channel
    wired,          \* pairs of a check and a channel assigned to it
    steps,          \* statements left of each request
    keysMade,       \* keys created so far
    served,         \* requests begun so far
    asked,          \* history: users an owner asked to take over, by project
    founder,        \* history: first owner of each project
    torn,           \* history: checks moved or copied while a request was
                    \* assigning channels to them
    raced,          \* history: users whose checks changed under a request
    provisioned     \* history: users whose pings created checks

projectsVars ==
    <<project, member, home, place, wired, steps, keysMade, served, asked,
      founder, torn, raced, provisioned>>

rows == <<project, member, home, place, wired>>
claims == <<asked, founder, torn, raced, provisioned>>

ProjectsInit ==
    /\ project = [p \in ProjectIds |-> IF p \in DOMAIN FirstOwner
                    THEN [owner |-> FirstOwner[p], key |-> NoKey] ELSE Gone]
    /\ \E m \in FirstMembers :
          member = [i \in MemberIds |-> IF i \in DOMAIN m
                      THEN [user |-> m[i].user, project |-> m[i].project,
                            role |-> m[i].role, asked |-> FALSE] ELSE Gone]
    /\ home = [c \in Checks |-> IF c \in DOMAIN FirstHome THEN FirstHome[c]
                                ELSE Gone]
    /\ place = [h \in Hooks |-> Gone]
    /\ wired = {}
    /\ steps = [q \in Slots |-> <<>>]
    /\ keysMade = 0
    /\ served = 0
    /\ asked = [p \in ProjectIds |-> {}]
    /\ founder = [p \in ProjectIds |-> IF project[p] = Gone THEN {}
                                       ELSE {project[p].owner}]
    /\ torn = {} /\ raced = {} /\ provisioned = {}

-----------------------------------------------------------------------------
(* What a request looks up.                                                *)

Live(p) == project[p] # Gone

Rows(p) == {i \in MemberIds : member[i] # Gone /\ member[i].project = p}

IsOwner(u, p) == Live(p) /\ project[p].owner = u

HasRole(u, p, roles) ==
    Live(p) /\ \E i \in Rows(p) : member[i].user = u /\ member[i].role \in roles

Rw(u, p) == IsOwner(u, p) \/ HasRole(u, p, {"regular", "manager"})

Manages(u, p) == IsOwner(u, p) \/ HasRole(u, p, {"manager"})

ChecksIn(p) == {c \in Checks : home[c] = p}

ChannelsIn(p) == {h \in Hooks : place[h] = p}

\* Profile.num_checks_used.
Used(u) == Cardinality({c \in Checks : home[c] # Gone /\ Live(home[c])
                                       /\ project[home[c]].owner = u})

\* Mutant of Available: one check too many.
AvailablePlus(u) == Used(u) <= CheckLimit

\* num_checks_available() > 0.
Available(u) == Used(u) < CheckLimit

Starts(q, writes) ==
    /\ steps[q] = <<>>
    /\ steps' = [steps EXCEPT ![q] = writes]

Left == UNION {{steps[q][n] : n \in DOMAIN steps[q]} : q \in Slots}

\* A new row gets an id that no statement refers to.
NewCheckIds ==
    {c \in Checks : home[c] = Gone /\ \A w \in Left :
        /\ "c" \in DOMAIN w => w.c # c
        /\ "checks" \in DOMAIN w => c \notin w.checks}

NewChannelIds ==
    {h \in Hooks : place[h] = Gone /\ \A w \in Left :
        /\ "h" \in DOMAIN w => w.h # h
        /\ "channels" \in DOMAIN w => h \notin w.channels}

NewMemberIds ==
    {i \in MemberIds : member[i] = Gone /\ \A w \in Left :
        "i" \in DOMAIN w => w.i # i}

-----------------------------------------------------------------------------
(* Statements, and what stops a request with an exception.                 *)

Clash(i, row) == \E j \in MemberIds \ {i} :
                    /\ member[j] # Gone
                    /\ member[j].user = row.user
                    /\ member[j].project = row.project

\* Foreign keys, the constraint on members, and updates of no row.
Possible(w) ==
    CASE w.do = "insertMember"  -> Live(w.row.project) /\ ~Clash(0, w.row)
      [] w.do = "saveMember"    -> Live(w.row.project) /\ ~Clash(w.i, w.row)
      [] w.do = "accept"        -> ~Clash(w.i, w.row)
      [] w.do = "insertCheck"   -> Live(w.p)
      [] w.do = "moveCheck"     -> home[w.c] # Gone /\ Live(w.p)
      [] w.do = "assign"        -> home[w.c] # Gone
                                   /\ \A h \in w.channels : place[h] # Gone
      [] w.do = "assignAll"     -> home[w.c] # Gone
      [] w.do = "insertChannel" -> Live(w.p)
      [] OTHER                  -> TRUE

\* The number of checks is not what the request was based on.
Outdated(u, used) == IF Used(u) # used THEN {u} ELSE {}

DoSaveProject(w) ==
    /\ project' = [project EXCEPT ![w.p] = w.row]
    /\ raced' = raced \union (IF Live(w.p) /\ project[w.p].owner = w.row.owner
                              THEN {} ELSE {w.row.owner})
    /\ UNCHANGED <<member, home, place, wired, asked, founder, torn,
                   provisioned>>

DoMembers(w) ==
    /\ member' = CASE w.do = "insertMember" ->
                        [member EXCEPT ![CHOOSE i \in NewMemberIds : TRUE]
                                         = w.row]
                   [] w.do = "saveMember" -> [member EXCEPT ![w.i] = w.row]
                   [] w.do = "deleteMember" ->
                        [i \in MemberIds |->
                           IF i \in Rows(w.p) /\ member[i].user = w.user
                           THEN Gone ELSE member[i]]
                   [] w.do = "clearAsked" ->
                        [i \in MemberIds |->
                           IF i \in Rows(w.p)
                           THEN [member[i] EXCEPT !.asked = FALSE]
                           ELSE member[i]]
    /\ asked' = IF w.do = "saveMember" /\ w.row.asked
                THEN [asked EXCEPT ![w.row.project] = @ \union {w.row.user}]
                ELSE asked
    /\ UNCHANGED <<project, home, place, wired, founder, torn, raced,
                   provisioned>>

\* The transaction of accept_transfer.
DoAccept(w) ==
    /\ member' = [member EXCEPT ![w.i] = w.row]
    /\ project' = [project EXCEPT ![w.p] = w.project]
    /\ raced' = raced \union Outdated(w.project.owner, w.used)
                      \union (IF Cardinality(ChecksIn(w.p)) # w.count
                              THEN {w.project.owner} ELSE {})
    /\ UNCHANGED <<home, place, wired, asked, founder, torn, provisioned>>

DoInsertCheck(w) ==
    /\ home' = [home EXCEPT ![w.c] = w.p]
    /\ raced' = raced \union Outdated(project[w.p].owner, w.used)
                      \union (IF project[w.p].owner = w.owner THEN {}
                              ELSE {project[w.p].owner})
    /\ provisioned' = IF w.limit = CheckLimit THEN provisioned
                      ELSE provisioned \union {project[w.p].owner}
    /\ UNCHANGED <<project, member, place, wired, asked, founder, torn>>

\* Requests that have channels of the check still to write.
Assigning(c) == {q \in Slots : \E n \in DOMAIN steps[q] :
    LET w == steps[q][n] IN
    \/ w.do \in {"assign", "assignAll", "switch"} /\ w.c = c
    \/ w.do = "assignChecks" /\ c \in w.checks}

DoMoveCheck(q, w) ==
    /\ home' = [home EXCEPT ![w.c] = w.p]
    /\ torn' = IF Assigning(w.c) \ {q} = {} THEN torn ELSE torn \union {w.c}
    /\ raced' = raced \union (IF project[home[w.c]].owner = project[w.p].owner
                              THEN {} ELSE Outdated(project[w.p].owner, w.used))
                      \union (IF project[w.p].owner = w.owner
                                 /\ project[home[w.c]].owner = w.from THEN {}
                              ELSE {project[w.p].owner})
    /\ UNCHANGED <<project, member, place, wired, asked, founder, provisioned>>

Unwired(c) == {x \in wired : x[1] # c}

\* channel_set.set, add and remove; assign_all_channels and assign_all_checks
\* look up the channels, or the checks, at this point.
DoWire(w) ==
    /\ wired' =
         CASE w.do = "assignAll" ->
                Unwired(w.c) \union ({w.c} \X ChannelsIn(w.p))
           [] w.do = "assign"    ->
                (IF w.add THEN wired ELSE Unwired(w.c))
                  \union ({w.c} \X w.channels)
           [] w.do = "switch"    ->
                IF home[w.c] = Gone \/ place[w.h] = Gone \/ ~w.on
                THEN wired \ {<<w.c, w.h>>} ELSE wired \union {<<w.c, w.h>>}
           [] w.do = "assignChecks" ->
                {x \in wired : x[2] # w.h \/ w.add}
                  \union ({c \in IF w.add THEN ChecksIn(w.p) ELSE w.checks :
                             home[c] # Gone /\ place[w.h] # Gone} \X {w.h})
    /\ UNCHANGED <<project, member, home, place, claims>>

DoInsertChannel(w) ==
    /\ place' = [place EXCEPT ![w.h] = w.p]
    /\ UNCHANGED <<project, member, home, wired, claims>>

\* What goes goes with all that refers to it.
DoDelete(w) ==
    LET checks   == IF w.do = "deleteCheck" THEN {w.c} ELSE ChecksIn(w.p)
        channels == IF w.do = "deleteCheck" THEN {} ELSE ChannelsIn(w.p)
    IN
    /\ home' = [c \in Checks |-> IF c \in checks THEN Gone ELSE home[c]]
    /\ place' = [h \in Hooks |-> IF h \in channels THEN Gone
                                        ELSE place[h]]
    /\ wired' = {x \in wired : x[1] \notin checks /\ x[2] \notin channels}
    /\ IF w.do = "deleteCheck" THEN UNCHANGED <<project, member>>
       ELSE /\ project' = [project EXCEPT ![w.p] = Gone]
            /\ member' = [i \in MemberIds |-> IF i \in Rows(w.p) THEN Gone
                                              ELSE member[i]]
    /\ UNCHANGED claims

Perform(q) ==
    /\ steps[q] # <<>>
    /\ LET w == Head(steps[q]) IN
       /\ Possible(w)
       /\ w.do = "insertMember" => NewMemberIds # {}
       /\ \/ w.do = "saveProject" /\ DoSaveProject(w)
          \/ w.do \in {"insertMember", "saveMember", "deleteMember",
                       "clearAsked"} /\ DoMembers(w)
          \/ w.do = "accept" /\ DoAccept(w)
          \/ w.do = "insertCheck" /\ DoInsertCheck(w)
          \/ w.do = "moveCheck" /\ DoMoveCheck(q, w)
          \/ w.do \in {"assign", "assignAll", "switch", "assignChecks"}
                /\ DoWire(w)
          \/ w.do = "insertChannel" /\ DoInsertChannel(w)
          \/ w.do \in {"deleteCheck", "deleteProject"} /\ DoDelete(w)
    /\ steps' = [steps EXCEPT ![q] = Tail(@)]
    /\ UNCHANGED <<keysMade, served>>

\* IntegrityError, or Check.NotUpdated.
Break(q) ==
    /\ steps[q] # <<>>
    /\ ~Possible(Head(steps[q]))
    /\ steps' = [steps EXCEPT ![q] = <<>>]
    /\ UNCHANGED <<rows, claims, keysMade, served>>

-----------------------------------------------------------------------------
(* The settings of a project.                                              *)

SavesProject(p, row) == [do |-> "saveProject", p |-> p, row |-> row]

AddProject(q, u, p) ==
    /\ ~Live(p) /\ founder[p] = {}
    /\ Starts(q, <<SavesProject(p, [owner |-> u, key |-> NoKey])>>)
    /\ founder' = [founder EXCEPT ![p] = {u}]
    /\ UNCHANGED <<rows, keysMade, asked, torn, raced, provisioned>>

CreateKey(q, u, p) ==
    /\ Rw(u, p)
    /\ keysMade < MaxKeys
    /\ keysMade' = keysMade + 1
    /\ Starts(q, <<SavesProject(p, [project[p] EXCEPT !.key = keysMade + 1])>>)
    /\ UNCHANGED <<rows, claims>>

RevokeKey(q, u, p) ==
    /\ Rw(u, p)
    /\ project[p].key # NoKey
    /\ Starts(q, <<SavesProject(p, [project[p] EXCEPT !.key = NoKey])>>)
    /\ UNCHANGED <<rows, claims, keysMade>>

\* set_project_name, and the views that save which kind of URL is shown: the
\* columns that change are not modelled, the others are saved with them.
ShowSlugs(q, u, p) ==
    /\ Rw(u, p)
    /\ Starts(q, <<SavesProject(p, project[p])>>)
    /\ UNCHANGED <<rows, claims, keysMade>>

\* Project.invite looks for a membership, and then creates one.
Invite(q, u, p, v, role) ==
    /\ Manages(u, p)
    /\ ~\E i \in Rows(p) : member[i].user = v
    /\ project[p].owner # v
    /\ Starts(q, <<[do |-> "insertMember", row |->
                      [user |-> v, project |-> p, role |-> role,
                       asked |-> FALSE]]>>)
    /\ UNCHANGED <<rows, claims, keysMade>>

DeletesMember(v, p) == [do |-> "deleteMember", user |-> v, p |-> p]

RemoveTeamMember(q, u, p, v) ==
    /\ Manages(u, p)
    /\ HasRole(v, p, Roles)
    /\ u # v
    /\ Starts(q, <<DeletesMember(v, p)>>)
    /\ UNCHANGED <<rows, claims, keysMade>>

LeaveProject(q, u, p) ==
    /\ HasRole(u, p, Roles)
    /\ Starts(q, <<DeletesMember(u, p)>>)
    /\ UNCHANGED <<rows, claims, keysMade>>

ClearsAsked(p) == [do |-> "clearAsked", p |-> p]

SavesMember(i, row) == [do |-> "saveMember", i |-> i, row |-> row]

TransferProject(q, u, p, i) ==
    /\ IsOwner(u, p)
    /\ i \in Rows(p)
    /\ Starts(q, <<ClearsAsked(p),
                   SavesMember(i, [member[i] EXCEPT !.asked = TRUE])>>)
    /\ UNCHANGED <<rows, claims, keysMade>>

CancelTransfer(q, u, p) ==
    /\ IsOwner(u, p)
    /\ Starts(q, <<ClearsAsked(p)>>)
    /\ UNCHANGED <<rows, claims, keysMade>>

TransferRequests(p) == {i \in Rows(p) : member[i].asked}

\* Mutant of TransferRequest: any member may answer for the one asked.
TransferRequestAny(u, p, i) ==
    i \in TransferRequests(p) /\ HasRole(u, p, Roles)

\* Project.transfer_request, for the user it was sent to.
TransferRequest(u, p, i) == i \in TransferRequests(p) /\ member[i].user = u

\* The membership becomes the one of the old owner.
AcceptTransfer(q, u, p, i) ==
    /\ TransferRequest(u, p, i)
    /\ Used(u) + Cardinality(ChecksIn(p)) <= CheckLimit
    /\ Starts(q, <<[do |-> "accept", i |-> i, p |-> p,
                    row |-> [member[i] EXCEPT !.user = project[p].owner,
                                              !.asked = FALSE,
                                              !.role = "regular"],
                    project |-> [project[p] EXCEPT !.owner = u],
                    used |-> Used(u), count |-> Cardinality(ChecksIn(p))]>>)
    /\ UNCHANGED <<rows, claims, keysMade>>

RejectTransfer(q, u, p, i) ==
    /\ TransferRequest(u, p, i)
    /\ Starts(q, <<SavesMember(i, [member[i] EXCEPT !.asked = FALSE])>>)
    /\ UNCHANGED <<rows, claims, keysMade>>

DeletesCheck(c) == [do |-> "deleteCheck", c |-> c]

RemoveProject(q, u, p) ==
    /\ IsOwner(u, p)
    /\ Starts(q, [n \in 1 .. Cardinality(ChecksIn(p)) |->
                      DeletesCheck(SetToSeq(ChecksIn(p))[n])]
                 \o <<[do |-> "deleteProject", p |-> p]>>)
    /\ UNCHANGED <<rows, claims, keysMade>>

-----------------------------------------------------------------------------
(* Checks and channels.                                                    *)

\* The limit is looked at before the check is inserted.
InsertsCheck(c, p, limit) ==
    [do |-> "insertCheck", c |-> c, p |-> p, limit |-> limit,
     used |-> Used(project[p].owner), owner |-> project[p].owner]

AssignsAll(c, p) == [do |-> "assignAll", c |-> c, p |-> p]

Assigns(c, channels, add) ==
    [do |-> "assign", c |-> c, channels |-> channels, add |-> add]

AddCheck(q, u, p, c) ==
    /\ Rw(u, p)
    /\ Available(project[p].owner)
    /\ c \in NewCheckIds
    /\ Starts(q, <<InsertsCheck(c, p, CheckLimit), AssignsAll(c, p)>>)
    /\ UNCHANGED <<rows, claims, keysMade>>

CopyCheck(q, u, p, from, c) ==
    /\ from \in ChecksIn(p)
    /\ Rw(u, p)
    /\ Available(project[p].owner)
    /\ c \in NewCheckIds
    /\ Starts(q, <<InsertsCheck(c, p, CheckLimit),
                   Assigns(c, {h \in Hooks : <<from, h>> \in wired}, TRUE)>>)
    /\ torn' = IF from \in torn \/ Assigning(from) # {}
               THEN torn \union {c} ELSE torn
    /\ UNCHANGED <<rows, keysMade, asked, founder, raced, provisioned>>

\* A client of the API has the key; `channels` of its Spec may be absent,
\* "*", or name channels of the project (_update).
ApiKey(p) == Live(p) /\ project[p].key # NoKey

SpecChannels(c, p) ==
    {<<>>, <<AssignsAll(c, p)>>}
        \union {<<Assigns(c, s, FALSE)>> : s \in SUBSET ChannelsIn(p)}

CreateCheck(q, p, c) ==
    /\ ApiKey(p)
    /\ Available(project[p].owner)
    /\ c \in NewCheckIds
    /\ \E more \in SpecChannels(c, p) :
          Starts(q, <<InsertsCheck(c, p, CheckLimit)>> \o more)
    /\ UNCHANGED <<rows, claims, keysMade>>

UpdateCheck(q, p, c) ==
    /\ ApiKey(p)
    /\ c \in ChecksIn(p)
    /\ \E more \in SpecChannels(c, p) \ {<<>>} : Starts(q, more)
    /\ UNCHANGED <<rows, claims, keysMade>>

\* ping_by_slug with create=1: up to twice the limit.
PingBySlug(q, p, c) ==
    /\ ApiKey(p)
    /\ Used(project[p].owner) < 2 * CheckLimit
    /\ c \in NewCheckIds
    /\ Starts(q, <<InsertsCheck(c, p, 2 * CheckLimit), AssignsAll(c, p)>>)
    /\ UNCHANGED <<rows, claims, keysMade>>

RemoveCheck(q, u, p, c) ==
    /\ c \in ChecksIn(p)
    /\ Rw(u, p)
    /\ Starts(q, <<DeletesCheck(c)>>)
    /\ UNCHANGED <<rows, claims, keysMade>>

\* Mutant of TransferCheck: the channels stay.
TransferCheckOnly(q, u, c, p, to) ==
    /\ c \in ChecksIn(p)
    /\ Rw(u, p) /\ Rw(u, to)
    /\ \/ project[p].owner = project[to].owner
       \/ Available(project[to].owner)
    /\ Starts(q, <<[do |-> "moveCheck", c |-> c, p |-> to,
                    owner |-> project[to].owner, from |-> project[p].owner,
                    used |-> Used(project[to].owner)]>>)
    /\ UNCHANGED <<rows, claims, keysMade>>

\* transfer: to a project of another owner only when it has room.
TransferCheck(q, u, c, p, to) ==
    /\ c \in ChecksIn(p)
    /\ Rw(u, p) /\ Rw(u, to)
    /\ \/ project[p].owner = project[to].owner
       \/ Available(project[to].owner)
    /\ Starts(q, <<[do |-> "moveCheck", c |-> c, p |-> to,
                    owner |-> project[to].owner, from |-> project[p].owner,
                    used |-> Used(project[to].owner)],
                   AssignsAll(c, to)>>)
    /\ UNCHANGED <<rows, claims, keysMade>>

\* switch_channel: both are of one project.
SwitchAssigned(q, u, c, h, on) ==
    /\ home[c] # Gone
    /\ Rw(u, home[c])
    /\ place[h] = home[c]
    /\ Starts(q, <<[do |-> "switch", c |-> c, h |-> h, on |-> on]>>)
    /\ UNCHANGED <<rows, claims, keysMade>>

AssignsChecks(h, p, checks, add) ==
    [do |-> "assignChecks", h |-> h, p |-> p, checks |-> checks, add |-> add]

\* channels: the checks ticked in the form, all of the project.
SetChecks(q, u, p, h) ==
    /\ Rw(u, p)
    /\ h \in ChannelsIn(p)
    /\ \E s \in SUBSET ChecksIn(p) :
          Starts(q, <<AssignsChecks(h, p, s, FALSE)>>)
    /\ UNCHANGED <<rows, claims, keysMade>>

\* The add view of a kind of channel, and assign_all_checks.
AddIntegration(q, u, p, h) ==
    /\ Rw(u, p)
    /\ h \in NewChannelIds
    /\ Starts(q, <<[do |-> "insertChannel", h |-> h, p |-> p],
                   AssignsChecks(h, p, {}, TRUE)>>)
    /\ UNCHANGED <<rows, claims, keysMade>>

-----------------------------------------------------------------------------

ProjectView(q, u, p) ==
    \/ AddProject(q, u, p)
    \/ CreateKey(q, u, p)
    \/ RevokeKey(q, u, p)
    \/ ShowSlugs(q, u, p)
    \/ \E v \in People : \/ \E role \in Roles : Invite(q, u, p, v, role)
                         \/ RemoveTeamMember(q, u, p, v)
    \/ LeaveProject(q, u, p)
    \/ CancelTransfer(q, u, p)
    \/ \E i \in MemberIds : \/ TransferProject(q, u, p, i)
                            \/ AcceptTransfer(q, u, p, i)
                            \/ RejectTransfer(q, u, p, i)
    \/ RemoveProject(q, u, p)

CheckView(q, u, p, c) ==
    \/ AddCheck(q, u, p, c)
    \/ RemoveCheck(q, u, p, c)
    \/ \E from \in Checks : CopyCheck(q, u, p, from, c)
    \/ \E to \in ProjectIds \ {p} : TransferCheck(q, u, c, p, to)

ChannelView(q, u, h) ==
    \/ \E c \in Checks, on \in BOOLEAN : SwitchAssigned(q, u, c, h, on)
    \/ \E p \in ProjectIds : SetChecks(q, u, p, h) \/ AddIntegration(q, u, p, h)

ApiView(q, p, c) ==
    CreateCheck(q, p, c) \/ UpdateCheck(q, p, c) \/ PingBySlug(q, p, c)

ProjectsNext ==
    \E q \in Slots :
        \/ Perform(q)
        \/ Break(q)
        \/ /\ served < MaxBegun
           /\ served' = served + 1
           /\ \/ \E u \in People, p \in ProjectIds :
                    \/ ProjectView(q, u, p)
                    \/ \E c \in Checks : CheckView(q, u, p, c)
              \/ \E u \in People, h \in Hooks : ChannelView(q, u, h)
              \/ \E p \in ProjectIds, c \in Checks : ApiView(q, p, c)

ProjectsSpec == ProjectsInit /\ [][ProjectsNext]_projectsVars

-----------------------------------------------------------------------------
(* What projects promise.                                                  *)

\* A project belongs to the user who created it, or to one its owner asked
\* to take it over, whatever old copies of it are saved, and whichever
\* request for a transfer is cancelled, repeated or answered late
\* (transfer_project, accept_transfer).
OwnerWasAsked ==
    \A p \in ProjectIds : Live(p) => project[p].owner \in founder[p] \union asked[p]

\* A channel is assigned to checks of its own project only, except while a
\* request is about to reassign all channels of the check it has moved, and
\* unless the check was moved or copied under a request that was assigning
\* channels to it (transfer, copy, switch_channel, channels, _update).
ChannelsOfOneProject ==
    \A x \in wired : \/ home[x[1]] = place[x[2]]
                     \/ x[1] \in torn
                     \/ Assigning(x[1]) # {}

\* An account has no more checks than its limit, and twice that when pings
\* create them, unless the number changed between the look at it and the
\* statement that adds a check (num_checks_available, can_accept).
LimitKept ==
    \A u \in People \ raced :
        Used(u) <= IF u \in provisioned THEN 2 * CheckLimit ELSE CheckLimit
=============================================================================
