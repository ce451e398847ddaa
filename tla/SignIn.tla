------------------------------- MODULE SignIn -------------------------------
(***************************************************************************)
(* Accounts: signing up and in, with a password, a link that is mailed or  *)
(* a second factor; sudo mode, and what can be changed in it.              *)
(*                                                                         *)
(* A request reads the rows it needs when it starts (the middleware reads  *)
(* the user together with the profile) and then writes one row after the   *)
(* other: `todo` holds the writes that are left.  user.save() and          *)
(* profile.save() write every column of the copy.  A browser has one       *)
(* request at a time.  Times are left out: a link, a code or sudo mode may *)
(* be too old whenever it is looked at.                                    *)
(***************************************************************************)
EXTENDS Naturals, Sequences

CONSTANTS
    Users,          \* ids of accounts
    FirstUsers,     \* accounts that exist at first
    Browsers,
    Addresses,
    Passwords,
    Nothing,        \* no row, no value
    MaxLinks,       \* bound: links mailed
    MaxRequests     \* bound: requests begun

ASSUME SignInAssumption ==
    /\ FirstUsers \subseteq Users
    /\ MaxLinks \in Nat /\ MaxRequests \in Nat
    /\ Nothing \notin Users \union Addresses \union Passwords \union Nat

VARIABLES
    account,        \* rows of the table of users
    profile,        \* their profiles: the login token, and the TOTP secret
    unusedIds,      \* ids no account has had yet
    keys,           \* users with a security key
    session,        \* the session of each browser
    todo,           \* the writes left of the request of each browser
    links,          \* the links in the mail
    issued,         \* tokens made so far
    begun,          \* requests begun so far
    stored,         \* history: tokens that have been in a profile
    dead,           \* history: tokens used, or replaced, or before a password
    restored,       \* history: tokens that a save of an old copy put back
    enabled,        \* history: users who turned TOTP on, and not off
    forgone,           \* history: users whose TOTP went with such a save
    bypassed,       \* history: users signed in without their second factor
    provenBy        \* history: addresses that a link was followed from

signInVars ==
    <<account, profile, unusedIds, keys, session, todo, links, issued,
      begun, stored, dead, restored, enabled, forgone, bypassed, provenBy>>

tables == <<account, profile, unusedIds, keys, links, issued>>
history == <<stored, dead, restored, enabled, forgone, bypassed, provenBy>>

NoSession == [user |-> Nothing, password |-> Nothing, pending |-> Nothing,
              sudo |-> "off"]

SignInInit ==
    /\ account \in [Users -> {Nothing}
                       \union [email : Addresses, password : Passwords]]
    /\ \A u \in Users : account[u] # Nothing <=> u \in FirstUsers
    /\ \A u, v \in FirstUsers : account[u].email = account[v].email => u = v
    /\ profile = [u \in Users |-> [token |-> Nothing, totp |-> FALSE]]
    /\ unusedIds = Users \ FirstUsers
    /\ keys = {}
    /\ session = [b \in Browsers |-> NoSession]
    /\ todo = [b \in Browsers |-> <<>>]
    /\ links = {}
    /\ issued = 0
    /\ begun = 0
    /\ stored = [u \in Users |-> {}]
    /\ dead = {} /\ restored = {} /\ enabled = {} /\ forgone = {} /\ bypassed = {}
    /\ provenBy = [u \in Users |->
                     IF account[u] = Nothing THEN {} ELSE {account[u].email}]

Registered(u) == account[u] # Nothing

\* User.objects.get(email=...), which raises when there are two.
HasEmail(u, email) ==
    \A v \in Users : (Registered(v) /\ account[v].email = email) <=> u = v

Taken(email) == \E u \in Users : Registered(u) /\ account[u].email = email

\* AuthenticationMiddleware: the account exists and has the password the
\* session was made with.
Authenticated(b) ==
    LET s == session[b] IN
    s.user # Nothing /\ Registered(s.user)
        /\ s.password = account[s.user].password

AtRest(b) == todo[b] = <<>>

Begin(b, writes) == todo' = [todo EXCEPT ![b] = writes]

-----------------------------------------------------------------------------
(* Writes.                                                                 *)

SaveUser(u, row) == [op |-> "user", user |-> u, row |-> row]

\* `why` is what the save is for; the rest of the row is a copy.
SaveProfile(u, why, row) ==
    [op |-> "profile", user |-> u, why |-> why, row |-> row]

Mail(u, token, email) ==
    [op |-> "mail", link |-> [user |-> u, token |-> token, email |-> email]]

\* Profile.prepare_token, and the mail with the link.
SendLink(u, copy, email) ==
    <<SaveProfile(u, "link", [copy EXCEPT !.token = issued + 1]),
      Mail(u, issued + 1, email)>>

Factors(u) == {f \in {"key", "totp"} : u \in IF f = "key" THEN keys ELSE enabled}

\* The factors the account has by now are for the history.
Check2FA(u, totp) ==
    [op |-> "signIn", user |-> u, totp |-> totp, factors |-> Factors(u)]

ExecUser(b, w) ==
    /\ account' = [account EXCEPT ![w.user] = w.row]
    /\ UNCHANGED <<profile, unusedIds, keys, session, links, issued, history>>

\* A profile of a user who is gone cannot be saved: the request ends.
ExecProfile(b, w) ==
    /\ Registered(w.user)
    /\ profile' = [profile EXCEPT ![w.user] = w.row]
    /\ LET u   == w.user
           was == profile[u]
       IN
       /\ stored' = [stored EXCEPT ![u] = @ \union ({w.row.token} \ {Nothing})]
       /\ dead' = IF w.why \in {"link", "used", "password"}
                  THEN dead \union stored[u] ELSE dead
       /\ restored' = IF w.why = "link" \/ w.row.token = was.token
                      THEN restored ELSE restored \union {w.row.token}
       /\ enabled' = CASE w.why = "add"    -> enabled \union {u}
                       [] w.why = "remove" -> enabled \ {u}
                       [] OTHER            -> enabled
       /\ forgone' = IF w.why # "remove" /\ was.totp /\ ~w.row.totp
                  THEN forgone \union {u} ELSE forgone
    /\ UNCHANGED <<account, unusedIds, keys, session, links, issued, bypassed, provenBy>>

ExecMail(b, w) ==
    /\ links' = links \union {w.link}
    /\ UNCHANGED <<account, profile, unusedIds, keys, session, issued, history>>

\* _make_user, with its profile; its project is not modelled here.
ExecInsert(b, w) ==
    /\ account' = [account EXCEPT ![w.user] =
                     [email |-> w.email, password |-> Nothing]]
    /\ provenBy' = [provenBy EXCEPT ![w.user] = @ \union {w.email}]
    /\ UNCHANGED <<profile, unusedIds, keys, session, links, issued, stored, dead,
                   restored, enabled, forgone, bypassed>>

\* auth_login: the session takes the password of the account.
SignedIn(b, u) ==
    session' = [session EXCEPT ![b] = [NoSession EXCEPT
                  !.user = u, !.password = account[u].password]]

\* Mutant of ExecSignIn: only security keys count as a second factor.
ExecSignInKeys(b, w) ==
    /\ Registered(w.user)
    /\ IF w.user \in keys
       THEN /\ session' = [session EXCEPT ![b].pending =
                             [user |-> w.user, email |-> account[w.user].email]]
            /\ UNCHANGED bypassed
       ELSE /\ SignedIn(b, w.user)
            /\ bypassed' = IF w.factors \intersect Factors(w.user) # {}
                           THEN bypassed \union {w.user} ELSE bypassed
    /\ UNCHANGED <<tables, stored, dead, restored, enabled, forgone, provenBy>>

\* _check_2fa: security keys are looked up, the profile is the copy.
ExecSignIn(b, w) ==
    /\ Registered(w.user)
    /\ IF w.user \in keys \/ w.totp
       THEN /\ session' = [session EXCEPT ![b].pending =
                             [user |-> w.user, email |-> account[w.user].email]]
            /\ UNCHANGED bypassed
       ELSE /\ SignedIn(b, w.user)
            /\ bypassed' = IF w.factors \intersect Factors(w.user) # {}
                           THEN bypassed \union {w.user} ELSE bypassed
    /\ UNCHANGED <<tables, stored, dead, restored, enabled, forgone, provenBy>>

\* update_session_auth_hash.
ExecHash(b, w) ==
    /\ session' = [session EXCEPT ![b].password = w.password]
    /\ UNCHANGED <<tables, history>>

Exec(b) ==
    /\ ~AtRest(b)
    /\ LET w == Head(todo[b]) IN
       \/ w.op = "user"    /\ ExecUser(b, w)
       \/ w.op = "profile" /\ ExecProfile(b, w)
       \/ w.op = "mail"    /\ ExecMail(b, w)
       \/ w.op = "insert"  /\ ExecInsert(b, w)
       \/ w.op = "signIn"  /\ ExecSignIn(b, w)
       \/ w.op = "hash"    /\ ExecHash(b, w)
    /\ todo' = [todo EXCEPT ![b] = Tail(@)]

\* An exception: the profile, or the user, is gone.
Fail(b) ==
    /\ ~AtRest(b)
    /\ Head(todo[b]).op \in {"profile", "signIn"}
    /\ ~Registered(Head(todo[b]).user)
    /\ Begin(b, <<>>)
    /\ UNCHANGED <<tables, session, history>>

-----------------------------------------------------------------------------
(* Signing in.                                                             *)

\* login with a password: EmailBackend.authenticate, then _check_2fa.
PasswordLogin(b, u) ==
    /\ AtRest(b)
    /\ Registered(u)
    /\ HasEmail(u, account[u].email)
    /\ account[u].password # Nothing
    /\ Begin(b, <<Check2FA(u, profile[u].totp)>>)
    /\ UNCHANGED <<tables, session, history>>

\* login with an address: a link is mailed to it.
EmailLogin(b, u) ==
    /\ AtRest(b)
    /\ issued < MaxLinks
    /\ Registered(u)
    /\ HasEmail(u, account[u].email)
    /\ Begin(b, SendLink(u, profile[u], Nothing))
    /\ issued' = issued + 1
    /\ UNCHANGED <<account, profile, unusedIds, keys, links, session, history>>

\* signup with an address nobody has; with another it is EmailLogin.
SignUp(b, u, email) ==
    /\ AtRest(b)
    /\ ~Authenticated(b)
    /\ issued < MaxLinks
    /\ ~Taken(email)
    /\ u \in unusedIds
    /\ unusedIds' = unusedIds \ {u}
    /\ Begin(b, <<[op |-> "insert", user |-> u, email |-> email]>>
                  \o SendLink(u, profile[u], Nothing))
    /\ issued' = issued + 1
    /\ UNCHANGED <<account, profile, keys, links, session, history>>

\* Mutant of CheckToken: the token stays in the profile.
CheckTokenAgain(b, link) ==
    /\ AtRest(b)
    /\ Registered(link.user)
    /\ profile[link.user].token = link.token
    /\ link.email # Nothing => ~Taken(link.email)
    /\ LET u == link.user IN
       Begin(b,
         (IF link.email = Nothing THEN <<>>
          ELSE <<SaveUser(u, [account[u] EXCEPT !.email = link.email])>>)
         \o <<SaveProfile(u, "used", profile[u]),
              Check2FA(u, profile[u].totp)>>)
    /\ provenBy' = [provenBy EXCEPT ![link.user] = @ \union ({link.email} \ {Nothing})]
    /\ session' = [session EXCEPT ![b] = NoSession]
    /\ UNCHANGED <<tables, stored, dead, restored, enabled, forgone, bypassed>>

\* check_token, and change_email_verify: a link works while its token is the
\* one in the profile, and a new address while nobody has it.
CheckToken(b, link) ==
    /\ AtRest(b)
    /\ Registered(link.user)
    /\ profile[link.user].token = link.token
    /\ link.email # Nothing => ~Taken(link.email)
    /\ LET u == link.user IN
       Begin(b,
         (IF link.email = Nothing THEN <<>>
          ELSE <<SaveUser(u, [account[u] EXCEPT !.email = link.email])>>)
         \o <<SaveProfile(u, "used", [profile[u] EXCEPT !.token = Nothing]),
              Check2FA(u, profile[u].totp)>>)
    /\ provenBy' = [provenBy EXCEPT ![link.user] = @ \union ({link.email} \ {Nothing})]
    /\ session' = [session EXCEPT ![b] = NoSession]
    /\ UNCHANGED <<tables, stored, dead, restored, enabled, forgone, bypassed>>

SecondStep(b) ==
    /\ AtRest(b)
    /\ ~Authenticated(b)
    /\ session[b].pending # Nothing
    /\ LET p == session[b].pending IN
       Registered(p.user) /\ account[p.user].email = p.email

\* login_totp and login_webauthn: the address must not have changed.
LoginTotp(b) ==
    /\ SecondStep(b)
    /\ profile[session[b].pending.user].totp
    /\ SignedIn(b, session[b].pending.user)
    /\ UNCHANGED <<tables, todo, history>>

LoginWebauthn(b) ==
    /\ SecondStep(b)
    /\ session[b].pending.user \in keys
    /\ SignedIn(b, session[b].pending.user)
    /\ UNCHANGED <<tables, todo, history>>

Logout(b) ==
    /\ AtRest(b)
    /\ Authenticated(b)
    /\ session' = [session EXCEPT ![b] = NoSession]
    /\ UNCHANGED <<tables, todo, history>>

-----------------------------------------------------------------------------
(* What a user may change.                                                 *)

\* require_sudo_mode: a code is mailed, and entered.
RequireSudo(b) ==
    /\ AtRest(b)
    /\ Authenticated(b)
    /\ session[b].sudo = "off"
    /\ session' = [session EXCEPT ![b].sudo = "active"]
    /\ UNCHANGED <<tables, todo, history>>

SudoExpires(b) ==
    /\ session[b].sudo = "active"
    /\ session' = [session EXCEPT ![b].sudo = "off"]
    /\ UNCHANGED <<tables, todo, history>>

InSudo(b) == AtRest(b) /\ Authenticated(b) /\ session[b].sudo = "active"

Me(b) == session[b].user

SetPassword(b, password) ==
    /\ InSudo(b)
    /\ password # account[Me(b)].password
    /\ Begin(b, <<SaveUser(Me(b), [account[Me(b)] EXCEPT !.password = password]),
                  SaveProfile(Me(b), "password",
                              [profile[Me(b)] EXCEPT !.token = Nothing]),
                  [op |-> "hash", password |-> password]>>)
    /\ UNCHANGED <<tables, session, history>>

\* Mutant of ChangeEmail: the address is changed, and verified afterwards.
ChangeEmailFirst(b, email) ==
    /\ InSudo(b)
    /\ issued < MaxLinks
    /\ ~Taken(email)
    /\ Begin(b, <<SaveUser(Me(b), [account[Me(b)] EXCEPT !.email = email])>>
                  \o SendLink(Me(b), profile[Me(b)], Nothing))
    /\ issued' = issued + 1
    /\ UNCHANGED <<account, profile, unusedIds, keys, links, session, history>>

\* change_email: the link goes to the new address.
ChangeEmail(b, email) ==
    /\ InSudo(b)
    /\ issued < MaxLinks
    /\ ~Taken(email)
    /\ Begin(b, SendLink(Me(b), profile[Me(b)], email))
    /\ issued' = issued + 1
    /\ UNCHANGED <<account, profile, unusedIds, keys, links, session, history>>

AddTotp(b) ==
    /\ InSudo(b)
    /\ ~profile[Me(b)].totp
    /\ Begin(b, <<SaveProfile(Me(b), "add", [profile[Me(b)] EXCEPT !.totp = TRUE])>>)
    /\ UNCHANGED <<tables, session, history>>

RemoveTotp(b) ==
    /\ InSudo(b)
    /\ profile[Me(b)].totp
    /\ Begin(b, <<SaveProfile(Me(b), "remove", [profile[Me(b)] EXCEPT !.totp = FALSE])>>)
    /\ UNCHANGED <<tables, session, history>>

AddWebauthn(b) ==
    /\ InSudo(b)
    /\ Me(b) \notin keys
    /\ keys' = keys \union {Me(b)}
    /\ UNCHANGED <<account, profile, unusedIds, links, issued, session, todo, history>>

RemoveCredential(b) ==
    /\ InSudo(b)
    /\ Me(b) \in keys
    /\ keys' = keys \ {Me(b)}
    /\ UNCHANGED <<account, profile, unusedIds, links, issued, session, todo, history>>

\* close: the user, and all that belongs to it.
Close(b) ==
    /\ InSudo(b)
    /\ account' = [account EXCEPT ![Me(b)] = Nothing]
    /\ profile' = [profile EXCEPT ![Me(b)] = [token |-> Nothing, totp |-> FALSE]]
    /\ keys' = keys \ {Me(b)}
    /\ enabled' = enabled \ {Me(b)}
    /\ session' = [session EXCEPT ![b] = NoSession]
    /\ UNCHANGED <<unusedIds, links, issued, todo, stored, dead, restored, forgone, bypassed,
                   provenBy>>

\* appearance and tz: one column changes, all are saved.
Appearance(b) ==
    /\ AtRest(b)
    /\ Authenticated(b)
    /\ Begin(b, <<SaveProfile(Me(b), "settings", profile[Me(b)])>>)
    /\ UNCHANGED <<tables, session, history>>

\* unsubscribe_reports needs no session, only a link.
UnsubscribeReports(b, u) ==
    /\ AtRest(b)
    /\ Registered(u)
    /\ Begin(b, <<SaveProfile(u, "settings", profile[u])>>)
    /\ UNCHANGED <<tables, session, history>>

\* A request that begins, and does all it does or leaves writes to do.
PageRequest(b) ==
    \/ \E u \in Users : \/ PasswordLogin(b, u)
                        \/ EmailLogin(b, u)
                        \/ UnsubscribeReports(b, u)
                        \/ \E email \in Addresses : SignUp(b, u, email)
    \/ \E link \in links : CheckToken(b, link)
    \/ LoginTotp(b)
    \/ LoginWebauthn(b)
    \/ Logout(b)
    \/ RequireSudo(b)
    \/ \E password \in Passwords : SetPassword(b, password)
    \/ \E email \in Addresses : ChangeEmail(b, email)
    \/ AddTotp(b)
    \/ RemoveTotp(b)
    \/ AddWebauthn(b)
    \/ RemoveCredential(b)
    \/ Close(b)
    \/ Appearance(b)

SignInNext ==
    \E b \in Browsers :
        \/ Exec(b) /\ UNCHANGED begun
        \/ Fail(b) /\ UNCHANGED begun
        \/ SudoExpires(b) /\ UNCHANGED begun
        \/ PageRequest(b) /\ begun < MaxRequests /\ begun' = begun + 1

SignInSpec == SignInInit /\ [][SignInNext]_signInVars

-----------------------------------------------------------------------------
(* What signing in promises.                                               *)

\* A link signs nobody in once it has been used, once a newer one has been
\* sent, and once the password has been changed, whatever other requests are
\* under way, unless one of them saves a profile it read before (check_token,
\* prepare_token, set_password).
DeadLinksStayDead ==
    \A u \in Users : profile[u].token \in dead => profile[u].token \in restored

\* Nobody is signed in without a second factor to an account that had it all
\* along, unless a save of an old profile took it away (_check_2fa).
SecondFactorAsked == bypassed \subseteq forgone

\* The address of an account is the one it signed up with, or one a link was
\* followed from, also when an old row of it is saved (change_email,
\* check_token, set_password).
EmailProven ==
    \A u \in Users : Registered(u) => account[u].email \in provenBy[u]
=============================================================================
