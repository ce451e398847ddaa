----------------------------- MODULE Inactivity ------------------------------
(***************************************************************************)
(* What happens to an account that nobody uses: sendinactivitynotices and  *)
(* pruneusers, next to logins, visits with a session of two weeks,         *)
(* pings, teams, and saves of the whole profile that was read before.      *)
(*                                                                         *)
(* One account, which has no subscription.  Dates are days, 0 stands for   *)
(* None, and the clock jumps.                                              *)
(***************************************************************************)
EXTENDS Integers

CONSTANT
    MaxPassed       \* bound: jumps of the clock

ASSUME InactivityAssumption == MaxPassed \in Nat

Month == 30
Year == 365
SessionAge == 14

VARIABLES
    date,
    passed,         \* jumps so far
    exists,         \* the account has rows
    login,          \* last_login of the user, who joined at 1
    profile,        \* last_active_date and deletion_notice_date
    teams,          \* the user is a member of somebody else's project
    others,         \* date of the last ping, or activity of a member, of its projects
    stale,          \* a profile that a request or another command has read
    notices,        \* sendinactivitynotices
    pruning,        \* pruneusers
    used,           \* date of the last login or visit, which begins or extends a session
    noticed,        \* history: the notices, with the last use before the command
                    \* began, whether a save had overwritten that visit, and
                    \* whether the account was used before the notice was sent
    ended           \* history: how pruneusers removed the account

inactivityVars ==
    <<date, passed, exists, login, profile, teams, others, stale, notices,
      pruning, used, noticed, ended>>

commandVars == <<notices, pruning, ended>>
userVars == <<login, teams, others, used>>

NoCopyRead == [at |-> "none"]
NotRunning == [at |-> "none"]
NotEnded == [how |-> "not"]

InactivityInit ==
    /\ date = 1 /\ passed = 0
    /\ exists = TRUE
    /\ login = 0 /\ used = 0
    /\ profile = [active |-> 0, notice |-> 0]
    /\ teams \in BOOLEAN
    /\ others = 0
    /\ stale = NoCopyRead
    /\ notices = NotRunning /\ pruning = NotRunning
    /\ noticed = {}
    /\ ended = NotEnded

YearAgo == date - Year
MonthAgo == date - Month

\* No setting changes how long a session lasts.
SignedIn == used # 0 /\ date <= used + SessionAge

-----------------------------------------------------------------------------
(* Those who use the account.                                              *)

LogInToAccount ==
    /\ exists
    /\ login' = date /\ used' = date
    /\ UNCHANGED <<date, passed, exists, profile, teams, others, stale, noticed,
                   commandVars>>

\* _refresh_last_active_date, which extends the session, too.
Visit ==
    /\ exists /\ SignedIn
    /\ profile.active < date
    /\ profile' = [profile EXCEPT !.active = date]
    /\ used' = date
    /\ UNCHANGED <<date, passed, exists, login, teams, others, stale, noticed,
                   commandVars>>

\* A ping, a login or visit of a member; an invitation that is accepted.
OthersAct ==
    /\ exists
    /\ \/ others' = date /\ UNCHANGED teams
       \/ ~teams /\ teams' = TRUE /\ UNCHANGED others
    /\ UNCHANGED <<date, passed, exists, profile, login, stale, used,
                   noticed, commandVars>>

\* Anything that reads a profile and saves the whole row later.
CopyProfile ==
    /\ exists
    /\ stale = NoCopyRead
    /\ stale' = [at |-> "read", row |-> profile]
    /\ UNCHANGED <<date, passed, exists, profile, noticed, userVars, commandVars>>

SaveCopy ==
    /\ stale # NoCopyRead
    /\ profile' = stale.row
    /\ stale' = NoCopyRead
    /\ UNCHANGED <<date, passed, exists, noticed, userVars, commandVars>>

-----------------------------------------------------------------------------
(* sendinactivitynotices.                                                  *)

\* Mutant of Inactive: a visit without a login does not count.
InactiveLogin == login <= YearAgo /\ 1 <= YearAgo /\ profile.notice <= YearAgo

\* The query of the command; the date of joining is 1.
Inactive ==
    /\ login <= YearAgo /\ 1 <= YearAgo
    /\ profile.notice <= YearAgo
    /\ profile.active <= YearAgo

\* All rows are read at the beginning, and then handled one by one, with a
\* second of sleep after each.
ChooseInactive ==
    /\ exists
    /\ notices = NotRunning
    /\ Inactive
    /\ notices' = [at |-> "chosen", row |-> profile, used |-> used, began |-> date,
                   lost |-> used > login /\ used > profile.active]
    /\ UNCHANGED <<date, passed, exists, profile, stale, noticed, userVars, pruning,
                   ended>>

\* Teams and pings are looked up when it is this row's turn.  The clock goes
\* on, so that no later login has the date of the notice.
SendNotice ==
    /\ notices.at = "chosen"
    /\ IF others > notices.began - Year
       THEN UNCHANGED <<profile, noticed>>
       ELSE /\ profile' = [notices.row EXCEPT !.notice = date]
            /\ noticed' = noticed \union
                   {[sent |-> date, began |-> notices.began, before |-> notices.used,
                     lost |-> notices.lost, late |-> used # notices.used]}
    /\ notices' = NotRunning
    /\ passed < MaxPassed
    /\ passed' = passed + 1 /\ date' = date + 1
    /\ UNCHANGED <<exists, stale, userVars, pruning, ended>>

-----------------------------------------------------------------------------
(* pruneusers.                                                             *)

NeverUsed == 1 < MonthAgo /\ login = 0 /\ ~teams
Deserted == profile.notice # 0 /\ profile.notice < MonthAgo /\ ~(login > profile.notice)

\* The two queries.
ChooseUsers ==
    /\ exists
    /\ pruning = NotRunning
    /\ \E how \in {"never", "notice"} :
          /\ IF how = "never" THEN NeverUsed ELSE Deserted
          /\ pruning' = [at |-> "chosen", how |-> how, login |-> login, used |-> used,
                          notice |-> profile.notice, began |-> date]
    /\ UNCHANGED <<date, passed, exists, profile, stale, noticed, userVars, notices, ended>>

\* Deleted, with all that it has.
DeleteUser ==
    /\ pruning.at = "chosen"
    /\ exists' = FALSE
    /\ ended' = pruning
    /\ pruning' = NotRunning
    /\ stale' = NoCopyRead /\ notices' = NotRunning
    /\ UNCHANGED <<date, passed, profile, login, teams, others, used, noticed>>

Passes(d) ==
    /\ passed < MaxPassed
    /\ passed' = passed + 1
    /\ date' = date + d
    /\ UNCHANGED <<exists, login, teams, others, stale, noticed, commandVars>>

\* A day: as long as a request or a command takes.
PassDay == Passes(1) /\ UNCHANGED <<profile, used>>

NothingRuns == stale = NoCopyRead /\ notices.at = "none" /\ pruning.at = "none"

\* The account is not visited for longer than a session lasts.
PassUnused(d) ==
    /\ NothingRuns
    /\ Passes(d)
    /\ UNCHANGED <<profile, used>>

\* Somebody keeps visiting, and so the session does not end.
PassInUse(d) ==
    /\ NothingRuns
    /\ exists /\ SignedIn
    /\ Passes(d)
    /\ profile' = [profile EXCEPT !.active = date'] /\ used' = date'

InactivityNext ==
    \/ LogInToAccount \/ Visit \/ OthersAct
    \/ CopyProfile \/ SaveCopy
    \/ ChooseInactive \/ SendNotice
    \/ ChooseUsers \/ DeleteUser
    \/ PassDay
    \/ \E d \in {Month + 1, Year + 1} : PassUnused(d) \/ PassInUse(d)

InactivitySpec == InactivityInit /\ [][InactivityNext]_inactivityVars

-----------------------------------------------------------------------------

\* What pruneusers removes was not in use.  An account with a login has been
\* sent a notice a month before and has not been logged into since; when the
\* command that sent the notice looked, nobody had logged in or visited the
\* site for a year, nor did anybody visit it since.  There are two exceptions,
\* and an account that is in use is removed with them: a login while the
\* command worked its way to the account is not seen, nor are the visits with
\* the session of that login; and a save of a whole profile may have
\* overwritten the date of the last visit.  An account without a notice was a
\* month old and had no login (sendinactivitynotices, pruneusers).
PrunedWereIdle ==
    /\ ended.how = "never" => ended.login = 0 /\ ended.began > 1 + Month
    /\ ended.how = "notice" =>
          \E n \in noticed :
              /\ n.sent = ended.notice
              /\ n.sent < ended.began - Month
              /\ ended.login <= n.sent
              /\ n.lost \/ n.before <= n.began - Year
              /\ n.late \/ n.lost \/ ended.used = n.before
=============================================================================
