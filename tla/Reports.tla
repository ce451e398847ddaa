------------------------------- MODULE Reports --------------------------------
(***************************************************************************)
(* Email reports and nags (reminders that checks are down): the table      *)
(* accounts_profile, and what writes it.                                   *)
(*                                                                         *)
(* sendreports processes look for profiles whose next_report_date or       *)
(* next_nag_date has come, move the date with an UPDATE that names the old *)
(* one, and send.  Project.update_next_nag_dates, which sendalerts and     *)
(* requests call when a check has changed its status, sets and clears      *)
(* next_nag_date.  Requests change the settings, and save every column of  *)
(* the profile as they have read it.  The checks themselves are those of   *)
(* module Checks; here a check is only up, down, or late, which is an up   *)
(* check that get_status calls down and sendalerts has yet to mark.        *)
(***************************************************************************)
EXTENDS Naturals, Sequences

CONSTANTS
    None,           \* NULL
    Profiles,       \* the profiles, in the order of their ids
    Checks,
    Projects,
    ProjectOf,      \* the project of each check
    Members,        \* the profiles with access to each project
    QuietProfiles,  \* those of whose checks none was pinged for six months
    NagPeriods,     \* what the form offers, besides no nags
    StartingProfiles, \* the rows profiles may have at first
    ReportGap,      \* bound: how far off the next report date can be
    Reporters,      \* sendreports processes
    Updaters,       \* threads and requests that call update_next_nag_dates
    Requests,       \* requests that save a profile, each served once
    ROps,           \* the operations those requests may ask for
    MaxTime,        \* bound: the clock stops here
    MaxChanges,     \* bound: changes of the status of checks
    MaxStops        \* bound: signals and crashes of sendreports processes

AllROps == {"settings", "unsubscribe", "other"}
NoNag   == 0

ASSUME RAccessAssumption ==
    /\ Profiles \subseteq Nat
    /\ ProjectOf \in [Checks -> Projects]
    /\ Members \in [Projects -> SUBSET Profiles]
ASSUME RConfigAssumption ==
    /\ None \notin Nat
    /\ NagPeriods \subseteq Nat \ {NoNag}
    /\ ReportGap \in Nat \ {0}
    /\ ROps \subseteq AllROps
ASSUME RBoundAssumption ==
    /\ MaxTime \in Nat
    /\ MaxChanges \in Nat
    /\ MaxStops \in Nat

VARIABLES
    now,        \* the clock
    status,     \* of each check: "up", "late" or "down"
    changes,    \* number of status changes
    profile,    \* the row of each profile
    owed,       \* calls of update_next_nag_dates a project is still to get
    updater,    \* the profiles each updater has fetched and not written yet
    req,        \* what each request is doing, and its copy of the profile
    rpc,        \* where each sendreports process is
    held,       \* the profile it works on, with its id and the time
    shutdown,   \* the flag its signal handler sets
    stops,      \* number of signals and crashes
    mails,      \* history: the reports and nags that were sent
    reverted    \* history: profiles some column of which was overwritten
                \* with an older value

checkVars  == <<status, changes>>
reportVars == <<rpc, held, shutdown, stops>>
rVars == <<now, checkVars, profile, owed, updater, req, reportVars, mails,
           reverted>>

Maybe(S) == S \cup {None}

\* The columns of Profile; reports is "off" or one of three frequencies.
Profile == [reports    : BOOLEAN,
            nextReport : Maybe(Nat),
            nagPeriod  : NagPeriods \cup {NoNag},
            nextNag    : Maybe(Nat)]

Columns == {"reports", "nextReport", "nagPeriod", "nextNag"}

\* A profile as a process keeps it in memory, with its id.
Copy == [id : Profiles, row : Profile]

\* A report has the date it was due, a nag the time it was claimed.
Mail == [kind : {"report", "nag"}, to : Profiles, at : Nat]

RSteps == {"reports", "claimReport", "sendReport", "nags", "claimNag",
           "sendNag", "saveNag", "exited"}

QSteps == {"look", "nag", "save"}

Input == [reports : BOOLEAN, nagPeriod : NagPeriods \cup {NoNag}]

\* What a request holds: its copy, what it sets, the outcome of any_down.
Serving == [step : QSteps, op : AllROps, id : Profiles, read : Profile,
            row : Profile, input : Input, anyDown : BOOLEAN]

Waiting == [step |-> "waiting"]
Served  == [step |-> "served"]

ASSUME RStartAssumption == StartingProfiles \subseteq Profile

RInit ==
    /\ now = 0
    /\ status = [c \in Checks |-> "up"]
    /\ changes = 0
    /\ profile \in [Profiles -> StartingProfiles]
    /\ owed = [j \in Projects |-> 0]
    /\ updater = [u \in Updaters |-> {}]
    /\ req = [q \in Requests |-> Waiting]
    /\ rpc = [s \in Reporters |-> "reports"]
    /\ held = [s \in Reporters |-> None]
    /\ shutdown = [s \in Reporters |-> FALSE]
    /\ stops = 0
    /\ mails = <<>>
    /\ reverted = {}

RTick ==
    /\ now < MaxTime
    /\ now' = now + 1
    /\ UNCHANGED <<checkVars, profile, owed, updater, req, reportVars, mails,
                   reverted>>

-----------------------------------------------------------------------------
(* What happens to the checks, as far as profiles are concerned.           *)

\* checks_from_all_projects
CanSee(p) == {c \in Checks : p \in Members[ProjectOf[c]]}

Change(c, new) ==
    /\ changes < MaxChanges
    /\ changes' = changes + 1
    /\ status' = [status EXCEPT ![c] = new]
    /\ UNCHANGED <<now, profile, updater, req, reportVars, mails, reverted>>

\* Sooner or later, update_next_nag_dates is called for the change.
Told(c) == owed' = [owed EXCEPT ![ProjectOf[c]] = @ + 1]

\* The grace time is over.
GetLate(c) == status[c] = "up" /\ Change(c, "late") /\ UNCHANGED owed

\* A ping that is late, or a request that clears the events of a check:
\* there is no flip to process.
Recover(c) == status[c] # "up" /\ Change(c, "up") /\ UNCHANGED owed

\* A ping, sendalerts or update_timeout puts the check down; a ping or pause
\* ends the downtime, if there is one.
GoDown(c) == status[c] # "down" /\ Change(c, "down") /\ Told(c)
ComeUp(c) == Change(c, "up") /\ Told(c)

CheckChange(c) == GetLate(c) \/ Recover(c) \/ GoDown(c) \/ ComeUp(c)

-----------------------------------------------------------------------------
(* Project.update_next_nag_dates.                                          *)

AnyDown(p) == \E c \in CanSee(p) : status[c] = "down"

\* It fetches the profiles that have nags on, all at once.
FetchProfiles(u) ==
    /\ updater[u] = {}
    /\ \E j \in Projects :
          /\ owed[j] > 0
          /\ owed' = [owed EXCEPT ![j] = @ - 1]
          /\ updater' = [updater EXCEPT ![u] =
               {[copy |-> [id |-> p, row |-> profile[p]],
                 looked |-> FALSE, anyDown |-> FALSE] :
                   p \in {m \in Members[j] : profile[m].nagPeriod # NoNag}}]
    /\ UNCHANGED <<now, checkVars, profile, req, reportVars, mails, reverted>>

\* Profile.update_next_nag_date: is any check down ...
LookAtChecks(u) ==
    /\ \A w \in updater[u] : ~w.looked
    /\ \E w \in updater[u] :
          updater' = [updater EXCEPT ![u] = (@ \ {w}) \cup
            {[w EXCEPT !.looked = TRUE, !.anyDown = AnyDown(w.copy.id)]}]
    /\ UNCHANGED <<now, checkVars, profile, owed, req, reportVars, mails,
                   reverted>>

\* ... and what that makes of next_nag_date.
NagDate(copy, anyDown) ==
    IF anyDown /\ copy.nextNag = None /\ copy.nagPeriod # NoNag
    THEN now + copy.nagPeriod
    ELSE IF ~anyDown /\ copy.nextNag # None THEN None
    ELSE copy.nextNag

\* save(update_fields=["next_nag_date"]), when the date has changed.
SavedNagDate(p, copy, anyDown) ==
    IF NagDate(copy, anyDown) = copy.nextNag THEN profile
    ELSE [profile EXCEPT ![p].nextNag = NagDate(copy, anyDown)]

WriteNagDate(u) ==
    /\ \E w \in updater[u] :
          /\ w.looked
          /\ profile' = SavedNagDate(w.copy.id, w.copy.row, w.anyDown)
          /\ updater' = [updater EXCEPT ![u] = @ \ {w}]
    /\ UNCHANGED <<now, checkVars, owed, req, reportVars, mails, reverted>>

UpdaterStep(u) == FetchProfiles(u) \/ LookAtChecks(u) \/ WriteNagDate(u)

-----------------------------------------------------------------------------
(* Requests.                                                               *)

\* choose_next_report_date: the next day, Monday or first of the month, at
\* some minute of the morning.
ReportDates == now + 1 .. now + ReportGap

\* What profile.save() does to a row, when the columns in set are new and the
\* others are those of the copy.
Reverts(p, read, set) ==
    \E col \in Columns \ set : profile[p][col] # read[col]

Overwrite(p, read, new, set) ==
    /\ profile' = [profile EXCEPT ![p] = new]
    /\ reverted' = IF Reverts(p, read, set)
                   THEN reverted \cup {p} ELSE reverted

\* The middleware, for_user or Profile.objects.get reads the profile.
ReadProfile(q) ==
    /\ req[q].step = "waiting"
    /\ \E op \in ROps, p \in Profiles, input \in Input :
          LET new == input.nagPeriod # profile[p].nagPeriod
              row == [profile[p] EXCEPT
                        !.reports   = input.reports,
                        !.nagPeriod = input.nagPeriod,
                        !.nextNag   = IF new /\ input.nagPeriod = NoNag
                                      THEN None ELSE @]
          IN
          /\ op # "settings" => input = [reports |-> FALSE, nagPeriod |-> NoNag]
          /\ req' = [req EXCEPT ![q] =
               [step |-> IF op = "settings" /\ new /\ input.nagPeriod # NoNag
                         THEN "look" ELSE "save",
                op |-> op, id |-> p, read |-> profile[p],
                row |-> IF op = "settings" THEN row ELSE profile[p],
                input |-> input, anyDown |-> FALSE]]
    /\ UNCHANGED <<now, checkVars, profile, owed, updater, reportVars, mails,
                   reverted>>

\* It calls update_next_nag_date when nags were turned on, or are to come
\* more or less often.
LookForForm(q) ==
    /\ req[q].step = "look"
    /\ req' = [req EXCEPT ![q].step = "nag",
                          ![q].anyDown = AnyDown(req[q].id)]
    /\ UNCHANGED <<now, checkVars, profile, owed, updater, reportVars, mails,
                   reverted>>

\* Its copy then has the date it has just written.
NagForForm(q) ==
    LET row == req[q].row IN
    /\ req[q].step = "nag"
    /\ profile' = SavedNagDate(req[q].id, row, req[q].anyDown)
    /\ req' = [req EXCEPT ![q].step = "save",
                          ![q].row.nextNag  = NagDate(row, req[q].anyDown),
                          ![q].read.nextNag = NagDate(row, req[q].anyDown)]
    /\ UNCHANGED <<now, checkVars, owed, updater, reportVars, mails, reverted>>

\* Mutant of Unsubscribed: the dates are left alone.
UnsubscribedDates(row) == [row EXCEPT !.reports = FALSE, !.nagPeriod = NoNag]

\* unsubscribe_reports, and an email that bounced.
Unsubscribed(row) ==
    [row EXCEPT !.reports = FALSE, !.nextReport = None,
                !.nagPeriod = NoNag, !.nextNag = None]

\* The columns the form sets; a nag period or date it has not changed is the
\* copy's.
SetByForm(q) ==
    {"reports", "nextReport"} \cup
    {col \in {"nagPeriod", "nextNag"} : req[q].row[col] # req[q].read[col]}

\* notifications: the form, with a new report date (a request is over long
\* before the date it chooses).
SaveForm(q) ==
    \E date \in ReportDates :
        Overwrite(req[q].id, req[q].read,
                  [req[q].row EXCEPT !.nextReport =
                     IF req[q].input.reports THEN date ELSE None],
                  SetByForm(q))

\* profile.save(), of every column: the form, an unsubscription, or any of
\* the views that change columns not modelled here (authorize_sms, the sort
\* order, the theme, a password, ...).
SaveProfile(q) ==
    LET p == req[q].id IN
    /\ req[q].step = "save"
    /\ \/ req[q].op = "settings" /\ SaveForm(q)
       \/ /\ req[q].op = "unsubscribe"
          /\ Overwrite(p, req[q].read, Unsubscribed(req[q].row), Columns)
       \/ /\ req[q].op = "other"
          /\ Overwrite(p, req[q].read, req[q].row, {})
    /\ req' = [req EXCEPT ![q] = Served]
    /\ UNCHANGED <<now, checkVars, owed, updater, reportVars, mails>>

RRequestStep(q) ==
    ReadProfile(q) \/ LookForForm(q) \/ NagForForm(q) \/ SaveProfile(q)

-----------------------------------------------------------------------------
(* sendreports.                                                            *)

DueReports == {p \in Profiles : /\ profile[p].reports
                                /\ \/ profile[p].nextReport = None
                                   \/ profile[p].nextReport < now}

DueNags == {p \in Profiles : /\ profile[p].nagPeriod # NoNag
                             /\ profile[p].nextNag # None
                             /\ profile[p].nextNag < now}

RGoes(s, step) == rpc' = [rpc EXCEPT ![s] = step]

\* profile = q.first(), in the order of the ids.
HoldFirst(s, found) ==
    \E p \in found :
        /\ \A other \in found : p <= other
        /\ held' = [held EXCEPT ![s] =
                      [id |-> p, row |-> profile[p], at |-> now]]

LetGo(s) == held' = [held EXCEPT ![s] = None]

\* The loop, unless a signal has ended it, and the query of handle_one_report:
\* the first profile whose report is due, or not scheduled yet.
PickReport(s) ==
    /\ rpc[s] = "reports"
    /\ IF shutdown[s] \/ DueReports = {}
       THEN /\ RGoes(s, IF shutdown[s] THEN "exited" ELSE "nags")
            /\ UNCHANGED held
       ELSE /\ RGoes(s, "claimReport")
            /\ HoldFirst(s, DueReports)
    /\ UNCHANGED <<now, checkVars, profile, owed, updater, req, shutdown,
                   stops, mails, reverted>>

\* Mutant of SameReportDate: the UPDATE names the id only.
AnyReportDate(s) == TRUE

\* Mutant of SameReportDate: NULL is compared with =.
SameDateSQL(s) ==
    /\ held[s].row.nextReport # None
    /\ profile[held[s].id].nextReport = held[s].row.nextReport

\* filter(id=profile.id, next_report_date=profile.next_report_date)
SameReportDate(s) ==
    profile[held[s].id].nextReport = held[s].row.nextReport

\* A profile without a date is scheduled; one that has a date gets the next
\* one, and its report if this process was the one to change it.
ClaimReport(s) ==
    /\ rpc[s] = "claimReport"
    /\ IF SameReportDate(s)
       THEN \E date \in ReportDates :
               profile' = [profile EXCEPT ![held[s].id].nextReport = date]
       ELSE UNCHANGED profile
    /\ IF SameReportDate(s) /\ held[s].row.nextReport # None
       THEN /\ RGoes(s, "sendReport")
            /\ UNCHANGED held
       ELSE RGoes(s, "reports") /\ LetGo(s)
    /\ UNCHANGED <<now, checkVars, owed, updater, req, shutdown, stops, mails,
                   reverted>>

Send(s, kind, at) ==
    mails' = Append(mails, [kind |-> kind, to |-> held[s].id, at |-> at])

SendReport(s) ==
    /\ rpc[s] = "sendReport"
    /\ IF held[s].id \in QuietProfiles
       THEN UNCHANGED mails
       ELSE Send(s, "report", held[s].row.nextReport)
    /\ RGoes(s, "reports")
    /\ LetGo(s)
    /\ UNCHANGED <<now, checkVars, profile, owed, updater, req, shutdown,
                   stops, reverted>>

\* handle_one_nag; now_value is read before the query.  When there is no nag,
\* the process sleeps for a minute and starts again.
PickNag(s) ==
    /\ rpc[s] = "nags"
    /\ IF shutdown[s] \/ DueNags = {}
       THEN /\ RGoes(s, IF shutdown[s] THEN "exited" ELSE "reports")
            /\ UNCHANGED held
       ELSE /\ RGoes(s, "claimNag")
            /\ HoldFirst(s, DueNags)
    /\ UNCHANGED <<now, checkVars, profile, owed, updater, req, shutdown,
                   stops, mails, reverted>>

\* Mutant of SameNagDate: the UPDATE names the id only.
AnyNagDate(s) == TRUE

\* filter(id=profile.id, next_nag_date=profile.next_nag_date)
SameNagDate(s) == profile[held[s].id].nextNag = held[s].row.nextNag

ClaimNag(s) ==
    /\ rpc[s] = "claimNag"
    /\ IF SameNagDate(s)
       THEN /\ profile' = [profile EXCEPT ![held[s].id].nextNag =
                             held[s].at + held[s].row.nagPeriod]
            /\ RGoes(s, "sendNag")
            /\ UNCHANGED held
       ELSE RGoes(s, "nags") /\ LetGo(s) /\ UNCHANGED profile
    /\ UNCHANGED <<now, checkVars, owed, updater, req, shutdown, stops, mails,
                   reverted>>

\* send_report(nag=True) goes by get_status, which calls late checks down.
SendNag(s) ==
    /\ rpc[s] = "sendNag"
    /\ IF /\ held[s].id \notin QuietProfiles
          /\ \E c \in CanSee(held[s].id) : status[c] \in {"late", "down"}
       THEN /\ Send(s, "nag", held[s].at)
            /\ RGoes(s, "nags")
            /\ LetGo(s)
       ELSE /\ RGoes(s, "saveNag")
            /\ UNCHANGED <<held, mails>>
    /\ UNCHANGED <<now, checkVars, profile, owed, updater, req, shutdown,
                   stops, reverted>>

\* Mutant of SaveNag: the date of the copy is saved.
SaveNagDate(s) ==
    /\ rpc[s] = "saveNag"
    /\ Overwrite(held[s].id, held[s].row, held[s].row, {"nextNag"})
    /\ RGoes(s, "nags")
    /\ LetGo(s)
    /\ UNCHANGED <<now, checkVars, owed, updater, req, shutdown, stops, mails>>

\* Nothing to nag about: profile.next_nag_date = None, profile.save().
SaveNag(s) ==
    /\ rpc[s] = "saveNag"
    /\ Overwrite(held[s].id, held[s].row,
                 [held[s].row EXCEPT !.nextNag = None], {"nextNag"})
    /\ RGoes(s, "nags")
    /\ LetGo(s)
    /\ UNCHANGED <<now, checkVars, owed, updater, req, shutdown, stops, mails>>

ROnSignal(s) ==
    /\ rpc[s] # "exited"
    /\ ~shutdown[s]
    /\ stops < MaxStops
    /\ stops' = stops + 1
    /\ shutdown' = [shutdown EXCEPT ![s] = TRUE]
    /\ UNCHANGED <<now, checkVars, profile, owed, updater, req, rpc, held,
                   mails, reverted>>

\* A crash, or an exception: nothing in the loop catches one.
RCrash(s) ==
    /\ rpc[s] # "exited"
    /\ stops < MaxStops
    /\ stops' = stops + 1
    /\ RGoes(s, "exited")
    /\ LetGo(s)
    /\ UNCHANGED <<now, checkVars, profile, owed, updater, req, shutdown,
                   mails, reverted>>

RRestart(s) ==
    /\ rpc[s] = "exited"
    /\ RGoes(s, "reports")
    /\ shutdown' = [shutdown EXCEPT ![s] = FALSE]
    /\ UNCHANGED <<now, checkVars, profile, owed, updater, req, held, stops,
                   mails, reverted>>

RLoop(s) ==
    \/ PickReport(s) \/ ClaimReport(s) \/ SendReport(s)
    \/ PickNag(s) \/ ClaimNag(s) \/ SendNag(s) \/ SaveNag(s)
    \/ RRestart(s)

RNext ==
    \/ RTick
    \/ \E c \in Checks : CheckChange(c)
    \/ \E u \in Updaters : UpdaterStep(u)
    \/ \E q \in Requests : RRequestStep(q)
    \/ \E s \in Reporters : RLoop(s) \/ ROnSignal(s) \/ RCrash(s)

RSpec == RInit /\ [][RNext]_rVars

\* The operating system runs the loop, and uWSGI restarts it.
RFairSpec == RSpec /\ \A s \in Reporters : WF_rVars(RLoop(s))

-----------------------------------------------------------------------------
(* Properties.                                                             *)

RTypeOK ==
    /\ now \in Nat
    /\ status \in [Checks -> {"up", "late", "down"}]
    /\ changes \in Nat
    /\ profile \in [Profiles -> Profile]
    /\ owed \in [Projects -> Nat]
    /\ updater \in [Updaters -> SUBSET [copy : Copy, looked : BOOLEAN,
                                        anyDown : BOOLEAN]]
    /\ req \in [Requests -> Serving \cup {Waiting, Served}]
    /\ rpc \in [Reporters -> RSteps]
    /\ held \in [Reporters -> [id : Profiles, row : Profile, at : Nat]
                              \cup {None}]
    /\ shutdown \in [Reporters -> BOOLEAN]
    /\ stops \in Nat
    /\ mails \in Seq(Mail)
    /\ reverted \subseteq Profiles

\* One report for each date a report was scheduled for, however many
\* processes look for reports that are due, crash and are restarted, unless
\* an older date was saved over the profile.
ReportOnce ==
    \A i, j \in 1 .. Len(mails) :
        /\ mails[i].kind = "report" /\ mails[j].kind = "report"
        /\ mails[i].to = mails[j].to
        /\ mails[i].to \notin reverted
        /\ mails[i].at = mails[j].at
        => i = j

\* No two nags are closer to each other than the shortest period the form
\* offers, whoever sets, clears, claims or saves the date in between.
NagsSpaced ==
    \A i, j \in 1 .. Len(mails) :
        /\ i # j
        /\ mails[i].kind = "nag" /\ mails[j].kind = "nag"
        /\ mails[i].to = mails[j].to
        /\ mails[i].to \notin reverted
        => \E n \in NagPeriods : \/ mails[j].at > mails[i].at + n
                                 \/ mails[i].at > mails[j].at + n

\* A report or a nag is claimed only while the profile has them on: the
\* claim goes by the date, which a process has read before an unsubscription
\* and others may write after it.
ClaimedOnlySubscribed ==
    [][\A s \in Reporters :
         /\ rpc[s] = "claimReport" /\ rpc'[s] = "sendReport"
               => \/ profile[held[s].id].reports
                  \/ held[s].id \in reverted
         /\ rpc[s] = "claimNag" /\ rpc'[s] = "sendNag"
               => \/ profile[held[s].id].nagPeriod # NoNag
                  \/ held[s].id \in reverted]_rVars

\* Every report that is due is handled, and every profile without a date gets
\* one; requests bring a date back only so often, so it is gone for good.
ReportDue(p, date) == p \in DueReports /\ profile[p].nextReport = date

DueReportsHandled ==
    \A p \in Profiles, date \in Maybe(0 .. MaxTime - 1) :
        ReportDue(p, date) ~> []~ReportDue(p, date)

\* Every nag that is due is sent, or found to be about nothing, and its date
\* is gone for good: sendreports does not find it due again and again.
NagDue(p, date) == p \in DueNags /\ profile[p].nextNag = date

DueNagsHandled ==
    \A p \in Profiles, date \in 0 .. MaxTime - 1 :
        NagDue(p, date) ~> []~NagDue(p, date)

\* Both: nothing that sendreports should handle is left, or found for ever.
DueHandled == DueReportsHandled /\ DueNagsHandled

-----------------------------------------------------------------------------
(* What the program says, and a stale save makes false.                    *)

\* templates/accounts/unsubscribed.html: "Your email address has been
\* unsubscribed from reports".  Then only the form turns them on again.
StaysUnsubscribed ==
    [][\A p \in Profiles : ~profile[p].reports /\ profile'[p].reports =>
         \E q \in Requests : /\ req[q].step = "save" /\ req[q].op = "settings"
                             /\ req[q].id = p /\ req[q].input.reports
                             /\ req'[q] = Served]_rVars
=============================================================================
