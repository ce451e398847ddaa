------------------------------ MODULE Summaries ------------------------------
(***************************************************************************)
(* What is said of many checks at once: the tags and the title of the list *)
(* of checks, the list of projects, badges, and metrics.  Each view goes   *)
(* through the checks once, in the order the table gives them, and keeps   *)
(* a summary of those so far.                                              *)
(***************************************************************************)
EXTENDS Integers, Sequences, FiniteSets, SequencesExt

CONSTANTS
    ListedIn,       \* the project of each check, in the order of the table;
                    \* bounds their number
    Tags

ASSUME SummariesAssumption == ListedIn \in Seq(Nat) /\ "*" \notin Tags

Found == {"new", "up", "grace", "down", "paused"}       \* Check.get_status

VARIABLE listing    \* what get_status, last_start and tags_list give

SummariesInit == listing = <<>>

\* add_check.
NewCheck(ts) ==
    /\ Len(listing) < Len(ListedIn)
    /\ listing' = Append(listing, [status |-> "new", started |-> FALSE, tags |-> ts])

\* A ping, a request that changes the check, or time that passes.
Turn(i, c) == c # listing[i] /\ listing' = [listing EXCEPT ![i] = c]

SummariesNext ==
    \/ \E ts \in SUBSET Tags : NewCheck(ts)
    \/ \E i \in DOMAIN listing, s \in Found, b \in BOOLEAN, ts \in SUBSET Tags :
          Turn(i, [status |-> s, started |-> b, tags |-> ts])

SummariesSpec == SummariesInit /\ [][SummariesNext]_listing

-----------------------------------------------------------------------------
(* The views.                                                              *)

\* The checks of a project, the tags of a check with the one all have, the tags
\* of checks, those with a tag, and those that are down.
Listing(p) == {i \in DOMAIN listing : ListedIn[i] = p}
TagsOf(i) == listing[i].tags \union {"*"}
AllTags(checks) == UNION {TagsOf(i) : i \in checks}
WithTag(checks, tag) == {i \in checks : tag \in TagsOf(i)}
AreDown(checks) == {i \in checks : listing[i].status = "down"}

\* _tags_counts: a tag, and "*" for the title.
TagCount(checks, tag) ==
    LET down  == Cardinality(AreDown(WithTag(checks, tag)))
        grace == AllTags({i \in checks : listing[i].status = "grace"})
    IN [status |-> IF down > 0 THEN "down" ELSE IF tag \in grace THEN "grace" ELSE "up",
        count |-> IF down > 0 THEN down ELSE Cardinality(WithTag(checks, tag))]

\* _get_project_summary: what check i, of any project, adds.
SummaryStep(sum, i, p) ==
    IF ListedIn[i] # p THEN sum
    ELSE [started |-> sum.started \/ listing[i].started,
          status  |-> IF \/ listing[i].status = "down"
                         \/ listing[i].status = "grace" /\ sum.status = "up"
                      THEN listing[i].status ELSE sum.status]

ProjectSummary(p) ==
    FoldLeftDomain(LAMBDA sum, i : SummaryStep(sum, i, p),
                   [started |-> FALSE, status |-> "up"], listing)

\* index: those that are down go first.
AnyDown == \E i \in DOMAIN listing : ProjectSummary(ListedIn[i]).status = "down"

NoneSeen == [status |-> "up", total |-> 0, grace |-> 0, down |-> 0]

\* Mutant of BadgeStep: a late check after one that is down.
BadgeStepLate(sum, c, withLate) ==
    CASE c.status = "down"  -> [sum EXCEPT !.down = @ + 1, !.total = @ + 1,
                                           !.status = "down"]
      [] c.status = "grace" -> [sum EXCEPT !.grace = @ + 1, !.total = @ + 1,
                                           !.status = IF withLate THEN "late" ELSE @]
      [] OTHER              -> [sum EXCEPT !.total = @ + 1]

\* badge: what a check adds.
BadgeStep(sum, c, withLate) ==
    CASE c.status = "down"  -> [sum EXCEPT !.down = @ + 1, !.total = @ + 1,
                                           !.status = "down"]
      [] c.status = "grace" -> [sum EXCEPT !.grace = @ + 1, !.total = @ + 1,
                                           !.status = IF @ = "up" /\ withLate
                                                      THEN "late" ELSE @]
      [] OTHER              -> [sum EXCEPT !.total = @ + 1]

\* A drawn badge is done with the first check that is down.
Badge(checks, tag, fmt, withLate) ==
    LET done(sum) == fmt = "svg" /\ sum.status = "down" IN
    FoldLeftDomain(LAMBDA sum, i :
                     IF done(sum) \/ i \notin WithTag(checks, tag) THEN sum
                     ELSE BadgeStep(sum, listing[i], withLate),
                   NoneSeen, listing)

check_badge(c, withLate) ==
    [status |-> CASE c.status = "down"               -> "down"
                  [] c.status = "grace" /\ withLate -> "late"
                  [] OTHER                           -> "up",
     total  |-> 1,
     grace  |-> IF c.status = "grace" THEN 1 ELSE 0,
     down   |-> IF c.status = "down" THEN 1 ELSE 0]

\* metrics: of each check, of each tag, and of all.
Metrics(checks) ==
    LET Having(status) == {i \in checks : listing[i].status = status} IN
    [check_up     |-> checks \ Having("down"),
     check_grace  |-> Having("grace"),
     check_paused |-> Having("paused"),
     tag_up       |-> AllTags(checks) \ AllTags(Having("down")),
     checks_down_total |-> Cardinality(Having("down"))]

-----------------------------------------------------------------------------

\* The worst of the statuses; new, paused and up are as good.
Worst(statuses) ==
    IF "down" \in statuses THEN "down" ELSE IF "grace" \in statuses THEN "grace" ELSE "up"

Shown(status, withLate) ==
    IF status # "grace" THEN status ELSE IF withLate THEN "late" ELSE "up"

\* What is said of a tag in a project.
SaidAlike(p, tag) ==
    LET checks == Listing(p)
        tagged == WithTag(checks, tag)
        worst  == Worst({listing[i].status : i \in tagged})
        down   == Cardinality(AreDown(tagged)) IN
    /\ TagCount(checks, tag).status = worst
    /\ tag = "*" => /\ ProjectSummary(p).status = worst
                    /\ worst = "down" => AnyDown
                    /\ Metrics(checks).checks_down_total = down
    /\ tagged # {} => (tag \in Metrics(checks).tag_up <=> worst # "down")
    /\ \A late \in BOOLEAN :
         /\ \A fmt \in {"svg", "json", "shields"} :
               Badge(checks, tag, fmt, late).status = Shown(worst, late)
         /\ Badge(checks, tag, "json", late).down = down
         /\ \A i \in tagged : tagged = {i} =>
               Badge(checks, tag, "json", late) = check_badge(listing[i], late)

\* In whatever order the checks come, and though a drawn badge does not look
\* at all of them, what the pages, the badges and the metrics say of a tag or
\* of a project is the worst of its checks, they count the same checks as
\* down, and the badge of a tag that one check has is that of the check.
SummariesAgree ==
    \A p \in {ListedIn[i] : i \in DOMAIN listing}, tag \in Tags \union {"*"} :
        SaidAlike(p, tag)
=============================================================================
