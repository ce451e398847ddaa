--------------------------- MODULE BackgroundProofs ---------------------------
(***************************************************************************)
(* Proofs about what works behind the pages: the removal of accounts that  *)
(* are not used, the monthly limits, the task queue, and the buckets of    *)
(* tokens.  The components share nothing, and each has its own invariant.  *)
(***************************************************************************)
EXTENDS Inactivity, MonthlyLimits, TaskQueue, TokenBuckets, FiniteSetTheorems,
        TLAPS

(***************************************************************************)
(* Accounts that are not used.                                             *)
(***************************************************************************)

Rows == [active : Nat, notice : Nat]
Prunings ==
    [at : {"chosen"}, how : {"never", "notice"}, login : Nat, used : Nat,
     notice : Nat, began : Nat]

InactivityTypeOK ==
    /\ date \in Nat /\ passed \in Nat
    /\ login \in Nat /\ used \in Nat
    /\ profile \in Rows
    /\ stale \in {NoCopyRead} \union [at : {"read"}, row : Rows]
    /\ notices \in {NotRunning} \union
           [at : {"chosen"}, row : Rows, used : Nat, began : Nat, lost : BOOLEAN]
    /\ pruning \in {NotRunning} \union Prunings
    /\ ended \in {NotEnded} \union Prunings
    /\ noticed \subseteq [sent : Nat, began : Nat, before : Nat, lost : BOOLEAN,
                          late : BOOLEAN]

\* A date of a notice, in whatever copy of the row, is that of a notice sent.
Sent(d) == d = 0 \/ \E n \in noticed : n.sent = d

\* When a notice was sent the account was idle, and it has stayed so until
\* somebody logs in; only a login begins a session.
IdleSince(n) ==
    /\ n.sent < date /\ n.began <= n.sent
    /\ n.lost \/ n.before <= n.began - Year
    /\ n.late \/ n.lost \/ used = n.before \/ login > n.sent

\* PrunedWereIdle of any removal, also one that is only decided.
Justified(p) ==
    /\ p.how = "never" => p.login = 0 /\ p.began > 1 + Month
    /\ p.how = "notice" =>
          \E n \in noticed :
              /\ n.sent = p.notice
              /\ n.sent < p.began - Month
              /\ p.login <= n.sent
              /\ n.lost \/ n.before <= n.began - Year
              /\ n.late \/ n.lost \/ p.used = n.before

InactivityInv ==
    /\ InactivityTypeOK
    /\ login <= used /\ used <= date
    /\ Sent(profile.notice)
    /\ stale.at = "read" => Sent(stale.row.notice)
    /\ \A n \in noticed : IdleSince(n)
    /\ notices.at = "chosen" =>
          /\ notices.began <= date
          /\ notices.lost \/ notices.used <= notices.began - Year
    /\ pruning.at = "chosen" => Justified(pruning)
    /\ Justified(ended)

LEMMA InactivityInvInit == InactivityInit => InactivityInv
BY DEF InactivityInit, InactivityInv, InactivityTypeOK, Rows, Sent, Justified,
       NoCopyRead, NotRunning, NotEnded

\* What is justified stays so when further notices are sent.
LEMMA StaysJustified ==
    ASSUME noticed \subseteq noticed', NEW p, Justified(p)
    PROVE  Justified(p)'
BY DEF Justified

LEMMA InactivityInvNext ==
    InactivityInv /\ [InactivityNext]_inactivityVars => InactivityInv'
<1> SUFFICES ASSUME InactivityInv, [InactivityNext]_inactivityVars
             PROVE  InactivityInv'
  OBVIOUS
<1> USE DEF InactivityInv
<1>1. CASE LogInToAccount
  BY <1>1 DEF LogInToAccount, commandVars, InactivityTypeOK, Sent, IdleSince,
              Justified
<1>2. CASE Visit
  BY <1>2 DEF Visit, SignedIn, SessionAge, Year, commandVars, InactivityTypeOK,
              Rows, Sent, IdleSince, Justified
<1>3. CASE OthersAct
  BY <1>3 DEF OthersAct, commandVars, InactivityTypeOK, Sent, IdleSince, Justified
<1>4. CASE CopyProfile
  BY <1>4 DEF CopyProfile, commandVars, userVars, InactivityTypeOK, Sent,
              IdleSince, Justified
<1>5. CASE SaveCopy
  <2>1. stale.at = "read" /\ stale.row \in Rows
    BY <1>5 DEF SaveCopy, NoCopyRead, InactivityTypeOK
  <2>2. QED
    BY <1>5, <2>1 DEF SaveCopy, NoCopyRead, commandVars, userVars, InactivityTypeOK,
                      Sent, IdleSince, Justified
<1>6. CASE ChooseInactive
  <2>1. InactivityTypeOK'
    BY <1>6 DEF ChooseInactive, userVars, InactivityTypeOK
  <2>2. notices'.began = date /\ notices'.used = used
        /\ (notices'.lost <=> used > login /\ used > profile.active)
    BY <1>6 DEF ChooseInactive
  <2>3. notices'.lost \/ notices'.used <= notices'.began - Year
    BY <1>6, <2>2 DEF ChooseInactive, Inactive, YearAgo, Year, InactivityTypeOK, Rows
  <2>4. notices'.began <= date'
    BY <1>6, <2>2 DEF ChooseInactive, InactivityTypeOK
  <2>5. QED
    BY <1>6, <2>1, <2>3, <2>4 DEF ChooseInactive, userVars, Sent, IdleSince, Justified
<1>7. CASE SendNotice
  <2>1. PICK n \in [sent : Nat, began : Nat, before : Nat, lost : BOOLEAN,
                    late : BOOLEAN] :
            /\ n.sent = date /\ n.began = notices.began
            /\ n.before = notices.used /\ n.lost = notices.lost
            /\ n.late <=> used # notices.used
            /\ noticed' \in {noticed, noticed \union {n}}
            /\ \/ profile' = profile
               \/ /\ profile' = [notices.row EXCEPT !.notice = date]
                  /\ noticed' = noticed \union {n}
    <3>1. notices \in [at : {"chosen"}, row : Rows, used : Nat, began : Nat,
                       lost : BOOLEAN]
      BY <1>7 DEF SendNotice, NotRunning, InactivityTypeOK
    <3> DEFINE n == [sent |-> date, began |-> notices.began,
                     before |-> notices.used, lost |-> notices.lost,
                     late |-> used # notices.used]
    <3>2. n \in [sent : Nat, began : Nat, before : Nat, lost : BOOLEAN, late : BOOLEAN]
      BY <3>1 DEF InactivityTypeOK
    <3>3. QED
      BY <1>7, <3>2 DEF SendNotice
  <2>2. /\ notices.at = "chosen" /\ notices' = NotRunning /\ date' = date + 1
        /\ UNCHANGED <<login, used, stale, pruning, ended>>
    BY <1>7 DEF SendNotice, userVars
  <2>3. InactivityTypeOK'
    BY <1>7, <2>1, <2>2 DEF SendNotice, NotRunning, InactivityTypeOK, Rows
  <2>4. noticed \subseteq noticed'
    BY <2>1
  <2>5. Sent(profile.notice)' /\ (stale'.at = "read" => Sent(stale.row.notice)')
    BY <2>1, <2>2, <2>4 DEF Sent, InactivityTypeOK, NotRunning, Rows
  <2>6. \A o \in noticed' : IdleSince(o)'
    <3>1. \A o \in noticed : IdleSince(o)'
      BY <2>2, <2>3 DEF IdleSince, InactivityTypeOK
    <3>2. IdleSince(n)'
      BY <2>1, <2>2, <2>3 DEF IdleSince, InactivityTypeOK
    <3>3. QED
      BY <2>1, <3>1, <3>2
  <2>7. Justified(ended)' /\ (pruning'.at = "chosen" => Justified(pruning)')
    BY <2>2, <2>4, StaysJustified
  <2>8. QED
    BY <2>2, <2>3, <2>5, <2>6, <2>7 DEF NotRunning, InactivityTypeOK
<1>8. CASE ChooseUsers
  <2>1. /\ pruning'.login = login /\ pruning'.used = used /\ pruning'.began = date
        /\ pruning'.notice = profile.notice
        /\ \/ pruning'.how = "never" /\ NeverUsed
           \/ pruning'.how = "notice" /\ Deserted
        /\ UNCHANGED <<date, profile, stale, noticed, login, used, notices, ended>>
    BY <1>8 DEF ChooseUsers, userVars
  <2>2. InactivityTypeOK'
    BY <1>8, <2>1 DEF ChooseUsers, InactivityTypeOK, Prunings, Rows
  <2>3. Justified(pruning)'
    <3>1. CASE pruning'.how = "never" /\ NeverUsed
      BY <2>1, <3>1 DEF Justified, NeverUsed, MonthAgo, InactivityTypeOK, Month
    <3>2. CASE pruning'.how = "notice" /\ Deserted
      <4>1. PICK n \in noticed : n.sent = profile.notice
        BY <3>2 DEF Deserted, Sent
      <4>2. IdleSince(n) /\ n.sent \in Nat
        BY <4>1 DEF InactivityTypeOK
      <4>3. n.sent < date - Month /\ ~(login > n.sent)
        BY <3>2, <4>1 DEF Deserted, MonthAgo
      <4>4. login <= n.sent
        BY <4>2, <4>3 DEF InactivityTypeOK
      <4>5. QED
        BY <2>1, <3>2, <4>1, <4>2, <4>3, <4>4 DEF Justified, IdleSince
    <3>3. QED
      BY <2>1, <3>1, <3>2
  <2>4. Justified(ended)'
    BY <2>1, StaysJustified
  <2>5. QED
    BY <2>1, <2>2, <2>3, <2>4 DEF Sent, IdleSince
<1>9. CASE DeleteUser
  <2>1. InactivityTypeOK'
    BY <1>9 DEF DeleteUser, NotRunning, InactivityTypeOK
  <2>2. Justified(ended)'
    BY <1>9, StaysJustified DEF DeleteUser, Justified
  <2>3. /\ stale'.at = "none" /\ notices'.at = "none" /\ pruning'.at = "none"
        /\ UNCHANGED <<date, profile, login, used, noticed>>
    BY <1>9 DEF DeleteUser, NoCopyRead, NotRunning
  <2>4. QED
    BY <2>1, <2>2, <2>3 DEF Sent, IdleSince
<1>10. CASE PassDay
  <2>1. /\ date' = date + 1
        /\ UNCHANGED <<profile, used, login, stale, noticed, notices, pruning, ended>>
    BY <1>10 DEF PassDay, Passes, commandVars
  <2>2. InactivityTypeOK'
    BY <1>10, <2>1 DEF PassDay, Passes, InactivityTypeOK
  <2>3. \A n \in noticed : IdleSince(n)'
    BY <2>1, <2>2 DEF IdleSince, InactivityTypeOK
  <2>4. /\ pruning'.at = "chosen" => Justified(pruning)'
        /\ Justified(ended)'
    BY <2>1, StaysJustified
  <2>5. /\ login' <= used' /\ used' <= date'
        /\ notices'.at = "chosen" => notices'.began <= date'
    BY <2>1 DEF InactivityTypeOK, NotRunning
  <2>6. QED
    BY <2>1, <2>2, <2>3, <2>4, <2>5 DEF Sent
<1>11. ASSUME NEW d \in {Month + 1, Year + 1}, PassUnused(d)
       PROVE  InactivityInv'
  <2>1. d \in Nat /\ date' = date + d /\ UNCHANGED <<profile, used, login, stale,
        noticed, notices, pruning, ended>>
    BY <1>11 DEF PassUnused, Passes, Month, Year, commandVars
  <2>2. InactivityTypeOK'
    BY <1>11, <2>1 DEF PassUnused, Passes, InactivityTypeOK
  <2>3. \A n \in noticed : IdleSince(n)'
    BY <2>1, <2>2 DEF IdleSince, InactivityTypeOK
  <2>4. notices'.at # "chosen" /\ pruning'.at # "chosen" /\ Justified(ended)'
    BY <1>11, <2>1, StaysJustified DEF PassUnused, NothingRuns
  <2>5. login' <= used' /\ used' <= date'
    BY <2>1 DEF InactivityTypeOK
  <2>6. QED
    BY <2>1, <2>2, <2>3, <2>4, <2>5 DEF Sent
<1>12. ASSUME NEW d \in {Month + 1, Year + 1}, PassInUse(d)
       PROVE  InactivityInv'
  <2>1. /\ d \in Nat /\ date' = date + d /\ used' = date + d /\ SignedIn
        /\ profile' = [profile EXCEPT !.active = date']
        /\ UNCHANGED <<login, stale, noticed, notices, pruning, ended>>
    BY <1>12 DEF PassInUse, Passes, Month, Year, commandVars
  <2>2. InactivityTypeOK'
    BY <1>12, <2>1 DEF PassInUse, Passes, InactivityTypeOK, Rows
  <2>3. profile'.notice = profile.notice
    BY <2>1 DEF InactivityTypeOK, Rows
  <2>4. \A n \in noticed : IdleSince(n)'
    BY <2>1, <2>2 DEF IdleSince, InactivityTypeOK, SignedIn, SessionAge, Year
  <2>5. notices'.at # "chosen" /\ pruning'.at # "chosen" /\ Justified(ended)'
    BY <1>12, <2>1, StaysJustified DEF PassInUse, NothingRuns
  <2>6. login' <= used' /\ used' <= date'
    BY <2>1 DEF InactivityTypeOK
  <2>7. QED
    BY <2>1, <2>2, <2>3, <2>4, <2>5, <2>6 DEF Sent
<1>13. CASE UNCHANGED inactivityVars
  BY <1>13 DEF inactivityVars, commandVars, InactivityTypeOK, Sent, IdleSince,
               Justified
<1>14. QED
  BY <1>1, <1>2, <1>3, <1>4, <1>5, <1>6, <1>7, <1>8, <1>9, <1>10, <1>11, <1>12,
     <1>13 DEF InactivityNext

\* What pruneusers removes was not in use, but for the two exceptions the
\* property names, however often and in which order the commands run, the
\* account is used, profiles are saved late and time passes.
THEOREM IdleOnesArePruned == InactivitySpec => []PrunedWereIdle
<1>1. InactivityInit => InactivityInv
  BY InactivityInvInit
<1>2. InactivityInv /\ [InactivityNext]_inactivityVars => InactivityInv'
  BY InactivityInvNext
<1>3. InactivityInv => PrunedWereIdle
  BY DEF InactivityInv, Justified, PrunedWereIdle
<1>4. QED
  BY <1>1, <1>2, <1>3, PTL DEF InactivitySpec

(***************************************************************************)
(* Monthly limits.                                                         *)
(***************************************************************************)

Counters == [sent : Nat, last : Nat]

MonthlyTypeOK ==
    /\ thisMonth \in Nat \ {0}
    /\ counter \in Counters
    /\ copy \in [Copies -> {NoCopy} \union
                    [at : {"loaded", "counted"}, row : Counters, seen : Nat]]
    /\ sent \in Seq(Nat)

\* The deliveries of a month among the first n, but for those overwritten.
CountedUpTo(m, n) == {i \in DOMAIN sent \ uncounted : sent[i] = m /\ i <= n}

\* A row that was read when there were n deliveries counts those that are not
\* overwritten.
NoneAfter(row, n) == \A m \in Nat : m > row.last => CountedUpTo(m, n) = {}
RowCounts(row, n) ==
    NoneAfter(row, n) /\ Cardinality(CountedUpTo(row.last, n)) <= row.sent

\* So does a copy; once it is counted it has room for the delivery to come,
\* and keeps it, because a month that turns begins with nothing.
CopyCounts(c) ==
    /\ c.seen <= Len(sent) /\ c.row.last <= thisMonth
    /\ c.at = "loaded" => RowCounts(c.row, c.seen)
    /\ c.at = "counted" =>
          /\ c.row.sent \in 1 .. MonthlyLimit
          /\ NoneAfter(c.row, c.seen)
          /\ c.row.last = thisMonth =>
                Cardinality(CountedUpTo(thisMonth, c.seen)) < c.row.sent

WithinLimit(m) == Cardinality(CountedUpTo(m, Len(sent))) <= MonthlyLimit

MonthlyInv ==
    /\ MonthlyTypeOK
    /\ \A i \in DOMAIN sent : sent[i] <= thisMonth
    /\ counter.last <= thisMonth
    /\ RowCounts(counter, Len(sent))
    /\ \A k \in Copies : copy[k] # NoCopy => CopyCounts(copy[k])
    /\ \A m \in Nat : WithinLimit(m)

LEMMA SomePositionsFinite ==
    ASSUME NEW q \in Seq(Nat), NEW S, S \subseteq DOMAIN q
    PROVE  IsFiniteSet(S) /\ Cardinality(S) \in Nat
<1>1. Len(q) \in Nat /\ S \subseteq 1 .. Len(q)
  OBVIOUS
<1>2. IsFiniteSet(1 .. Len(q))
  BY <1>1, FS_Interval
<1>3. IsFiniteSet(S)
  BY <1>1, <1>2, FS_Subset
<1>4. QED
  BY <1>3, FS_CardinalityType

LEMMA CountedFinite ==
    ASSUME MonthlyTypeOK, NEW m, NEW n
    PROVE  /\ IsFiniteSet(CountedUpTo(m, n))
           /\ Cardinality(CountedUpTo(m, n)) \in Nat
BY SomePositionsFinite DEF MonthlyTypeOK, CountedUpTo

\* A step that appends a delivery or overwrites some counts no more of the
\* earlier ones than before.
OnlyFewer ==
    /\ MonthlyTypeOK /\ MonthlyTypeOK'
    /\ Len(sent) <= Len(sent')
    /\ \A i \in 1 .. Len(sent) : sent'[i] = sent[i]
    /\ uncounted \subseteq uncounted'

LEMMA CountedShrinks ==
    ASSUME OnlyFewer, NEW m, NEW n \in Nat, n <= Len(sent)
    PROVE  /\ CountedUpTo(m, n)' \subseteq CountedUpTo(m, n)
           /\ Cardinality(CountedUpTo(m, n)') <= Cardinality(CountedUpTo(m, n))
<1>1. CountedUpTo(m, n)' \subseteq CountedUpTo(m, n)
  BY SMTT(30) DEF OnlyFewer, MonthlyTypeOK, CountedUpTo
<1>2. QED
  BY <1>1, CountedFinite, FS_Subset DEF OnlyFewer

LEMMA RowStaysCounted ==
    ASSUME OnlyFewer, NEW row \in Counters, NEW n \in Nat, n <= Len(sent)
    PROVE  /\ NoneAfter(row, n) => NoneAfter(row, n)'
           /\ RowCounts(row, n) => RowCounts(row, n)'
<1>1. NoneAfter(row, n) => NoneAfter(row, n)'
  BY CountedShrinks DEF NoneAfter
<1>2. row.last \in Nat /\ row.sent \in Nat
  BY DEF Counters
<1>3. /\ Cardinality(CountedUpTo(row.last, n)) \in Nat
      /\ Cardinality(CountedUpTo(row.last, n)') \in Nat
  BY SomePositionsFinite DEF OnlyFewer, MonthlyTypeOK, CountedUpTo
<1>4. QED
  BY <1>1, <1>2, <1>3, CountedShrinks DEF RowCounts

LEMMA CopiesStayCounted ==
    ASSUME OnlyFewer, thisMonth' = thisMonth, NEW c, CopyCounts(c),
           c.row \in Counters, c.seen \in Nat
    PROVE  CopyCounts(c)'
<1>1. c.seen <= Len(sent') /\ c.row.last <= thisMonth'
  BY DEF CopyCounts, OnlyFewer, MonthlyTypeOK
<1>2. c.at = "loaded" => RowCounts(c.row, c.seen)'
  BY RowStaysCounted DEF CopyCounts
<1>3. ASSUME c.at = "counted"
      PROVE  /\ NoneAfter(c.row, c.seen)'
             /\ c.row.last = thisMonth' =>
                   Cardinality(CountedUpTo(thisMonth, c.seen)') < c.row.sent
  <2>1. NoneAfter(c.row, c.seen)'
    BY <1>3, RowStaysCounted DEF CopyCounts
  <2>2. Cardinality(CountedUpTo(thisMonth, c.seen)')
            <= Cardinality(CountedUpTo(thisMonth, c.seen))
    BY CountedShrinks DEF CopyCounts
  <2>3. /\ Cardinality(CountedUpTo(thisMonth, c.seen)) \in Nat
        /\ Cardinality(CountedUpTo(thisMonth, c.seen)') \in Nat
    BY SomePositionsFinite DEF OnlyFewer, MonthlyTypeOK, CountedUpTo
  <2>4. QED
    BY <1>3, <2>1, <2>2, <2>3 DEF CopyCounts, Counters
<1>4. QED
  BY <1>1, <1>2, <1>3 DEF CopyCounts

LEMMA MonthlyInvInit == MonthlyInit => MonthlyInv
<1> SUFFICES ASSUME MonthlyInit PROVE MonthlyInv
  OBVIOUS
<1>1. sent = <<>> /\ Len(sent) = 0 /\ DOMAIN sent = {}
  BY DEF MonthlyInit
<1>2. MonthlyTypeOK
  BY DEF MonthlyInit, MonthlyTypeOK, Counters
<1>3. \A m, n : CountedUpTo(m, n) = {} /\ Cardinality(CountedUpTo(m, n)) = 0
  BY <1>1, FS_EmptySet DEF CountedUpTo
<1>4. QED
  BY <1>1, <1>2, <1>3, MonthlyAssumption
  DEF MonthlyInit, MonthlyInv, RowCounts, NoneAfter, WithinLimit, NoCopy

\* No month has more than it had.
LEMMA MonthsStayWithin ==
    ASSUME OnlyFewer, Len(sent') = Len(sent), NEW m \in Nat, WithinLimit(m)
    PROVE  WithinLimit(m)'
<1>1. Len(sent) \in Nat
  BY DEF OnlyFewer, MonthlyTypeOK
<1>2. /\ Cardinality(CountedUpTo(m, Len(sent))) \in Nat
      /\ Cardinality(CountedUpTo(m, Len(sent))') \in Nat
  BY SomePositionsFinite DEF OnlyFewer, MonthlyTypeOK, CountedUpTo
<1>3. Cardinality(CountedUpTo(m, Len(sent))') <= Cardinality(CountedUpTo(m, Len(sent)))
  <2> DEFINE n == Len(sent)
  <2>1. n \in Nat /\ n <= Len(sent) /\ n' = n
    BY <1>1
  <2> HIDE DEF n
  <2>2. CountedUpTo(m, n)' \subseteq CountedUpTo(m, n)
    BY <2>1 DEF OnlyFewer, MonthlyTypeOK, CountedUpTo
  <2>3. IsFiniteSet(CountedUpTo(m, n))
    BY CountedFinite DEF OnlyFewer
  <2>4. Cardinality(CountedUpTo(m, n)') <= Cardinality(CountedUpTo(m, n))
    BY <2>2, <2>3, FS_Subset
  <2>5. QED
    BY <2>4 DEF n
<1>4. QED
  BY <1>2, <1>3, MonthlyAssumption DEF WithinLimit

\* An authorized delivery.  The copy has room for it.
LEMMA SaveCounterKeeps ==
    ASSUME MonthlyInv, NEW k \in Copies, SaveCounter(k)
    PROVE  MonthlyInv'
<1> DEFINE c == copy[k]
<1> DEFINE n == Len(sent)
<1>1. /\ c.at = "counted" /\ c.row \in Counters /\ c.seen \in Nat
      /\ n \in Nat
    BY DEF MonthlyInv, MonthlyTypeOK, SaveCounter, NoCopy
<1>2. CopyCounts(c)
  BY <1>1 DEF MonthlyInv, NoCopy
<1>3. /\ thisMonth' = thisMonth /\ thisMonth \in Nat
      /\ sent' = Append(sent, thisMonth)
      /\ uncounted' = uncounted \union (c.seen + 1 .. n)
      /\ counter' = [sent |-> c.row.sent, last |-> thisMonth]
      /\ copy' = [copy EXCEPT ![k] = NoCopy]
  BY <1>1 DEF SaveCounter, Overwrite, MonthlyInv, MonthlyTypeOK, Counters
<1>4. MonthlyTypeOK'
  BY <1>1, <1>3 DEF MonthlyInv, MonthlyTypeOK, Counters
<1>5. /\ sent' \in Seq(Nat) /\ Len(sent') = n + 1 /\ sent'[n + 1] = thisMonth
      /\ \A i \in 1 .. n : sent'[i] = sent[i]
      /\ DOMAIN sent' = 1 .. n + 1 /\ DOMAIN sent = 1 .. n
  BY <1>1, <1>3, <1>4 DEF MonthlyInv, MonthlyTypeOK
<1>6. OnlyFewer
  BY <1>1, <1>3, <1>4, <1>5 DEF OnlyFewer, MonthlyInv
<1>7. \A i \in DOMAIN sent' : sent'[i] <= thisMonth'
  BY <1>1, <1>3, <1>5 DEF MonthlyInv, MonthlyTypeOK
<1> DEFINE all(m) == {i \in DOMAIN sent' \ uncounted' : sent'[i] = m /\ i <= n + 1}
<1>8. \A m \in Nat : m > thisMonth => all(m) = {}
  BY <1>3, <1>4, <1>5, <1>7 DEF MonthlyTypeOK
<1>9. Cardinality(all(thisMonth)) <= c.row.sent
  <2> DEFINE old == CountedUpTo(thisMonth, c.seen)
  <2>1. all(thisMonth) \subseteq old \union {n + 1}
    BY <1>1, <1>3, <1>5 DEF CountedUpTo
  <2>2. IsFiniteSet(old) /\ Cardinality(old) \in Nat
    BY CountedFinite DEF MonthlyInv
  <2>3. Cardinality(old) < c.row.sent
    <3>1. CASE c.row.last = thisMonth
      BY <1>1, <1>2, <3>1 DEF CopyCounts
    <3>2. CASE c.row.last # thisMonth
      <4>1. thisMonth > c.row.last
        BY <1>1, <1>2, <1>3, <3>2 DEF CopyCounts, Counters
      <4>2. old = {}
        BY <1>1, <1>2, <1>3, <4>1 DEF CopyCounts, NoneAfter
      <4>3. Cardinality(old) = 0
        BY <4>2, FS_EmptySet
      <4>4. QED
        BY <1>1, <1>2, <4>3 DEF CopyCounts, Counters
    <3>3. QED
      BY <3>1, <3>2
  <2> HIDE DEF old, all
  <2>4. /\ IsFiniteSet(old \union {n + 1})
        /\ Cardinality(old \union {n + 1}) <= Cardinality(old) + 1
    <3>1. /\ IsFiniteSet(old \union {n + 1})
          /\ Cardinality(old \union {n + 1})
                = IF n + 1 \in old THEN Cardinality(old) ELSE Cardinality(old) + 1
      BY <2>2, FS_AddElement
    <3>2. QED
      BY <2>2, <3>1
  <2>5. /\ Cardinality(all(thisMonth)) <= Cardinality(old \union {n + 1})
        /\ IsFiniteSet(all(thisMonth))
    BY <2>1, <2>4, FS_Subset
  <2>6. Cardinality(all(thisMonth)) \in Nat /\ Cardinality(old \union {n + 1}) \in Nat
    BY <2>4, <2>5, FS_CardinalityType
  <2>7. QED
    BY <1>1, <2>2, <2>3, <2>4, <2>5, <2>6 DEF Counters
<1>10. \A m : CountedUpTo(m, Len(sent))' = all(m)
  BY <1>5 DEF CountedUpTo
<1>11. RowCounts(counter, Len(sent))'
  BY <1>3, <1>8, <1>9, <1>10 DEF RowCounts, NoneAfter
<1>12. ASSUME NEW j \in Copies, copy'[j] # NoCopy
       PROVE  CopyCounts(copy[j])'
  <2>1. copy'[j] = copy[j] /\ copy[j] # NoCopy
    BY <1>3, <1>12 DEF MonthlyInv, MonthlyTypeOK
  <2>2. CopyCounts(copy[j]) /\ copy[j].row \in Counters /\ copy[j].seen \in Nat
    BY <2>1 DEF MonthlyInv, MonthlyTypeOK
  <2> DEFINE d == copy[j]
  <2>3. CopyCounts(d) /\ d.row \in Counters /\ d.seen \in Nat /\ copy'[j] = d
    BY <2>1, <2>2
  <2>4. QED
    BY <1>3, <1>6, <2>3, CopiesStayCounted
<1>13. \A m \in Nat : WithinLimit(m)'
  <2> SUFFICES ASSUME NEW m \in Nat PROVE WithinLimit(m)'
    OBVIOUS
  <2>1. CASE m = thisMonth
    <3>1. Cardinality(all(m)) <= c.row.sent /\ c.row.sent <= MonthlyLimit
      BY <1>1, <1>2, <1>9, <2>1, MonthlyAssumption DEF CopyCounts
    <3>2. Cardinality(all(m)) \in Nat
      BY <1>5, SomePositionsFinite
    <3>3. Cardinality(all(m)) <= MonthlyLimit
      <4> HIDE DEF all
      <4>1. c.row.sent \in Nat
        BY <1>1 DEF Counters
      <4>2. QED
        BY <3>1, <3>2, <4>1, MonthlyAssumption
    <3>4. CountedUpTo(m, Len(sent))' = all(m)
      BY <1>10
    <3> HIDE DEF all
    <3>5. QED
      BY <3>3, <3>4 DEF WithinLimit
  <2>2. CASE m # thisMonth
    <3>1. all(m) \subseteq CountedUpTo(m, n)
      BY <1>1, <1>3, <1>5, <2>2 DEF CountedUpTo
    <3>2. /\ IsFiniteSet(CountedUpTo(m, n))
          /\ Cardinality(CountedUpTo(m, n)) \in Nat
          /\ Cardinality(CountedUpTo(m, n)) <= MonthlyLimit
      BY CountedFinite DEF MonthlyInv, WithinLimit
    <3>3. Cardinality(all(m)) \in Nat
      BY <1>5, SomePositionsFinite
    <3> HIDE DEF all
    <3>4. Cardinality(all(m)) <= Cardinality(CountedUpTo(m, n))
      BY <3>1, <3>2, FS_Subset
    <3>5. QED
      BY <1>10, <3>2, <3>3, <3>4, MonthlyAssumption DEF WithinLimit
  <2>3. QED
    BY <2>1, <2>2
<1>14. counter'.last <= thisMonth'
  BY <1>3
<1>15. QED
  BY <1>4, <1>7, <1>11, <1>12, <1>13, <1>14 DEF MonthlyInv

\* Somebody else's save of the row: it counts what it has read.
LEMMA SaveProfileKeeps ==
    ASSUME MonthlyInv, NEW k \in Copies, SaveProfile(k)
    PROVE  MonthlyInv'
<1> PICK c : c = copy[k]
  OBVIOUS
<1> PICK n : n = Len(sent)
  OBVIOUS
<1>1. /\ c.at = "loaded" /\ c.row \in Counters /\ c.seen \in Nat
      /\ n \in Nat
    BY DEF MonthlyInv, MonthlyTypeOK, SaveProfile, NoCopy
<1>2. CopyCounts(c)
  BY <1>1 DEF MonthlyInv, NoCopy
<1>3. /\ thisMonth' = thisMonth /\ sent' = sent
      /\ uncounted' = uncounted \union (c.seen + 1 .. n)
      /\ counter' = c.row
      /\ copy' = [copy EXCEPT ![k] = NoCopy]
  BY DEF SaveProfile, Overwrite
<1>4. MonthlyTypeOK'
  BY <1>1, <1>3 DEF MonthlyInv, MonthlyTypeOK
<1>5. OnlyFewer
  BY <1>1, <1>3, <1>4 DEF OnlyFewer, MonthlyInv
<1>6. RowCounts(counter, Len(sent))'
  <2>1. RowCounts(c.row, c.seen)'
    BY <1>1, <1>2, <1>5, RowStaysCounted DEF CopyCounts
  <2>2. \A m : CountedUpTo(m, Len(sent))' = CountedUpTo(m, c.seen)'
    <3>1. \A i \in DOMAIN sent \ uncounted' : i <= c.seen
      BY <1>1, <1>3 DEF MonthlyInv, MonthlyTypeOK
    <3>2. \A i \in DOMAIN sent : i <= n
      BY <1>1 DEF MonthlyInv, MonthlyTypeOK
    <3>3. QED
      BY <1>3, <3>1, <3>2 DEF CountedUpTo
  <2>3. QED
    BY <1>3, <2>1, <2>2 DEF RowCounts, NoneAfter
<1>7. ASSUME NEW j \in Copies, copy'[j] # NoCopy
      PROVE  CopyCounts(copy[j])'
  <2> DEFINE d == copy[j]
  <2>1. copy'[j] = d /\ d # NoCopy
    BY <1>3, <1>7 DEF MonthlyInv, MonthlyTypeOK
  <2>2. CopyCounts(d) /\ d.row \in Counters /\ d.seen \in Nat
    BY <2>1 DEF MonthlyInv, MonthlyTypeOK
  <2>3. QED
    BY <1>3, <1>5, <2>1, <2>2, CopiesStayCounted
<1>8. \A m \in Nat : WithinLimit(m)'
  BY <1>3, <1>5, MonthsStayWithin DEF MonthlyInv
<1>9. counter'.last <= thisMonth' /\ \A i \in DOMAIN sent' : sent'[i] <= thisMonth'
  BY <1>2, <1>3 DEF CopyCounts, MonthlyInv
<1>10. QED
  BY <1>4, <1>6, <1>7, <1>8, <1>9 DEF MonthlyInv

\* A copy that is read counts like the row, and authorize finds room.
LEMMA CopyStepKeeps ==
    ASSUME MonthlyInv, NEW k \in Copies, LoadProfile(k) \/ CountSent(k)
    PROVE  MonthlyInv'
<1>1. /\ UNCHANGED <<thisMonth, counter, sent, uncounted>>
      /\ \E d : copy' = [copy EXCEPT ![k] = d]
  BY DEF LoadProfile, CountSent
<1>2. MonthlyTypeOK /\ Len(sent) \in Nat
  BY DEF MonthlyInv, MonthlyTypeOK
<1>3. /\ copy'[k] \in {NoCopy} \union
            [at : {"loaded", "counted"}, row : Counters, seen : Nat]
      /\ copy'[k] # NoCopy => CopyCounts(copy'[k])
  <2>1. CASE LoadProfile(k)
    <3>1. copy'[k] = [at |-> "loaded", row |-> counter, seen |-> Len(sent)]
      BY <1>2, <2>1 DEF LoadProfile, MonthlyTypeOK
    <3>2. copy'[k].at = "loaded" /\ copy'[k].row = counter /\ copy'[k].seen = Len(sent)
      BY <3>1
    <3>3. CopyCounts(copy'[k])
      BY <1>2, <3>2 DEF MonthlyInv, CopyCounts
    <3>4. QED
      BY <1>2, <3>1, <3>3 DEF MonthlyTypeOK
  <2>2. CASE CountSent(k)
    <3> DEFINE c == copy[k]
    <3> DEFINE d == copy'[k]
    <3>1. c.at = "loaded" /\ c.row \in Counters /\ c.seen \in Nat /\ CopyCounts(c)
      BY <2>2 DEF CountSent, NoCopy, MonthlyInv, MonthlyTypeOK
    <3>2. SentThisMonth(c.row) \in Nat
      BY <3>1 DEF SentThisMonth, Counters
    <3>3. CASE SentThisMonth(c.row) >= MonthlyLimit
      BY <1>2, <2>2, <3>3 DEF CountSent, MonthlyTypeOK
    <3>4. CASE ~(SentThisMonth(c.row) >= MonthlyLimit)
      <4>1. d = [c EXCEPT !.at = "counted", !.row.sent = SentThisMonth(c.row) + 1]
        BY <1>2, <2>2, <3>4 DEF CountSent, MonthlyTypeOK
      <4>2. c \in [at : {"loaded", "counted"}, row : Counters, seen : Nat]
        BY <1>2, <3>1 DEF MonthlyTypeOK, NoCopy
      <4>3. /\ d \in [at : {"loaded", "counted"}, row : Counters, seen : Nat]
            /\ d.at = "counted" /\ d.row.last = c.row.last /\ d.seen = c.seen
            /\ d.row.sent = SentThisMonth(c.row) + 1
        <5>1. d = [at |-> "counted", seen |-> c.seen,
                   row |-> [sent |-> SentThisMonth(c.row) + 1, last |-> c.row.last]]
          BY <4>1, <4>2 DEF Counters
        <5>2. QED
          BY <3>1, <3>2, <5>1 DEF Counters
      <4>4. d.row.sent \in 1 .. MonthlyLimit
        BY <3>2, <3>4, <4>3, MonthlyAssumption
      <4>5. c.row.last = thisMonth =>
               Cardinality(CountedUpTo(thisMonth, c.seen)) < d.row.sent
        <5>1. SUFFICES ASSUME c.row.last = thisMonth
                       PROVE  Cardinality(CountedUpTo(thisMonth, c.seen)) < d.row.sent
          OBVIOUS
        <5>2. Cardinality(CountedUpTo(thisMonth, c.seen)) <= c.row.sent
          BY <3>1, <5>1 DEF CopyCounts, RowCounts
        <5>3. Cardinality(CountedUpTo(thisMonth, c.seen)) \in Nat
          BY <1>2, CountedFinite
        <5>4. SentThisMonth(c.row) = c.row.sent
          BY <1>2, <5>1 DEF SentThisMonth, MonthlyTypeOK
        <5>5. QED
          BY <3>1, <4>3, <5>2, <5>3, <5>4 DEF Counters
      <4>6. CopyCounts(d)
        BY <3>1, <4>3, <4>4, <4>5 DEF CopyCounts, RowCounts, NoneAfter
      <4>7. QED
        BY <4>3, <4>6
    <3>5. QED
      BY <3>3, <3>4
  <2>3. QED
    BY <2>1, <2>2
<1>4. MonthlyTypeOK'
  BY <1>1, <1>2, <1>3 DEF MonthlyTypeOK
<1>5. ASSUME NEW j \in Copies, copy'[j] # NoCopy
      PROVE  CopyCounts(copy'[j])
  BY <1>1, <1>2, <1>3, <1>5 DEF MonthlyInv, MonthlyTypeOK
<1>6. \A j \in Copies : copy'[j] # NoCopy => CopyCounts(copy[j])'
  BY <1>1, <1>5 DEF CopyCounts, RowCounts, NoneAfter, CountedUpTo
<1>7. QED
  BY <1>1, <1>4, <1>6 DEF MonthlyInv, RowCounts, NoneAfter, CountedUpTo, WithinLimit

LEMMA MonthlyInvNext == MonthlyInv /\ [MonthlyNext]_monthlyVars => MonthlyInv'
<1> SUFFICES ASSUME MonthlyInv, [MonthlyNext]_monthlyVars
             PROVE  MonthlyInv'
  OBVIOUS
<1>1. ASSUME NEW k \in Copies, LoadProfile(k) \/ CountSent(k)
      PROVE  MonthlyInv'
  BY <1>1, CopyStepKeeps
<1>2. ASSUME NEW k \in Copies, SaveCounter(k)
      PROVE  MonthlyInv'
  BY <1>2, SaveCounterKeeps
<1>3. ASSUME NEW k \in Copies, SaveProfile(k)
      PROVE  MonthlyInv'
  BY <1>3, SaveProfileKeeps
<1>4. CASE TurnMonth
  <2>1. /\ thisMonth' = thisMonth + 1 /\ thisMonth \in Nat
        /\ UNCHANGED <<counter, copy, sent, uncounted>>
    BY <1>4 DEF TurnMonth, MonthlyInv, MonthlyTypeOK
  <2>2. MonthlyTypeOK'
    BY <2>1 DEF MonthlyInv, MonthlyTypeOK
  <2>3. ASSUME NEW j \in Copies, copy[j] # NoCopy
        PROVE  CopyCounts(copy[j])'
    <3>1. CopyCounts(copy[j]) /\ copy[j].row.last \in Nat
      BY <2>3 DEF MonthlyInv, MonthlyTypeOK, Counters
    <3>2. copy'[j] = copy[j] /\ copy[j].row.last # thisMonth'
      BY <2>1, <3>1 DEF CopyCounts
    <3>3. QED
      BY <2>1, <3>1, <3>2 DEF CopyCounts, RowCounts, NoneAfter, CountedUpTo
  <2>4. /\ counter'.last <= thisMonth'
        /\ \A i \in DOMAIN sent' : sent'[i] <= thisMonth'
    BY <2>1 DEF MonthlyInv, MonthlyTypeOK, Counters
  <2>5. QED
    BY <2>1, <2>2, <2>3, <2>4
    DEF MonthlyInv, RowCounts, NoneAfter, CountedUpTo, WithinLimit
<1>5. CASE UNCHANGED monthlyVars
  BY <1>5, ZenonT(30) DEF monthlyVars, MonthlyInv, MonthlyTypeOK, CopyCounts, RowCounts,
              NoneAfter, CountedUpTo, WithinLimit
<1>6. QED
  BY <1>1, <1>2, <1>3, <1>4, <1>5 DEF MonthlyNext

\* In no month is more sent than the limit allows, but for deliveries that a
\* save has overwritten: for any limit, any number of copies at a time, and
\* wherever the month turns.
THEOREM LimitOfTheMonth == MonthlySpec => []MonthlyKept
<1>1. MonthlyInit => MonthlyInv
  BY MonthlyInvInit
<1>2. MonthlyInv /\ [MonthlyNext]_monthlyVars => MonthlyInv'
  BY MonthlyInvNext
<1>3. MonthlyInv => MonthlyKept
  <2> SUFFICES ASSUME MonthlyInv, NEW m \in 1 .. MaxMonths
               PROVE  Cardinality({i \in DOMAIN sent \ uncounted : sent[i] = m})
                         <= MonthlyLimit
    BY DEF MonthlyKept
  <2>1. CountedUpTo(m, Len(sent)) = {i \in DOMAIN sent \ uncounted : sent[i] = m}
    BY DEF CountedUpTo, MonthlyInv, MonthlyTypeOK
  <2>2. m \in Nat
    OBVIOUS
  <2>3. QED
    BY <2>1, <2>2 DEF MonthlyInv, WithinLimit
<1>4. QED
  BY <1>1, <1>2, <1>3, PTL DEF MonthlySpec

(***************************************************************************)
(* The task queue.                                                         *)
(***************************************************************************)

Holding ==
    [at : {"run"}, m : Messages]
      \union [at : {"write", "settle"}, m : Messages, outcome : Outcomes]

QueueTypeOK ==
    /\ unsent \subseteq Messages /\ lost \subseteq Messages
    /\ ready \in Seq(Messages)
    /\ consumer \in [Consumers -> {Stopped, Waiting} \union Holding]

Queued(m) == \E i \in DOMAIN ready : ready[i] = m
Holds(k, m) == consumer[k] \notin {Stopped, Waiting} /\ consumer[k].m = m
Away(m) == m \in unsent \/ m \in lost

QueuedOnce == \A i, j \in DOMAIN ready : ready[i] = ready[j] => i = j

\* Two places never have the same message, and one has each message that was
\* taken.
Apart ==
    /\ \A m \in Messages : ~(m \in unsent /\ m \in lost)
    /\ \A m \in Messages : Away(m) => m \notin settled /\ ~Queued(m)
    /\ \A m \in Messages : m \in settled => ~Queued(m)
    /\ \A k \in Consumers, m \in Messages :
          Holds(k, m) => ~Away(m) /\ m \notin settled /\ ~Queued(m)
    /\ \A k, l \in Consumers, m \in Messages : Holds(k, m) /\ Holds(l, m) => k = l
Somewhere ==
    \A m \in Messages :
        Away(m) \/ m \in settled \/ Queued(m) \/ \E k \in Consumers : Holds(k, m)

QueueInv == QueueTypeOK /\ QueuedOnce /\ Apart /\ Somewhere

LEMMA QueueInvInit == TaskQueueInit => QueueInv
BY DEF TaskQueueInit, QueueInv, QueueTypeOK, QueuedOnce, Apart, Somewhere, Queued,
       Holds, Away

\* A message at the end, at the front, and taken from the front.
LEMMA AtTheEnd ==
    ASSUME NEW m \in Messages, ready \in Seq(Messages), QueuedOnce, ~Queued(m),
           ready' = Append(ready, m)
    PROVE  /\ ready' \in Seq(Messages) /\ QueuedOnce'
           /\ \A o : Queued(o)' <=> Queued(o) \/ o = m
<1>1. /\ Len(ready) \in Nat /\ DOMAIN ready = 1 .. Len(ready)
      /\ DOMAIN ready' = 1 .. Len(ready) + 1
      /\ ready'[Len(ready) + 1] = m
      /\ \A i \in 1 .. Len(ready) : ready'[i] = ready[i]
  OBVIOUS
<1>2. \A o : Queued(o)' <=> Queued(o) \/ o = m
  BY <1>1 DEF Queued
<1>3. QueuedOnce'
  BY <1>1 DEF QueuedOnce, Queued
<1>4. QED
  BY <1>2, <1>3

LEMMA AtTheFront ==
    ASSUME NEW m \in Messages, ready \in Seq(Messages), QueuedOnce, ~Queued(m),
           ready' = <<m>> \o ready
    PROVE  /\ ready' \in Seq(Messages) /\ QueuedOnce'
           /\ \A o : Queued(o)' <=> Queued(o) \/ o = m
<1>1. /\ Len(ready) \in Nat /\ DOMAIN ready = 1 .. Len(ready)
      /\ ready' \in Seq(Messages)
      /\ DOMAIN ready' = 1 .. Len(ready) + 1
      /\ ready'[1] = m
      /\ \A i \in 2 .. Len(ready) + 1 : ready'[i] = ready[i - 1]
  OBVIOUS
<1>2. \A o : Queued(o)' <=> Queued(o) \/ o = m
  <2> TAKE o
  <2>1. ASSUME NEW i \in DOMAIN ready, ready[i] = o
        PROVE  Queued(o)'
    <3>1. i + 1 \in DOMAIN ready' /\ ready'[i + 1] = ready[i]
      BY <1>1
    <3>2. QED
      BY <2>1, <3>1 DEF Queued
  <2>2. ASSUME NEW i \in DOMAIN ready', ready'[i] = o, i # 1
        PROVE  Queued(o)
    <3>1. i - 1 \in DOMAIN ready /\ ready[i - 1] = ready'[i]
      BY <1>1, <2>2
    <3>2. QED
      BY <2>2, <3>1 DEF Queued
  <2>3. Queued(m)'
    <3>1. 1 \in DOMAIN ready'
      BY <1>1
    <3>2. QED
      BY <1>1, <3>1 DEF Queued
  <2>4. Queued(o) => Queued(o)'
    BY <2>1 DEF Queued
  <2>5. Queued(o)' => Queued(o) \/ o = m
    <3>1. ASSUME NEW i \in DOMAIN ready', ready'[i] = o
          PROVE  Queued(o) \/ o = m
      BY <1>1, <2>2, <3>1
    <3>2. QED
      BY <3>1 DEF Queued
  <2>6. QED
    BY <2>3, <2>4, <2>5
<1>3. QueuedOnce'
  BY <1>1 DEF QueuedOnce, Queued
<1>4. QED
  BY <1>1, <1>2, <1>3

LEMMA FromTheFront ==
    ASSUME ready \in Seq(Messages), ready # <<>>, QueuedOnce, ready' = Tail(ready)
    PROVE  /\ ready' \in Seq(Messages) /\ QueuedOnce'
           /\ Head(ready) \in Messages /\ Queued(Head(ready))
           /\ \A o : Queued(o)' <=> Queued(o) /\ o # Head(ready)
<1>1. /\ Len(ready) \in Nat /\ Len(ready) # 0 /\ DOMAIN ready = 1 .. Len(ready)
      /\ ready' \in Seq(Messages)
      /\ DOMAIN ready' = 1 .. Len(ready) - 1
      /\ Head(ready) = ready[1]
      /\ \A i \in 1 .. Len(ready) - 1 : ready'[i] = ready[i + 1]
  OBVIOUS
<1>2. \A o : Queued(o)' <=> Queued(o) /\ o # Head(ready)
  <2> TAKE o
  <2>1. ASSUME NEW i \in DOMAIN ready, ready[i] = o, o # Head(ready)
        PROVE  Queued(o)'
    <3>1. i - 1 \in DOMAIN ready' /\ ready'[i - 1] = ready[i]
      BY <1>1, <2>1
    <3>2. QED
      BY <2>1, <3>1 DEF Queued
  <2>2. ASSUME NEW i \in DOMAIN ready', ready'[i] = o
        PROVE  Queued(o) /\ o # Head(ready)
    <3>1. /\ i + 1 \in DOMAIN ready /\ ready'[i] = ready[i + 1]
          /\ ready[i + 1] # ready[1]
      BY <1>1 DEF QueuedOnce
    <3>2. QED
      BY <1>1, <2>2, <3>1 DEF Queued
  <2>3. Queued(o) /\ o # Head(ready) => Queued(o)'
    BY <2>1 DEF Queued
  <2>4. Queued(o)' => Queued(o) /\ o # Head(ready)
    BY <2>2 DEF Queued
  <2>5. QED
    BY <2>3, <2>4
<1>3. QueuedOnce'
  BY <1>1 DEF QueuedOnce
<1>4. QED
  BY <1>1, <1>2, <1>3 DEF Queued

LEMMA HoldingHas ==
    ASSUME QueueTypeOK, NEW k \in Consumers, consumer[k] \notin {Stopped, Waiting}
    PROVE  /\ consumer[k] \in Holding /\ consumer[k].m \in Messages
           /\ Holds(k, consumer[k].m)
BY DEF QueueTypeOK, Holding, Holds

\* What a step does to one consumer, as the others see it.
LEMMA OneConsumer ==
    ASSUME QueueTypeOK, NEW k \in Consumers,
           NEW d \in {Stopped, Waiting} \union Holding,
           consumer' = [consumer EXCEPT ![k] = d]
    PROVE  /\ consumer' \in [Consumers -> {Stopped, Waiting} \union Holding]
           /\ \A j \in Consumers, m \in Messages :
                 j # k => (Holds(j, m)' <=> Holds(j, m))
           /\ d \in {Stopped, Waiting} => \A m \in Messages : ~Holds(k, m)'
           /\ d \notin {Stopped, Waiting} =>
                 \A m \in Messages : Holds(k, m)' <=> m = d.m
<1>1. consumer'[k] = d /\ \A j \in Consumers : j # k => consumer'[j] = consumer[j]
  BY DEF QueueTypeOK
<1>2. consumer' \in [Consumers -> {Stopped, Waiting} \union Holding]
  BY DEF QueueTypeOK
<1>3. QED
  BY <1>1, <1>2 DEF Holds

LEMMA PublishKeeps ==
    ASSUME QueueInv, NEW m \in Messages, Publish(m) PROVE QueueInv'
<1>1. m \in unsent /\ unsent' = unsent \ {m} /\ UNCHANGED <<consumer, settled>>
  BY DEF Publish
<1>2. QueueTypeOK /\ QueuedOnce /\ Apart /\ Somewhere
  BY DEF QueueInv
<1>3. m \notin lost /\ m \notin settled /\ ~Queued(m)
      /\ \A k \in Consumers : ~Holds(k, m)
  BY <1>1, <1>2 DEF Apart, Away
<1>4. \A k \in Consumers, o \in Messages : Holds(k, o)' <=> Holds(k, o)
  BY <1>1 DEF Holds
<1>5. CASE bound
  <2>1. ready' = Append(ready, m) /\ lost' = lost
    BY <1>5 DEF Publish
  <2>2. /\ ready' \in Seq(Messages) /\ QueuedOnce'
        /\ \A o : Queued(o)' <=> Queued(o) \/ o = m
    BY <1>2, <1>3, <2>1, AtTheEnd DEF QueueTypeOK
  <2>3. \A o : Away(o)' <=> Away(o) /\ o # m
    BY <1>1, <1>3, <2>1 DEF Away
  <2>4. QueueTypeOK'
    BY <1>1, <1>2, <2>1, <2>2 DEF QueueTypeOK
  <2>5. Apart'
    BY <1>1, <1>2, <1>3, <1>4, <2>1, <2>2, <2>3 DEF Apart
  <2>6. Somewhere'
    BY <1>1, <1>2, <1>4, <2>2, <2>3 DEF Somewhere
  <2>7. QED
    BY <2>2, <2>4, <2>5, <2>6 DEF QueueInv
<1>6. CASE ~bound
  <2>1. ready' = ready /\ lost' = lost \union {m}
    BY <1>6 DEF Publish
  <2>2. QueuedOnce' /\ \A o : Queued(o)' <=> Queued(o)
    BY <1>2, <2>1 DEF Queued, QueuedOnce
  <2>3. \A o : Away(o)' <=> Away(o)
    BY <1>1, <2>1 DEF Away
  <2>4. QueueTypeOK'
    BY <1>1, <1>2, <2>1 DEF QueueTypeOK
  <2>5. Apart'
    BY <1>1, <1>2, <1>4, <2>1, <2>2, <2>3 DEF Apart
  <2>6. Somewhere'
    BY <1>1, <1>2, <1>4, <2>2, <2>3 DEF Somewhere
  <2>7. QED
    BY <2>2, <2>4, <2>5, <2>6 DEF QueueInv
<1>7. QED
  BY <1>5, <1>6

LEMMA DeliverKeeps ==
    ASSUME QueueInv, NEW k \in Consumers, Deliver(k) PROVE QueueInv'
<1>1. /\ consumer[k] = Waiting /\ ready # <<>> /\ ready' = Tail(ready)
      /\ UNCHANGED <<unsent, lost, settled>>
  BY DEF Deliver
<1>2. QueueTypeOK /\ QueuedOnce /\ Apart /\ Somewhere
  BY DEF QueueInv
<1>3. PICK m : m = Head(ready)
  OBVIOUS
<1>4. /\ ready' \in Seq(Messages) /\ QueuedOnce' /\ m \in Messages /\ Queued(m)
      /\ \A o : Queued(o)' <=> Queued(o) /\ o # m
  BY <1>1, <1>2, <1>3, FromTheFront DEF QueueTypeOK
<1> PICK d : d = [at |-> "run", m |-> m]
  OBVIOUS
<1>5. d \in Holding /\ d \notin {Stopped, Waiting} /\ d.m = m
  BY <1>4 DEF Holding, Stopped, Waiting
<1>6. consumer' = [consumer EXCEPT ![k] = d]
  BY <1>3 DEF Deliver
<1>7. /\ consumer' \in [Consumers -> {Stopped, Waiting} \union Holding]
      /\ \A j \in Consumers, o \in Messages : j # k => (Holds(j, o)' <=> Holds(j, o))
      /\ \A o \in Messages : Holds(k, o)' <=> o = m
  <2>1. d \in {Stopped, Waiting} \union Holding
    BY <1>5
  <2>2. /\ consumer' \in [Consumers -> {Stopped, Waiting} \union Holding]
        /\ \A j \in Consumers, o \in Messages : j # k => (Holds(j, o)' <=> Holds(j, o))
        /\ d \notin {Stopped, Waiting} =>
              \A o \in Messages : Holds(k, o)' <=> o = d.m
    BY <1>2, <1>6, <2>1, OneConsumer
  <2>3. QED
    BY <1>5, <2>2
<1>8. \A o \in Messages : ~Holds(k, o)
  BY <1>1 DEF Holds
<1>9. \A o : Away(o)' <=> Away(o)
  BY <1>1 DEF Away
<1>10. Apart'
  BY <1>1, <1>2, <1>4, <1>7, <1>9 DEF Apart
<1>11. Somewhere'
  BY <1>1, <1>2, <1>4, <1>7, <1>8, <1>9 DEF Somewhere
<1>12. QED
  BY <1>1, <1>2, <1>4, <1>7, <1>10, <1>11 DEF QueueInv, QueueTypeOK

\* A message that is acknowledged or rejected.
LEMMA SettledKeeps ==
    ASSUME QueueInv, NEW k \in Consumers, consumer[k] \notin {Stopped, Waiting},
           Settled(k), UNCHANGED <<unsent, lost, ready>>
    PROVE  QueueInv'
<1>1. QueueTypeOK /\ QueuedOnce /\ Apart /\ Somewhere
  BY DEF QueueInv
<1>2. PICK m : m = consumer[k].m
  OBVIOUS
<1>3. m \in Messages /\ Holds(k, m) /\ \A o \in Messages : Holds(k, o) => o = m
  BY <1>1, <1>2, HoldingHas DEF Holds
<1>4. settled' = settled \union {m} /\ consumer' = [consumer EXCEPT ![k] = Waiting]
  BY <1>2 DEF Settled
<1>5. /\ consumer' \in [Consumers -> {Stopped, Waiting} \union Holding]
      /\ \A j \in Consumers, o \in Messages : j # k => (Holds(j, o)' <=> Holds(j, o))
      /\ \A o \in Messages : ~Holds(k, o)'
  BY <1>1, <1>4, OneConsumer
<1>6. QueuedOnce' /\ \A o : (Queued(o)' <=> Queued(o)) /\ (Away(o)' <=> Away(o))
  BY <1>1 DEF Queued, QueuedOnce, Away
<1>7. Apart'
  BY <1>1, <1>3, <1>4, <1>5, <1>6 DEF Apart
<1>8. Somewhere'
  BY <1>1, <1>3, <1>4, <1>5, <1>6 DEF Somewhere
<1>9. QED
  BY <1>1, <1>5, <1>6, <1>7, <1>8 DEF QueueInv, QueueTypeOK

\* A consumer that stops gives its message back.
LEMMA RequeuedKeeps ==
    ASSUME QueueInv, NEW k \in Consumers, consumer[k] # Stopped, Requeued(k),
           UNCHANGED <<unsent, lost, settled>>
    PROVE  QueueInv'
<1>1. QueueTypeOK /\ QueuedOnce /\ Apart /\ Somewhere
  BY DEF QueueInv
<1>2. consumer' = [consumer EXCEPT ![k] = Stopped]
  BY DEF Requeued
<1>3. /\ consumer' \in [Consumers -> {Stopped, Waiting} \union Holding]
      /\ \A j \in Consumers, o \in Messages : j # k => (Holds(j, o)' <=> Holds(j, o))
      /\ \A o \in Messages : ~Holds(k, o)'
  BY <1>1, <1>2, OneConsumer
<1>4. \A o : Away(o)' <=> Away(o)
  BY DEF Away
<1>5. CASE consumer[k] = Waiting
  <2>1. ready' = ready /\ \A o \in Messages : ~Holds(k, o)
    BY <1>5 DEF Requeued, Holds
  <2>2. QueuedOnce' /\ \A o : Queued(o)' <=> Queued(o)
    BY <1>1, <2>1 DEF Queued, QueuedOnce
  <2>3. Apart'
    BY <1>1, <1>3, <1>4, <2>2 DEF Apart
  <2>4. Somewhere'
    BY <1>1, <1>3, <1>4, <2>1, <2>2 DEF Somewhere
  <2>5. QED
    BY <1>1, <1>3, <2>1, <2>2, <2>3, <2>4 DEF QueueInv, QueueTypeOK
<1>6. CASE consumer[k] # Waiting
  <2>1. PICK m : m = consumer[k].m
    OBVIOUS
  <2>2. m \in Messages /\ Holds(k, m) /\ \A o \in Messages : Holds(k, o) => o = m
    BY <1>1, <1>6, <2>1, HoldingHas DEF Holds
  <2>3. ready' = <<m>> \o ready
    BY <1>6, <2>1 DEF Requeued
  <2>4. ~Queued(m) /\ m \notin settled /\ ~Away(m)
        /\ \A j \in Consumers : Holds(j, m) => j = k
    BY <1>1, <2>2 DEF Apart
  <2>5. /\ ready' \in Seq(Messages) /\ QueuedOnce'
        /\ \A o : Queued(o)' <=> Queued(o) \/ o = m
    BY <1>1, <2>2, <2>3, <2>4, AtTheFront DEF QueueTypeOK
  <2>6. Apart'
    BY <1>1, <1>3, <1>4, <2>2, <2>4, <2>5 DEF Apart
  <2>7. Somewhere'
    BY <1>1, <1>3, <1>4, <2>2, <2>5 DEF Somewhere
  <2>8. QED
    BY <1>1, <1>3, <2>5, <2>6, <2>7 DEF QueueInv, QueueTypeOK
<1>7. QED
  BY <1>5, <1>6

\* A consumer that goes on with its message, or begins to wait.
LEMMA SamePlacesKeep ==
    ASSUME QueueInv, UNCHANGED <<unsent, lost, settled, ready>>,
           NEW k \in Consumers, NEW d \in {Waiting} \union Holding,
           consumer' = [consumer EXCEPT ![k] = d],
           \/ consumer[k] = Stopped /\ d = Waiting
           \/ /\ consumer[k] \notin {Stopped, Waiting} /\ d \notin {Stopped, Waiting}
              /\ d.m = consumer[k].m
    PROVE  QueueInv'
<1>1. QueueTypeOK /\ QueuedOnce /\ Apart /\ Somewhere
  BY DEF QueueInv
<1>2. /\ consumer' \in [Consumers -> {Stopped, Waiting} \union Holding]
      /\ \A j \in Consumers, o \in Messages : Holds(j, o)' <=> Holds(j, o)
  BY <1>1, OneConsumer, ZenonT(30) DEF Holds
<1>3. QueuedOnce' /\ \A o : (Queued(o)' <=> Queued(o)) /\ (Away(o)' <=> Away(o))
  BY <1>1 DEF Queued, QueuedOnce, Away
<1>4. Apart'
  BY <1>1, <1>2, <1>3 DEF Apart
<1>5. Somewhere'
  BY <1>1, <1>2, <1>3 DEF Somewhere
<1>6. QED
  BY <1>1, <1>2, <1>3, <1>4, <1>5 DEF QueueInv, QueueTypeOK

LEMMA QueueInvNext == QueueInv /\ [TaskQueueNext]_taskQueueVars => QueueInv'
<1> SUFFICES ASSUME QueueInv, [TaskQueueNext]_taskQueueVars
             PROVE  QueueInv'
  OBVIOUS
<1>1. ASSUME NEW m \in Messages, Publish(m)
      PROVE  QueueInv'
  BY <1>1, PublishKeeps
<1>2. ASSUME NEW k \in Consumers, StartConsumer(k)
      PROVE  QueueInv'
  BY <1>2, SamePlacesKeep DEF StartConsumer
<1>3. ASSUME NEW k \in Consumers, Deliver(k)
      PROVE  QueueInv'
  BY <1>3, DeliverKeeps
<1>4. ASSUME NEW k \in Consumers, Discard(k) \/ SettleMessage(k)
      PROVE  QueueInv'
  BY <1>4, SettledKeeps DEF Discard, SettleMessage, Stopped, Waiting
<1>5. ASSUME NEW k \in Consumers, Choke(k) \/ FailConsumer(k)
      PROVE  QueueInv'
  BY <1>5, RequeuedKeeps DEF Choke, FailConsumer, Stopped, Waiting
<1>6. ASSUME NEW k \in Consumers, NEW outcome \in Outcomes, RunTask(k, outcome)
      PROVE  QueueInv'
  <2>1. PICK d : d = [at |-> "write", m |-> consumer[k].m, outcome |-> outcome]
    OBVIOUS
  <2>2. consumer[k] \notin {Stopped, Waiting} /\ consumer[k].m \in Messages
    BY <1>6, HoldingHas DEF RunTask, QueueInv, Stopped, Waiting
  <2>3. d \in Holding /\ d \notin {Stopped, Waiting} /\ d.m = consumer[k].m
    BY <2>1, <2>2 DEF Holding, Stopped, Waiting
  <2>4. consumer' = [consumer EXCEPT ![k] = d]
    BY <1>6, <2>1 DEF RunTask
  <2>5. QED
    BY <1>6, <2>2, <2>3, <2>4, SamePlacesKeep DEF RunTask
<1>7. ASSUME NEW k \in Consumers, WriteResult(k)
      PROVE  QueueInv'
  <2>1. PICK d : d = [consumer[k] EXCEPT !.at = "settle"]
    OBVIOUS
  <2>2. consumer[k] \notin {Stopped, Waiting} /\ consumer[k] \in Holding
    BY <1>7, HoldingHas DEF WriteResult, QueueInv, Stopped, Waiting
  <2>3. consumer[k] \in [at : {"write", "settle"}, m : Messages, outcome : Outcomes]
    BY <1>7, <2>2 DEF WriteResult, Holding
  <2>4. d \in Holding /\ d \notin {Stopped, Waiting} /\ d.m = consumer[k].m
    BY <2>1, <2>3 DEF Holding, Stopped, Waiting
  <2>5. consumer' = [consumer EXCEPT ![k] = d]
    BY <1>7, <2>1 DEF WriteResult
  <2>6. QED
    BY <1>7, <2>2, <2>4, <2>5, SamePlacesKeep DEF WriteResult
<1>8. CASE UNCHANGED taskQueueVars
  BY <1>8 DEF taskQueueVars, QueueInv, QueueTypeOK, QueuedOnce, Apart, Somewhere,
              Queued, Holds, Away
<1>9. QED
  BY <1>1, <1>2, <1>3, <1>4, <1>5, <1>6, <1>7, <1>8 DEF TaskQueueNext, ConsumerStep

\* The three places of a message, as OnePlace counts them.
LEMMA CountedOnce ==
    ASSUME NEW S, \A x, y \in S : x = y
    PROVE  Cardinality(S) = IF S = {} THEN 0 ELSE 1
<1>1. CASE S = {}
  BY <1>1, FS_EmptySet
<1>2. CASE S # {}
  <2>1. PICK x : S = {} \union {x}
    BY <1>2
  <2>2. IsFiniteSet({}) /\ Cardinality({}) = 0
    BY FS_EmptySet
  <2>3. Cardinality({} \union {x}) = 1
    BY <2>2, FS_AddElement
  <2>4. QED
    BY <1>2, <2>1, <2>3
<1>3. QED
  BY <1>1, <1>2

\* Whatever consumers do and wherever they fail, a message the queue has taken
\* is in exactly one place: for any messages and consumers, and however often
\* one fails.
THEOREM MessageInOnePlace == TaskQueueSpec => []OnePlace
<1>1. TaskQueueInit => QueueInv
  BY QueueInvInit
<1>2. QueueInv /\ [TaskQueueNext]_taskQueueVars => QueueInv'
  BY QueueInvNext
<1>3. QueueInv => OnePlace
  <2> SUFFICES ASSUME QueueInv, NEW m \in Messages, m \notin unsent \union lost
               PROVE  Cardinality(InHands(m))
                        + Cardinality({i \in DOMAIN ready : ready[i] = m})
                        + (IF m \in settled THEN 1 ELSE 0) = 1
    BY DEF OnePlace
  <2> DEFINE hands == InHands(m)
  <2> DEFINE positions == {i \in DOMAIN ready : ready[i] = m}
  <2>1. Apart /\ Somewhere /\ QueuedOnce
    BY DEF QueueInv
  <2>2. Cardinality(hands) = IF hands = {} THEN 0 ELSE 1
    <3>1. \A x, y \in hands : x = y
      BY <2>1 DEF InHands, Apart, Holds
    <3>2. QED
      BY <3>1, CountedOnce
  <2>3. Cardinality(positions) = IF positions = {} THEN 0 ELSE 1
    <3>1. \A x, y \in positions : x = y
      BY <2>1 DEF QueuedOnce
    <3>2. QED
      BY <3>1, CountedOnce
  <2>4. hands # {} <=> \E k \in Consumers : Holds(k, m)
    BY DEF InHands, Holds
  <2>5. positions # {} <=> Queued(m)
    BY DEF Queued
  <2>6. ~Away(m)
    BY DEF Away
  <2> HIDE DEF hands, positions
  <2>7. \/ hands # {} /\ positions = {} /\ m \notin settled
        \/ hands = {} /\ positions # {} /\ m \notin settled
        \/ hands = {} /\ positions = {} /\ m \in settled
    BY <2>1, <2>4, <2>5, <2>6 DEF Apart, Somewhere
  <2>8. Cardinality(hands) + Cardinality(positions)
          + (IF m \in settled THEN 1 ELSE 0) = 1
    BY <2>2, <2>3, <2>7
  <2>9. QED
    BY <2>8 DEF hands, positions
<1>4. QED
  BY <1>1, <1>2, <1>3, PTL DEF TaskQueueSpec

(***************************************************************************)
(* Buckets of tokens.                                                      *)
(***************************************************************************)

LEMMA MaxOfTwo ==
    ASSUME NEW x \in Int, NEW y \in Int
    PROVE  /\ Max({x, y}) \in {x, y}
           /\ Max({x, y}) >= x /\ Max({x, y}) >= y
<1>1. \E z \in {x, y} : \A w \in {x, y} : z >= w
  OBVIOUS
<1>2. QED
  BY <1>1 DEF Max

LEMMA MinOfTwo ==
    ASSUME NEW x \in Int, NEW y \in Int
    PROVE  /\ Min({x, y}) \in {x, y}
           /\ Min({x, y}) <= x /\ Min({x, y}) <= y
<1>1. \E z \in {x, y} : \A w \in {x, y} : z <= w
  OBVIOUS
<1>2. QED
  BY <1>1 DEF Min

LEMMA TimesMonotone ==
    ASSUME NEW c \in Nat, NEW x \in Int, NEW y \in Int, x <= y
    PROVE  c * x <= c * y /\ x * c <= y * c
OBVIOUS

Buckets == [id : Nat, tokens : Int, updated : Nat]
Reading == [at : {"get"}, now : Nat]
Saving == [at : {"save"}, now : Nat, id : Nat, tokens : Int, seen : Nat]

TokensTypeOK ==
    /\ rate \in Rates
    /\ clock \in Nat
    /\ made \in Nat \ {0}
    /\ first \in {0, Full}
    /\ bucket \in {NoBucket} \union Buckets
    /\ call \in [Calls -> {NoCall} \union [at : {"storage"}] \union Reading
                            \union Saving]
    /\ passes \in Seq(Nat)

\* No call lasts longer than Longest, and nothing comes from the future.
InTime(c) == c.now <= clock /\ clock <= c.now + Longest
TokensTimely ==
    /\ bucket # NoBucket => bucket.updated <= clock
    /\ \A k \in Calls : call[k].at \in {"get", "save"} => InTime(call[k])
    /\ \A k \in Calls : call[k].at = "save" => call[k].seen <= Len(passes)

LEMMA RateFacts ==
    ASSUME TokensTypeOK
    PROVE  /\ rate.capacity \in Nat \ {0} /\ rate.refill \in Nat \ {0}
           /\ Cost = rate.refill /\ Full = rate.capacity * rate.refill
           /\ Full \in Nat /\ Cost \in Nat \ {0} /\ Cost <= Full
           /\ first \in Nat
           /\ rate.force \in BOOLEAN
           /\ rate.force => rate.capacity = 3 /\ Cost = 60 /\ Full = 180
           /\ rate.capacity <= rate.refill
<1>1. /\ rate.capacity \in Nat \ {0} /\ rate.refill \in Nat \ {0}
      /\ rate.force \in BOOLEAN
      /\ rate.force => rate.capacity = 3 /\ rate.refill = 60
      /\ rate.capacity <= rate.refill
  <2> DEFINE Fine(r) == /\ r.capacity \in Nat \ {0} /\ r.refill \in Nat \ {0}
                        /\ r.force \in BOOLEAN
                        /\ r.force => r.capacity = 3 /\ r.refill = 60
                        /\ r.capacity <= r.refill
  <2>1. \A c, t \in Nat \ {0} : c <= t => Fine(Rate(c, t))
    BY DEF Rate
  <2>2. Fine(record_s3_get_object_error)
    BY DEF record_s3_get_object_error, Rate
  <2>3. \A r \in Rates : r = record_s3_get_object_error
                           \/ \E c, t \in Nat \ {0} : c <= t /\ r = Rate(c, t)
    BY DEF Rates, Hour, Day, authorize_auth_ip,
           authorize_login_email, authorize_invite, authorize_login_password,
           authorize_telegram, authorize_signal, authorize_signal_verification,
           authorize_pushover, authorize_ntfy, authorize_sudo_code,
           authorize_totp_attempt, authorize_totp_code
  <2> HIDE DEF Fine
  <2>4. Fine(rate)
    BY <2>1, <2>2, <2>3 DEF TokensTypeOK
  <2>5. QED
    BY <2>4 DEF Fine
<1>2. Cost = rate.refill /\ Full = rate.capacity * rate.refill
  BY DEF Cost, Full
<1>3. Full \in Nat /\ Cost <= Full
  <2>1. 1 * rate.refill <= rate.capacity * rate.refill
    BY <1>1, TimesMonotone
  <2>2. QED
    BY <1>1, <1>2, <2>1
<1>4. QED
  BY <1>1, <1>2, <1>3 DEF TokensTypeOK

LEMMA JumpsForward ==
    ASSUME TokensTypeOK
    PROVE  Jumps \subseteq Nat
<1>1. \A a, b \in Nat \ {0} : b <= a => a \div b \in Nat \ {0}
  OBVIOUS
<1>2. TokenTime \in Nat \ {0}
  BY <1>1, RateFacts DEF TokenTime
<1>3. QED
  BY <1>2 DEF Jumps, Day, Hour

\* A bucket that is topped up holds no more than what flowed in, nor more than
\* a full one.
LEMMA TopUpBounds ==
    ASSUME TokensTypeOK, NEW row \in Buckets, NEW t \in Nat, NEW all,
           all = row.tokens + rate.capacity * (t - row.updated)
    PROVE  /\ TopUp(row, t) \in Int /\ all \in Int
           /\ TopUp(row, t) <= Full /\ TopUp(row, t) <= all
           /\ TopUp(row, t) \in {Full, all}
<1>1. row.tokens \in Int /\ row.updated \in Nat /\ rate.capacity \in Nat /\ Full \in Nat
  BY RateFacts DEF Buckets
<1>2. all \in Int
  BY <1>1
<1>3. TopUp(row, t) = Min({Full, all})
  BY DEF TopUp
<1>4. PICK f : f = Full
  OBVIOUS
<1>5. f \in Int /\ all \in Int
  BY <1>1, <1>2, <1>4
<1>6. Min({f, all}) \in {f, all} /\ Min({f, all}) <= f /\ Min({f, all}) <= all
  BY <1>5, MinOfTwo
<1>7. QED
  BY <1>3, <1>4, <1>5, <1>6

\* What a call does next, and what it changes.
LEMMA TokenCalls ==
    ASSUME TokensTypeOK, NEW k \in Calls
    PROVE  /\ call[k].at = "get" => call[k].now \in Nat
           /\ call[k].at = "save" => call[k] \in Saving
           /\ call[k].at = "save" => call[k].now \in Nat /\ call[k].seen \in Nat
                                       /\ call[k].tokens \in Int /\ call[k].id \in Nat
BY DEF TokensTypeOK, NoCall, Reading, Saving

\* What a call that has read the row does next: it is refused, or holds what
\* it is going to save.
LEMMA DecideSaves ==
    ASSUME TokensTypeOK, NEW k \in Calls, call[k].at = "get",
           NEW id \in Nat, NEW tokens \in Int, Decide(k, id, tokens)
    PROVE  /\ call' \in [Calls -> {NoCall} \union [at : {"storage"}] \union Reading
                                    \union Saving]
           /\ \A j \in Calls : j # k => call'[j] = call[j]
           /\ call'[k].at # "get" /\ call'[k].at # "storage"
           /\ call'[k] = NoCall => tokens < Cost /\ ~rate.force
           /\ call'[k].at = "save" =>
                 /\ call'[k].now = call[k].now /\ call'[k].id = id
                 /\ call'[k].tokens = tokens - Cost
                 /\ call'[k].seen = Len(passes)
                 /\ tokens - Cost >= 0 \/ rate.force
<1>1. call[k].now \in Nat /\ Len(passes) \in Nat /\ Cost \in Nat
  BY TokenCalls, RateFacts DEF TokensTypeOK
<1>2. PICK d : d = IF tokens - Cost < 0 /\ ~rate.force THEN NoCall
                   ELSE [at |-> "save", now |-> call[k].now, id |-> id,
                         tokens |-> tokens - Cost, seen |-> Len(passes)]
  OBVIOUS
<1>3. call' = [call EXCEPT ![k] = d]
  BY <1>2 DEF Decide
<1>4. call'[k] = d /\ \A j \in Calls : j # k => call'[j] = call[j]
  BY <1>3 DEF TokensTypeOK
<1>5. CASE tokens - Cost < 0 /\ ~rate.force
  BY <1>1, <1>2, <1>3, <1>4, <1>5 DEF TokensTypeOK, NoCall
<1>6. CASE ~(tokens - Cost < 0 /\ ~rate.force)
  <2>1. d = [at |-> "save", now |-> call[k].now, id |-> id,
             tokens |-> tokens - Cost, seen |-> Len(passes)]
    BY <1>2, <1>6
  <2>2. d \in Saving
    BY <1>1, <2>1 DEF Saving
  <2>3. tokens - Cost >= 0 \/ rate.force
    BY <1>1, <1>6
  <2>4. QED
    BY <1>3, <1>4, <2>1, <2>2, <2>3 DEF TokensTypeOK, NoCall
<1>7. QED
  BY <1>5, <1>6

TokensBase == TokensTypeOK /\ TokensTimely

LEMMA TokensBaseInit == TokensInit => TokensBase
<1> SUFFICES ASSUME TokensInit PROVE TokensBase
  OBVIOUS
<1>1. rate \in Rates /\ first \in {0, Full} /\ clock = 0 /\ made = 1 /\ passes = <<>>
      /\ call = [k \in Calls |-> NoCall]
  BY DEF TokensInit
<1>2. first \in Int
  <2>1. rate.capacity \in Nat /\ rate.refill \in Nat
    BY <1>1 DEF Rates, Rate, Hour, Day, authorize_auth_ip,
           authorize_login_email, authorize_invite, authorize_login_password,
           authorize_telegram, authorize_signal, authorize_signal_verification,
           authorize_pushover, authorize_ntfy, authorize_sudo_code,
           authorize_totp_attempt, authorize_totp_code, record_s3_get_object_error
  <2>2. QED
    BY <1>1, <2>1 DEF Full
<1>3. bucket \in {NoBucket} \union Buckets /\ (bucket # NoBucket => bucket.updated = 0)
  BY <1>2 DEF TokensInit, Buckets
<1>4. QED
  BY <1>1, <1>3 DEF TokensBase, TokensTypeOK, TokensTimely, NoCall

LEMMA TokensBaseNext == TokensBase /\ [TokensNext]_tokenVars => TokensBase'
<1> SUFFICES ASSUME TokensBase, [TokensNext]_tokenVars
             PROVE  TokensBase'
  OBVIOUS
<1> USE DEF TokensBase
<1>1. ASSUME NEW k \in Calls, AskStorage(k) \/ StorageAnswers(k)
      PROVE  TokensBase'
  BY <1>1 DEF AskStorage, StorageAnswers, TokensTypeOK, TokensTimely, InTime, NoCall, Full
<1>2. ASSUME NEW k \in Calls, Authorize(k)
      PROVE  TokensBase'
  <2>1. PICK d : d = [at |-> "get", now |-> clock]
    OBVIOUS
  <2>2. d \in Reading /\ d.at = "get" /\ d.now = clock
    BY <2>1 DEF Reading, TokensTypeOK
  <2>3. call' = [call EXCEPT ![k] = d]
        /\ UNCHANGED <<rate, clock, bucket, made, passes, first>>
    BY <1>2, <2>1 DEF Authorize
  <2>4. TokensTypeOK'
    BY <2>2, <2>3 DEF TokensTypeOK, Full
  <2>5. InTime(d)
    BY <2>2, TokensAssumption DEF InTime, TokensTypeOK
  <2>6. call'[k] = d /\ \A j \in Calls : j # k => call'[j] = call[j]
    BY <2>3 DEF TokensTypeOK
  <2>7. TokensTimely'
    BY <2>2, <2>3, <2>5, <2>6 DEF TokensTimely, InTime
  <2>8. QED
    BY <2>4, <2>7
<1>3. ASSUME NEW k \in Calls, GetOrCreate(k)
      PROVE  TokensBase'
  <2>1. call[k].at = "get" /\ UNCHANGED <<rate, clock, passes, first>>
        /\ InTime(call[k]) /\ call[k].now \in Nat
    BY <1>3, TokenCalls DEF GetOrCreate, TokensTimely
  <2>2. \E id \in Nat, tokens \in Int : Decide(k, id, tokens)
    <3>1. CASE bucket = NoBucket
      BY <1>3, <3>1, RateFacts DEF GetOrCreate, TokensTypeOK
    <3>2. CASE bucket # NoBucket
      <4>1. bucket \in Buckets
        BY <3>2 DEF TokensTypeOK
      <4>2. bucket.id \in Nat /\ TopUp(bucket, call[k].now) \in Int
        BY <2>1, <4>1, TopUpBounds DEF Buckets
      <4>3. QED
        BY <1>3, <3>2, <4>2 DEF GetOrCreate
    <3>3. QED
      BY <3>1, <3>2
  <2>3. /\ call' \in [Calls -> {NoCall} \union [at : {"storage"}] \union Reading
                                 \union Saving]
        /\ \A j \in Calls : j # k => call'[j] = call[j]
        /\ call'[k].at # "get"
        /\ call'[k].at = "save" => call'[k].now = call[k].now /\ call'[k].seen = Len(passes)
    BY <2>1, <2>2, DecideSaves
  <2>4. /\ made' \in Nat \ {0}
        /\ bucket' \in {NoBucket} \union Buckets
        /\ bucket' # NoBucket => bucket'.updated <= clock
    <3>1. CASE bucket = NoBucket
      <4>1. made' = made + 1 /\ bucket' = [id |-> made + 1, tokens |-> Full, updated |-> clock]
        BY <1>3, <3>1 DEF GetOrCreate
      <4>2. QED
        BY <4>1, RateFacts DEF TokensTypeOK, Buckets
    <3>2. CASE bucket # NoBucket
      BY <1>3, <3>2 DEF GetOrCreate, TokensTypeOK, TokensTimely
    <3>3. QED
      BY <3>1, <3>2
  <2>5. TokensTypeOK'
    BY <2>1, <2>3, <2>4 DEF TokensTypeOK, Full
  <2>6. Len(passes) \in Nat
    BY DEF TokensTypeOK
  <2>7. TokensTimely'
    BY <2>1, <2>3, <2>4, <2>6 DEF TokensTimely, InTime
  <2>8. QED
    BY <2>5, <2>7
<1>4. ASSUME NEW k \in Calls, SaveBucket(k)
      PROVE  TokensBase'
  <2>1. /\ call[k].at = "save" /\ InTime(call[k]) /\ call[k].now \in Nat
        /\ call[k].tokens \in Int /\ call[k].id \in Nat
        /\ UNCHANGED <<rate, clock, made, first>>
        /\ call' = [call EXCEPT ![k] = NoCall]
    BY <1>4, TokenCalls DEF SaveBucket, TokensTimely
  <2>2. \A j \in Calls : call'[j] = IF j = k THEN NoCall ELSE call[j]
    BY <2>1 DEF TokensTypeOK
  <2>3. /\ passes' \in Seq(Nat) /\ Len(passes) <= Len(passes')
        /\ bucket' \in {NoBucket} \union Buckets
        /\ bucket' # NoBucket => bucket'.updated <= clock
    <3>1. CASE bucket # NoBucket /\ bucket.id # call[k].id
      BY <1>4, <3>1 DEF SaveBucket, TokensTypeOK, TokensTimely
    <3>2. CASE ~(bucket # NoBucket /\ bucket.id # call[k].id)
      <4>1. /\ bucket' = [id |-> call[k].id, tokens |-> call[k].tokens,
                          updated |-> call[k].now]
            /\ passes' = Append(passes, call[k].now)
        BY <1>4, <3>2 DEF SaveBucket
      <4>2. bucket' \in Buckets /\ bucket'.updated = call[k].now
        BY <2>1, <4>1 DEF Buckets
      <4>3. QED
        BY <2>1, <4>1, <4>2 DEF TokensTypeOK, InTime
    <3>3. QED
      BY <3>1, <3>2
  <2>4. TokensTypeOK'
    BY <2>1, <2>3 DEF TokensTypeOK, Full
  <2>5. \A j \in Calls : call[j].at = "save" => call[j].seen <= Len(passes')
    BY <2>3, TokenCalls DEF TokensTimely, TokensTypeOK
  <2>6. TokensTimely'
    BY <2>1, <2>2, <2>3, <2>5 DEF TokensTimely, InTime, NoCall
  <2>7. QED
    BY <2>4, <2>6
<1>5. CASE PruneBuckets
  BY <1>5 DEF PruneBuckets, TokensTypeOK, TokensTimely, InTime, Full
<1>6. CASE Tick
  <2>1. PICK d \in Jumps : /\ clock' = clock + d
                           /\ \A k \in Calls : call[k].at \in {"get", "save"} =>
                                 clock + d <= call[k].now + Longest
    BY <1>6 DEF Tick
  <2>2. d \in Nat
    BY JumpsForward
  <2>3. UNCHANGED <<rate, bucket, made, call, passes, first>>
    BY <1>6 DEF Tick
  <2>4. TokensTypeOK'
    BY <2>1, <2>2, <2>3 DEF TokensTypeOK, Full
  <2>5. TokensTimely'
    BY <2>1, <2>2, <2>3, TokenCalls DEF TokensTypeOK, TokensTimely, InTime, Buckets
  <2>6. QED
    BY <2>4, <2>5
<1>7. CASE UNCHANGED tokenVars
  BY <1>7 DEF tokenVars, TokensTypeOK, TokensTimely, InTime, Full
<1>8. QED
  BY <1>1, <1>2, <1>3, <1>4, <1>5, <1>6, <1>7 DEF TokensNext

-----------------------------------------------------------------------------
(* Calls are authorized at the bucket's rate.                              *)
(*                                                                         *)
(* What has been authorized so far is kept in a ledger, so that the        *)
(* arithmetic is about its entries.  A row, as well as the copy a call     *)
(* holds of it, accounts for the authorized calls it knows of: those it    *)
(* has seen that no save has overwritten.  The tokens they cost and those  *)
(* that are left are no more than a full bucket and what flowed in since.  *)

IsLedger(b) ==
    /\ b.cap \in Nat /\ b.cost \in Nat /\ b.full \in Nat /\ b.first \in Nat
    /\ b.early \in Nat /\ b.passes \in Seq(Nat)

Counted(b, a, n) == {i \in DOMAIN b.passes \ b.over : b.passes[i] >= a /\ i <= n}
Count(b, a, n) == Cardinality(Counted(b, a, n))

AccountsFor(b, tokens, updated, n) ==
    /\ \A a \in Nat :
          \/ Count(b, a, n) = 0
          \/ Count(b, a, n) * b.cost + tokens
                <= b.full + b.cap * (updated - a) + b.early
    /\ Count(b, 0, n) * b.cost + tokens <= b.first + b.cap * updated + b.early

\* While there is no row, one that is created now, even by a call that has read
\* the clock at "since", would account for all of them.
Emptied(b, since, slack) ==
    /\ \A a \in Nat :
          \/ Count(b, a, Len(b.passes)) = 0
          \/ Count(b, a, Len(b.passes)) * b.cost
                <= b.cap * (since - a) + b.early + slack
    /\ \/ Count(b, 0, Len(b.passes)) * b.cost + b.full
              <= b.first + b.cap * since + b.early + slack
       \/ b.first = b.full /\ Count(b, 0, Len(b.passes)) = 0

Between(b, x, y) == {i \in DOMAIN b.passes \ b.over : b.passes[i] \in x .. y}
Within(b) ==
    \A x, y \in Nat :
        /\ Cardinality(Between(b, 0, y)) * b.cost <= b.first + b.cap * y + b.early
        /\ x <= y => Cardinality(Between(b, x, y)) * b.cost
                         <= b.full + b.cap * (y - x) + b.early

\* A ledger that has as much as another, with the same calls or one more.
SameRate(b, c) ==
    /\ c.cap = b.cap /\ c.cost = b.cost /\ c.full = b.full /\ c.first = b.first
    /\ b.early <= c.early

LEMMA CountedFew ==
    ASSUME NEW b, IsLedger(b), NEW a \in Nat, NEW n \in Nat
    PROVE  IsFiniteSet(Counted(b, a, n)) /\ Count(b, a, n) \in Nat
<1>1. Counted(b, a, n) \subseteq DOMAIN b.passes
  BY DEF Counted
<1>2. IsFiniteSet(Counted(b, a, n))
  BY <1>1, SomePositionsFinite DEF IsLedger
<1>3. QED
  BY <1>2, FS_CardinalityType DEF Count

LEMMA BetweenFew ==
    ASSUME NEW b, IsLedger(b), NEW x \in Nat, NEW y \in Nat
    PROVE  IsFiniteSet(Between(b, x, y)) /\ Cardinality(Between(b, x, y)) \in Nat
<1>1. Between(b, x, y) \subseteq DOMAIN b.passes
  BY DEF Between
<1>2. IsFiniteSet(Between(b, x, y))
  BY <1>1, SomePositionsFinite DEF IsLedger
<1>3. QED
  BY <1>2, FS_CardinalityType

\* The calls a copy knows of get no more when others are authorized.
LEMMA CountShrinks ==
    ASSUME NEW b, IsLedger(b), NEW c, IsLedger(c),
           NEW a \in Nat, NEW n \in 0 .. Len(b.passes),
           \/ c.passes = b.passes
           \/ \E t \in Nat : c.passes = Append(b.passes, t),
           b.over \subseteq c.over
    PROVE  Count(c, a, n) <= Count(b, a, n)
<1>1. Counted(c, a, n) \subseteq Counted(b, a, n)
  <2>1. CASE c.passes = b.passes
    BY <2>1 DEF Counted
  <2>2. ASSUME NEW t \in Nat, c.passes = Append(b.passes, t)
        PROVE  Counted(c, a, n) \subseteq Counted(b, a, n)
    <3>1. DOMAIN b.passes = 1 .. Len(b.passes) /\ Len(b.passes) \in Nat
          /\ DOMAIN c.passes = 1 .. Len(b.passes) + 1
          /\ \A i \in 1 .. Len(b.passes) : c.passes[i] = b.passes[i]
      BY <2>2, SMTT(30) DEF IsLedger
    <3>2. QED
      BY <3>1 DEF Counted
  <2>3. QED
    BY <2>1, <2>2
<1>2. n \in Nat
  BY DEF IsLedger
<1>3. QED
  BY <1>1, <1>2, CountedFew, FS_Subset DEF Count

LEMMA Distributes ==
    ASSUME NEW c \in Int, NEW x \in Int, NEW y \in Int
    PROVE  /\ c * (x - y) = c * x - c * y
           /\ c * x \in Int /\ c * y \in Int /\ c * (x - y) \in Int
OBVIOUS

LEMMA Chained ==
    ASSUME NEW p \in Int, NEW q \in Int, NEW t \in Int, NEW m \in Int,
           NEW x \in Int, NEW e \in Int, NEW f \in Int,
           p <= q, e <= f, q + t <= m + x + e
    PROVE  p + t <= m + x + f
OBVIOUS

LEMMA Moved ==
    ASSUME NEW g \in Int, NEW t \in Int, NEW r \in Int, NEW less \in Int,
           NEW m \in Int, NEW x \in Int, NEW y \in Int, NEW e \in Int,
           r <= t + less, y = x + less, g + t <= m + x + e
    PROVE  g + r <= m + y + e
OBVIOUS

LEMMA Paid ==
    ASSUME NEW g \in Nat, NEW cost \in Nat
    PROVE  g * cost \in Nat
OBVIOUS

LEMMA LessToPay ==
    ASSUME NEW cost \in Nat, NEW g \in Nat, NEW h \in Nat, g <= h
    PROVE  g * cost <= h * cost /\ g * cost \in Nat /\ h * cost \in Nat
BY TimesMonotone

LEMMA StillAccounts ==
    ASSUME NEW b, IsLedger(b), NEW c, IsLedger(c), SameRate(b, c),
           \/ c.passes = b.passes
           \/ \E t \in Nat : c.passes = Append(b.passes, t),
           b.over \subseteq c.over,
           NEW tokens \in Int, NEW updated \in Int, NEW n \in 0 .. Len(b.passes),
           AccountsFor(b, tokens, updated, n)
    PROVE  AccountsFor(c, tokens, updated, n)
<1>0. n \in Nat
  BY DEF IsLedger
<1>1. \A a \in Nat : /\ Count(c, a, n) <= Count(b, a, n)
                     /\ Count(c, a, n) \in Nat /\ Count(b, a, n) \in Nat
  BY <1>0, CountShrinks, CountedFew
<1>2. \A a \in Nat : /\ Count(c, a, n) * b.cost <= Count(b, a, n) * b.cost
                     /\ Count(c, a, n) * b.cost \in Nat
                     /\ Count(b, a, n) * b.cost \in Nat
  BY <1>1, LessToPay DEF IsLedger
<1>3. ASSUME NEW a \in Nat, Count(c, a, n) # 0
      PROVE  Count(c, a, n) * c.cost + tokens
                <= c.full + c.cap * (updated - a) + c.early
  <2>1. Count(b, a, n) # 0
    BY <1>1, <1>3
  <2>2. Count(b, a, n) * b.cost + tokens <= b.full + b.cap * (updated - a) + b.early
    BY <2>1 DEF AccountsFor
  <2>3. b.cap * (updated - a) \in Int
    BY Distributes DEF IsLedger
  <2>4. b.full \in Int /\ b.early \in Int /\ c.early \in Int /\ b.early <= c.early
    BY DEF SameRate, IsLedger
  <2>5. /\ Count(c, a, n) * b.cost <= Count(b, a, n) * b.cost
        /\ Count(c, a, n) * b.cost \in Nat
        /\ Count(b, a, n) * b.cost \in Nat
    BY <1>2, Zenon
  <2>6. Count(c, a, n) * b.cost + tokens <= b.full + b.cap * (updated - a) + c.early
    <3>1. PICK p, q, x : p = Count(c, a, n) * b.cost /\ q = Count(b, a, n) * b.cost
                         /\ x = b.cap * (updated - a)
      OBVIOUS
    <3>2. p \in Int /\ q \in Int /\ x \in Int /\ p <= q
          /\ q + tokens <= b.full + x + b.early
      BY <2>2, <2>3, <2>5, <3>1
    <3>3. p + tokens <= b.full + x + c.early
      BY <2>4, <3>2, Chained
    <3>4. QED
      BY <3>1, <3>3
  <2>7. QED
    BY <2>6 DEF SameRate
<1>4. Count(c, 0, n) * c.cost + tokens <= c.first + c.cap * updated + c.early
  <2>1. Count(b, 0, n) * b.cost + tokens <= b.first + b.cap * updated + b.early
    BY DEF AccountsFor
  <2>2. b.cap * updated \in Int
    BY Distributes DEF IsLedger
  <2>3. b.first \in Int /\ b.early \in Int /\ c.early \in Int /\ b.early <= c.early
    BY DEF SameRate, IsLedger
  <2>4. /\ Count(c, 0, n) * b.cost \in Int /\ Count(b, 0, n) * b.cost \in Int
        /\ Count(c, 0, n) * b.cost <= Count(b, 0, n) * b.cost
    BY <1>2
  <2>5. Count(c, 0, n) * b.cost + tokens <= b.first + b.cap * updated + c.early
    BY <2>1, <2>2, <2>3, <2>4, Chained
  <2>6. QED
    BY <2>5 DEF SameRate
<1>5. QED
  BY <1>3, <1>4 DEF AccountsFor

\* What a call reads accounts for the calls of the row, and so does a row with
\* less in it.
LEMMA ReadAccounts ==
    ASSUME NEW b, IsLedger(b), NEW n \in Nat, NEW tokens \in Int, NEW updated \in Int,
           NEW read \in Int, NEW now \in Int,
           read <= tokens + b.cap * (now - updated),
           AccountsFor(b, tokens, updated, n)
    PROVE  AccountsFor(b, read, now, n)
<1>1. /\ b.cap \in Int /\ b.full \in Int /\ b.first \in Int /\ b.early \in Int
      /\ b.cost \in Nat
  BY SMTT(30) DEF IsLedger
<1>2. PICK less : less = b.cap * now - b.cap * updated
  OBVIOUS
<1>3. less \in Int /\ read <= tokens + less
  BY <1>1, <1>2, Distributes
<1>4. \A a \in Nat : Count(b, a, n) * b.cost \in Int
  BY <1>1, CountedFew, LessToPay, SMTT(30)
<1>5. ASSUME NEW a \in Nat,
             Count(b, a, n) * b.cost + tokens <= b.full + b.cap * (updated - a) + b.early
      PROVE  Count(b, a, n) * b.cost + read <= b.full + b.cap * (now - a) + b.early
  <2>1. /\ b.cap * (updated - a) \in Int /\ b.cap * (now - a) \in Int
        /\ b.cap * (now - a) = b.cap * (updated - a) + less
    BY <1>1, <1>2, Distributes
  <2>2. QED
    BY <1>1, <1>3, <1>4, <1>5, <2>1, Moved
<1>6. Count(b, 0, n) * b.cost + read <= b.first + b.cap * now + b.early
  <2>1. /\ b.cap * updated \in Int /\ b.cap * now \in Int
        /\ b.cap * now = b.cap * updated + less
    BY <1>1, <1>2, Distributes
  <2>2. Count(b, 0, n) * b.cost + tokens <= b.first + b.cap * updated + b.early
    BY DEF AccountsFor
  <2>3. QED
    BY <1>1, <1>3, <1>4, <2>1, <2>2, Moved
<1>7. QED
  BY <1>5, <1>6 DEF AccountsFor

\* The ledger after a save: the copy's call, and no longer those since it read.
Saved(b, c, now, n) ==
    /\ c.passes = Append(b.passes, now)
    /\ c.over = b.over \union (n + 1 .. Len(b.passes))
    /\ SameRate(b, c)

LEMMA CountSaved ==
    ASSUME NEW b, IsLedger(b), NEW c, IsLedger(c), NEW now \in Nat,
           NEW n \in 0 .. Len(b.passes), Saved(b, c, now, n),
           NEW a \in Nat
    PROVE  /\ Count(c, a, Len(c.passes)) <= Count(b, a, n) + 1
           /\ now < a => Count(c, a, Len(c.passes)) <= Count(b, a, n)
<1>1. /\ Len(b.passes) \in Nat /\ n \in Nat
      /\ DOMAIN b.passes = 1 .. Len(b.passes)
      /\ DOMAIN c.passes = 1 .. Len(b.passes) + 1
      /\ \A i \in 1 .. Len(b.passes) : c.passes[i] = b.passes[i]
      /\ c.passes[Len(b.passes) + 1] = now
      /\ Len(c.passes) = Len(b.passes) + 1
  BY SMTT(30) DEF Saved, IsLedger
<1>2. PICK new : new = Len(b.passes) + 1
  OBVIOUS
<1>3. Counted(c, a, Len(c.passes)) \subseteq Counted(b, a, n) \union {new}
  BY <1>1, <1>2 DEF Counted, Saved
<1>4. now < a => Counted(c, a, Len(c.passes)) \subseteq Counted(b, a, n)
  BY <1>1, <1>2 DEF Counted, Saved
<1>5. IsFiniteSet(Counted(b, a, n)) /\ Cardinality(Counted(b, a, n)) \in Nat
  BY <1>1, CountedFew DEF Count
<1>6. /\ IsFiniteSet(Counted(b, a, n) \union {new})
      /\ Cardinality(Counted(b, a, n) \union {new}) <= Cardinality(Counted(b, a, n)) + 1
  <2> HIDE DEF Counted
  <2>1. PICK S : S = Counted(b, a, n)
    OBVIOUS
  <2>2. IsFiniteSet(S) /\ Cardinality(S) \in Nat
    BY <1>5, <2>1
  <2>3. /\ IsFiniteSet(S \union {new})
        /\ Cardinality(S \union {new}) = IF new \in S THEN Cardinality(S)
                                         ELSE Cardinality(S) + 1
    BY <2>2, FS_AddElement
  <2>4. Cardinality(S \union {new}) <= Cardinality(S) + 1
    BY <2>2, <2>3
  <2>5. QED
    BY <2>1, <2>3, <2>4
<1>7. Cardinality(Counted(c, a, Len(c.passes)))
         <= Cardinality(Counted(b, a, n) \union {new})
  BY <1>3, <1>6, FS_Subset
<1>8. now < a => Count(c, a, Len(c.passes)) <= Count(b, a, n)
  BY <1>4, <1>5, FS_Subset DEF Count
<1>9. Count(c, a, Len(c.passes)) \in Nat
  <2>1. PICK m : m = Len(c.passes)
    OBVIOUS
  <2>2. m \in Nat
    BY <1>1, <2>1
  <2>3. Count(c, a, m) \in Nat
    BY <2>2, CountedFew
  <2>4. QED
    BY <2>1, <2>3
<1>10. Cardinality(Counted(b, a, n) \union {new}) \in Nat
  BY <1>6, FS_CardinalityType
<1>11. QED
  BY <1>5, <1>6, <1>7, <1>8, <1>9, <1>10 DEF Count

LEMMA OneMore ==
    ASSUME NEW g \in Nat, NEW h \in Nat, NEW cost \in Nat, g <= h + 1
    PROVE  g * cost <= h * cost + cost
OBVIOUS

LEMMA AfterAnother ==
    ASSUME NEW g \in Nat, NEW h \in Nat, NEW cost \in Nat, NEW t \in Int, NEW m \in Int,
           NEW x \in Int, NEW e \in Int, NEW f \in Int,
           g <= h + 1, e <= f, h * cost + (t + cost) <= m + x + e
    PROVE  g * cost + t <= m + x + f
<1>1. PICK q : q = h * cost
  OBVIOUS
<1>2. q \in Int /\ g * cost \in Int /\ g * cost <= q + cost
  BY <1>1, OneMore
<1>3. q + (t + cost) <= m + x + e
  BY <1>1
<1>4. PICK p : p = g * cost
  OBVIOUS
<1>5. p + t <= m + x + f
  BY <1>2, <1>3, <1>4
<1>6. QED
  BY <1>4, <1>5

LEMMA FirstOne ==
    ASSUME NEW g \in Nat, NEW cost \in Nat, NEW t \in Int, NEW m \in Int,
           NEW x \in Nat, NEW f \in Nat, g <= 1, t + cost <= m
    PROVE  g * cost + t <= m + x + f
OBVIOUS

\* A row that was saved accounts for the call that saved it too.
LEMMA SavedAccounts ==
    ASSUME NEW b, IsLedger(b), NEW c, IsLedger(c), NEW now \in Nat,
           NEW n \in 0 .. Len(b.passes), Saved(b, c, now, n),
           NEW tokens \in Int, tokens + b.cost <= b.full,
           AccountsFor(b, tokens + b.cost, now, n)
    PROVE  AccountsFor(c, tokens, now, Len(c.passes))
<1>1. PICK cap, full, begin, early, more, cost, m :
          /\ cap = b.cap /\ full = b.full /\ begin = b.first /\ early = b.early
          /\ more = c.early /\ cost = b.cost /\ m = Len(c.passes)
  OBVIOUS
<1>2. /\ cap \in Nat /\ full \in Nat /\ begin \in Nat /\ early \in Nat
      /\ more \in Nat /\ cost \in Nat /\ early <= more
      /\ n \in Nat /\ m \in Nat
      /\ c.cap = cap /\ c.cost = cost /\ c.full = full /\ c.first = begin
  BY <1>1 DEF IsLedger, Saved, SameRate
<1>3. /\ tokens + cost <= full
      /\ \A a \in Nat : \/ Count(b, a, n) = 0
                        \/ Count(b, a, n) * cost + (tokens + cost)
                              <= full + cap * (now - a) + early
      /\ Count(b, 0, n) * cost + (tokens + cost) <= begin + cap * now + early
  BY <1>1 DEF AccountsFor
<1>4. \A a \in Nat : /\ Count(c, a, m) \in Nat /\ Count(b, a, n) \in Nat
                     /\ Count(c, a, m) <= Count(b, a, n) + 1
                     /\ now < a => Count(c, a, m) <= Count(b, a, n)
  <2>1. \A a \in Nat : Count(c, a, m) \in Nat /\ Count(b, a, n) \in Nat
    BY <1>2, CountedFew
  <2>2. QED
    BY <1>1, <2>1, CountSaved
<1>5. ASSUME NEW a \in Nat, Count(c, a, m) # 0
      PROVE  Count(c, a, m) * cost + tokens <= full + cap * (now - a) + more
  <2>1. PICK g, h, x : g = Count(c, a, m) /\ h = Count(b, a, n)
                       /\ x = cap * (now - a)
    OBVIOUS
  <2>2. g \in Nat /\ h \in Nat /\ g # 0 /\ g <= h + 1 /\ (now < a => g <= h)
    BY <1>4, <1>5, <2>1
  <2>3. x \in Int /\ (now >= a => x >= 0)
    BY <1>2, <2>1
  <2>4. CASE h = 0
    <3>1. x \in Nat /\ g <= 1
      BY <2>2, <2>3, <2>4
    <3>2. g * cost + tokens <= full + x + more
      BY <1>2, <1>3, <2>2, <3>1, FirstOne
    <3>3. QED
      BY <2>1, <3>2
  <2>5. CASE h # 0
    <3>1. h * cost + (tokens + cost) <= full + x + early
      BY <1>3, <2>1, <2>5
    <3>2. g * cost + tokens <= full + x + more
      BY <1>2, <2>2, <2>3, <3>1, AfterAnother
    <3>3. QED
      BY <2>1, <3>2
  <2>6. QED
    BY <2>4, <2>5
<1>6. Count(c, 0, m) * cost + tokens <= begin + cap * now + more
  <2>1. PICK g, h, x : g = Count(c, 0, m) /\ h = Count(b, 0, n) /\ x = cap * now
    OBVIOUS
  <2>2. g \in Nat /\ h \in Nat /\ g <= h + 1
    BY <1>4, <2>1
  <2>3. x \in Int
    BY <1>2, <2>1
  <2>4. h * cost + (tokens + cost) <= begin + x + early
    BY <1>3, <2>1, Zenon
  <2>5. g * cost + tokens <= begin + x + more
    <3>1. g * cost \in Int /\ h * cost \in Int /\ g * cost <= h * cost + cost
      BY <1>2, <2>2, OneMore, LessToPay
    <3>2. PICK p, q : p = g * cost /\ q = h * cost
      OBVIOUS
    <3>3. p \in Int /\ q \in Int /\ p <= q + cost
      BY <3>1, <3>2
    <3>4. q + (tokens + cost) <= begin + x + early
      BY <2>4, <3>2
    <3>5. p + tokens <= begin + x + more
      BY <1>2, <2>3, <3>3, <3>4
    <3>6. QED
      BY <3>2, <3>5
  <2>6. QED
    BY <2>1, <2>5
<1>7. QED
  BY <1>1, <1>2, <1>5, <1>6 DEF AccountsFor

\* With a row that accounts for it, the call that was saved keeps to the rate.
LEMMA SavedWithin ==
    ASSUME NEW b, IsLedger(b), NEW c, IsLedger(c), NEW now \in Nat,
           NEW n \in 0 .. Len(b.passes), Saved(b, c, now, n),
           NEW tokens \in Nat, AccountsFor(c, tokens, now, Len(c.passes)),
           Within(b)
    PROVE  Within(c)
<1>1. PICK cap, full, begin, early, more, cost, m :
          /\ cap = c.cap /\ full = c.full /\ begin = c.first /\ early = b.early
          /\ more = c.early /\ cost = c.cost /\ m = Len(c.passes)
  OBVIOUS
<1>2. /\ cap \in Nat /\ full \in Nat /\ begin \in Nat /\ early \in Nat
      /\ more \in Nat /\ cost \in Nat /\ early <= more
      /\ n \in Nat /\ m \in Nat
      /\ b.cap = cap /\ b.cost = cost /\ b.full = full /\ b.first = begin
  BY <1>1 DEF IsLedger, Saved, SameRate
<1>3. /\ Len(b.passes) \in Nat /\ n \in Nat
      /\ DOMAIN b.passes = 1 .. Len(b.passes)
      /\ DOMAIN c.passes = 1 .. Len(b.passes) + 1
      /\ \A i \in 1 .. Len(b.passes) : c.passes[i] = b.passes[i]
      /\ c.passes[Len(b.passes) + 1] = now
      /\ m = Len(b.passes) + 1
      /\ b.over \subseteq c.over
  BY <1>1, SMTT(30) DEF Saved, IsLedger
<1>4. ASSUME NEW x \in Nat, NEW y \in Nat
      PROVE  /\ Cardinality(Between(c, x, y)) \in Nat
             /\ Cardinality(Between(b, x, y)) \in Nat
             /\ y < now => Cardinality(Between(c, x, y)) <= Cardinality(Between(b, x, y))
             /\ Count(c, x, m) \in Nat
             /\ Cardinality(Between(c, x, y)) <= Count(c, x, m)
  <2>1. Cardinality(Between(c, x, y)) \in Nat /\ Cardinality(Between(b, x, y)) \in Nat
    BY BetweenFew
  <2>2. y < now => Cardinality(Between(c, x, y)) <= Cardinality(Between(b, x, y))
    <3>1. ASSUME y < now, NEW i \in Between(c, x, y)
          PROVE  i \in Between(b, x, y)
      <4>1. i \in DOMAIN c.passes /\ i \notin c.over /\ c.passes[i] \in x .. y
        BY DEF Between
      <4>2. i \in 1 .. Len(b.passes) + 1 /\ c.passes[i] # now
        BY <1>3, <3>1, <4>1
      <4>3. i \in 1 .. Len(b.passes)
        BY <1>3, <4>2
      <4>4. QED
        BY <1>3, <4>1, <4>3 DEF Between
    <3>2. y < now => Between(c, x, y) \subseteq Between(b, x, y)
      BY <3>1
    <3>3. QED
      BY <3>2, BetweenFew, FS_Subset
  <2>3. IsFiniteSet(Counted(c, x, m)) /\ Count(c, x, m) \in Nat
    BY <1>2, CountedFew
  <2>4. ASSUME NEW i \in Between(c, x, y)
        PROVE  i \in Counted(c, x, m)
    <3>1. i \in DOMAIN c.passes /\ i \notin c.over /\ c.passes[i] \in x .. y
      BY DEF Between
    <3>2. c.passes[i] >= x /\ i <= m
      BY <1>3, <3>1
    <3>3. QED
      BY <3>1, <3>2 DEF Counted
  <2>5. Cardinality(Between(c, x, y)) <= Count(c, x, m)
    <3>1. Between(c, x, y) \subseteq Counted(c, x, m)
      BY <2>4
    <3>2. QED
      BY <2>3, <3>1, FS_Subset DEF Count
  <2>6. QED
    BY <2>1, <2>2, <2>3, <2>5
<1>5. /\ \A a \in Nat : \/ Count(c, a, m) = 0
                        \/ Count(c, a, m) * cost + tokens
                              <= full + cap * (now - a) + more
      /\ Count(c, 0, m) * cost + tokens <= begin + cap * now + more
  BY <1>1 DEF AccountsFor
<1>6. ASSUME NEW y \in Nat
      PROVE  Cardinality(Between(c, 0, y)) * cost <= begin + cap * y + more
  <2>1. PICK k, h, g : k = Cardinality(Between(c, 0, y))
                       /\ h = Cardinality(Between(b, 0, y)) /\ g = Count(c, 0, m)
    OBVIOUS
  <2>2. k \in Nat /\ h \in Nat /\ g \in Nat /\ k <= g /\ (y < now => k <= h)
    BY <1>4, <2>1
  <2>3. PICK p, q, r : p = k * cost /\ q = h * cost /\ r = g * cost
    OBVIOUS
  <2>4. PICK u, v : u = cap * y /\ v = cap * now
    OBVIOUS
  <2>5. p \in Int /\ q \in Int /\ r \in Int /\ p <= r /\ (y < now => p <= q)
    BY <1>2, <2>2, <2>3, LessToPay
  <2>6. u \in Int /\ v \in Int /\ (now <= y => v <= u)
    BY <1>2, <2>4, TimesMonotone
  <2>7. r + tokens <= begin + v + more
    BY <1>5, <2>1, <2>3, <2>4
  <2>8. q <= begin + u + early
    BY <1>1, <1>2, <2>1, <2>3, <2>4 DEF Within
  <2>9. p <= begin + u + more
    BY <1>2, <2>5, <2>6, <2>7, <2>8
  <2>10. QED
    BY <2>1, <2>3, <2>4, <2>9
<1>7. ASSUME NEW x \in Nat, NEW y \in Nat, x <= y
      PROVE  Cardinality(Between(c, x, y)) * cost <= full + cap * (y - x) + more
  <2>1. PICK k, h, g : k = Cardinality(Between(c, x, y))
                       /\ h = Cardinality(Between(b, x, y)) /\ g = Count(c, x, m)
    OBVIOUS
  <2>2. k \in Nat /\ h \in Nat /\ g \in Nat /\ k <= g /\ (y < now => k <= h)
    BY <1>4, <2>1
  <2>3. PICK p, q, r : p = k * cost /\ q = h * cost /\ r = g * cost
    OBVIOUS
  <2>4. PICK u, v : u = cap * (y - x) /\ v = cap * (now - x)
    OBVIOUS
  <2>5. p \in Int /\ q \in Int /\ r \in Int /\ p <= r /\ (y < now => p <= q)
        /\ (g = 0 => p = 0)
    BY <1>2, <2>2, <2>3, LessToPay
  <2>6. u \in Int /\ v \in Int /\ u >= 0 /\ (now <= y => v <= u)
    <3>1. cap * 0 <= cap * (y - x)
      BY <1>2, <1>7, TimesMonotone
    <3>2. now <= y => cap * (now - x) <= cap * (y - x)
      BY <1>2, TimesMonotone
    <3>3. QED
      BY <1>2, <2>4, <3>1, <3>2, Distributes
  <2>7. g = 0 \/ r + tokens <= full + v + more
    BY <1>5, <2>1, <2>3, <2>4
  <2>8. q <= full + u + early
    BY <1>1, <1>2, <1>7, <2>1, <2>3, <2>4 DEF Within
  <2>9. p <= full + u + more
    BY <1>2, <2>5, <2>6, <2>7, <2>8
  <2>10. QED
    BY <2>1, <2>3, <2>4, <2>9
<1>8. QED
  BY <1>1, <1>6, <1>7 DEF Within

LEMMA StillWithin ==
    ASSUME NEW b, IsLedger(b), NEW c, IsLedger(c), SameRate(b, c),
           c.passes = b.passes, c.over = b.over, Within(b)
    PROVE  Within(c)
<1>1. \A x, y \in Nat : Between(c, x, y) = Between(b, x, y)
  BY DEF Between
<1>2. \A x, y \in Nat : Cardinality(Between(b, x, y)) \in Nat
  BY BetweenFew
<1>3. PICK cap, full, begin, early, more, cost :
          /\ cap = b.cap /\ full = b.full /\ begin = b.first /\ early = b.early
          /\ more = c.early /\ cost = b.cost
  OBVIOUS
<1>4. /\ cap \in Nat /\ full \in Nat /\ begin \in Nat /\ early \in Nat
      /\ more \in Nat /\ cost \in Nat /\ early <= more
      /\ c.cap = cap /\ c.cost = cost /\ c.full = full /\ c.first = begin
  BY <1>3 DEF IsLedger, SameRate
<1>5. ASSUME NEW x \in Nat, NEW y \in Nat
      PROVE  /\ Cardinality(Between(c, 0, y)) * cost <= begin + cap * y + more
             /\ x <= y => Cardinality(Between(c, x, y)) * cost
                             <= full + cap * (y - x) + more
  <2>1. PICK p, q, u, v : /\ p = Cardinality(Between(b, 0, y)) * cost
                          /\ q = Cardinality(Between(b, x, y)) * cost
                          /\ u = cap * y /\ v = cap * (y - x)
    OBVIOUS
  <2>2. p \in Int /\ q \in Int
    <3>1. Cardinality(Between(b, 0, y)) \in Nat /\ Cardinality(Between(b, x, y)) \in Nat
      BY <1>2
    <3>2. QED
      BY <1>4, <2>1, <3>1, LessToPay
  <2>3. u \in Int /\ v \in Int
    BY <1>4, <2>1, Distributes
  <2>4. p <= begin + u + early /\ (x <= y => q <= full + v + early)
    BY <1>3, <2>1 DEF Within
  <2>5. p <= begin + u + more /\ (x <= y => q <= full + v + more)
    BY <1>4, <2>2, <2>3, <2>4
  <2>6. QED
    BY <1>1, <2>1, <2>5
<1>6. QED
  BY <1>3, <1>4, <1>5 DEF Within

\* A row that is pruned has not been saved for so long that a new one accounts
\* for all calls, but for what flows in during a call.
LEMMA PrunedEmpties ==
    ASSUME NEW b, IsLedger(b), NEW tokens \in Nat, NEW updated \in Int,
           AccountsFor(b, tokens, updated, Len(b.passes)),
           NEW refill \in Nat, b.full = b.cap * refill,
           NEW since \in Int, NEW slack \in Nat,
           b.cap * (refill + updated - since) <= slack
    PROVE  Emptied(b, since, slack)
<1>1. PICK cap, full, begin, early, cost, n :
          /\ cap = b.cap /\ full = b.full /\ begin = b.first /\ early = b.early
          /\ cost = b.cost /\ n = Len(b.passes)
  OBVIOUS
<1>2. /\ cap \in Nat /\ full \in Nat /\ begin \in Nat /\ early \in Nat
      /\ cost \in Nat /\ n \in Nat /\ full = cap * refill
  BY <1>1 DEF IsLedger
<1>3. PICK u, v : u = cap * updated /\ v = cap * since
  OBVIOUS
<1>4. u \in Int /\ v \in Int
  BY <1>2, <1>3, Distributes
<1>5. full + u - v <= slack
  <2>1. PICK sum : sum = refill + updated
    OBVIOUS
  <2>2. sum \in Int /\ cap * (sum - since) <= slack
    BY <1>1, <2>1
  <2>3. cap * (sum - since) = cap * sum - v
    BY <1>2, <1>3, <2>2, Distributes
  <2>4. cap * sum = full + u
    BY <1>2, <1>3, <2>1
  <2>5. QED
    BY <1>2, <1>4, <2>2, <2>3, <2>4
<1>6. \A a \in Nat : Count(b, a, n) \in Nat /\ Count(b, a, n) * cost \in Nat
  <2>1. \A a \in Nat : Count(b, a, n) \in Nat
    BY <1>2, CountedFew
  <2>2. QED
    BY <1>2, <2>1, Paid
<1>7. ASSUME NEW a \in Nat, Count(b, a, n) # 0
      PROVE  Count(b, a, n) * cost <= cap * (since - a) + early + slack
  <2>1. PICK p, x, y : /\ p = Count(b, a, n) * cost
                       /\ x = cap * (updated - a) /\ y = cap * (since - a)
    OBVIOUS
  <2>2. x \in Int /\ y \in Int /\ x - y = u - v
    <3>1. PICK w : w = cap * a
      OBVIOUS
    <3>2. x = u - w /\ y = v - w /\ w \in Int
      BY <1>2, <1>3, <2>1, <3>1, Distributes
    <3>3. QED
      BY <1>4, <3>2
  <2>3. p \in Int /\ p + tokens <= full + x + early
    BY <1>1, <1>6, <1>7, <2>1 DEF AccountsFor
  <2>4. p <= y + early + slack
    BY <1>2, <1>4, <1>5, <2>2, <2>3
  <2>5. QED
    BY <2>1, <2>4
<1>8. Count(b, 0, n) * cost + full <= begin + cap * since + early + slack
  <2>1. PICK p : p = Count(b, 0, n) * cost
    OBVIOUS
  <2>2. p \in Int /\ p + tokens <= begin + u + early
    BY <1>1, <1>3, <1>6, <2>1 DEF AccountsFor
  <2>3. p + full <= begin + v + early + slack
    BY <1>2, <1>4, <1>5, <2>2
  <2>4. QED
    BY <1>3, <2>1, <2>3
<1>9. QED
  BY <1>1, <1>7, <1>8 DEF Emptied

\* As time goes by, the more so.
LEMMA StillEmptied ==
    ASSUME NEW b, IsLedger(b), NEW since \in Int, NEW later \in Int, since <= later,
           NEW slack \in Nat, Emptied(b, since, slack)
    PROVE  Emptied(b, later, slack)
<1>1. PICK cap, full, begin, early, cost, n :
          /\ cap = b.cap /\ full = b.full /\ begin = b.first /\ early = b.early
          /\ cost = b.cost /\ n = Len(b.passes)
  OBVIOUS
<1>2. /\ cap \in Nat /\ full \in Nat /\ begin \in Nat /\ early \in Nat
      /\ cost \in Nat /\ n \in Nat
  BY <1>1 DEF IsLedger
<1>3. \A a \in Nat : Count(b, a, n) \in Nat /\ Count(b, a, n) * cost \in Nat
  <2>1. \A a \in Nat : Count(b, a, n) \in Nat
    BY <1>2, CountedFew
  <2>2. QED
    BY <1>2, <2>1, Paid
<1>4. ASSUME NEW a \in Nat, Count(b, a, n) * cost <= cap * (since - a) + early + slack
      PROVE  Count(b, a, n) * cost <= cap * (later - a) + early + slack
  <2>1. PICK p, x, y : /\ p = Count(b, a, n) * cost
                       /\ x = cap * (since - a) /\ y = cap * (later - a)
    OBVIOUS
  <2>2. x \in Int /\ y \in Int /\ x <= y /\ p \in Int
    BY <1>2, <1>3, <2>1, TimesMonotone, Distributes
  <2>3. p <= x + early + slack
    BY <1>4, <2>1
  <2>4. p <= y + early + slack
    BY <1>2, <2>2, <2>3
  <2>5. QED
    BY <2>1, <2>4
<1>5. ASSUME Count(b, 0, n) * cost + full <= begin + cap * since + early + slack
      PROVE  Count(b, 0, n) * cost + full <= begin + cap * later + early + slack
  <2>1. PICK p, x, y : /\ p = Count(b, 0, n) * cost
                       /\ x = cap * since /\ y = cap * later
    OBVIOUS
  <2>2. x \in Int /\ y \in Int /\ x <= y /\ p \in Int
    BY <1>2, <1>3, <2>1, TimesMonotone, Distributes
  <2>3. p + full <= begin + x + early + slack
    BY <1>5, <2>1
  <2>4. p + full <= begin + y + early + slack
    BY <1>2, <2>2, <2>3
  <2>5. QED
    BY <2>1, <2>4
<1>6. QED
  BY <1>1, <1>4, <1>5 DEF Emptied

\* A new row accounts for all calls, as one more row may have been pruned early.
LEMMA CreatedAccounts ==
    ASSUME NEW b, IsLedger(b), NEW c, IsLedger(c), SameRate(b, c),
           c.passes = b.passes, c.over = b.over,
           NEW slack \in Nat, c.early = b.early + slack,
           NEW since \in Int, Emptied(b, since, slack), NEW now \in Nat, since <= now
    PROVE  AccountsFor(c, c.full, now, Len(c.passes))
<1>1. PICK cap, full, begin, early, cost, n :
          /\ cap = b.cap /\ full = b.full /\ begin = b.first /\ early = c.early
          /\ cost = b.cost /\ n = Len(b.passes)
  OBVIOUS
<1>2. /\ cap \in Nat /\ full \in Nat /\ begin \in Nat /\ early \in Nat
      /\ cost \in Nat /\ n \in Nat /\ early = b.early + slack /\ b.early \in Nat
      /\ c.cap = cap /\ c.cost = cost /\ c.full = full /\ c.first = begin
      /\ Len(c.passes) = n
  BY <1>1 DEF IsLedger, SameRate
<1>3. \A a, k \in Nat : Count(c, a, k) = Count(b, a, k)
  BY DEF Count, Counted
<1>4. \A a \in Nat : Count(b, a, n) \in Nat /\ Count(b, a, n) * cost \in Nat
  <2>1. \A a \in Nat : Count(b, a, n) \in Nat
    BY <1>2, CountedFew
  <2>2. QED
    BY <1>2, <2>1, Paid
<1>5. Emptied(b, now, slack)
  BY StillEmptied
<1>6. ASSUME NEW a \in Nat, Count(b, a, n) # 0
      PROVE  Count(b, a, n) * cost + full <= full + cap * (now - a) + early
  <2>1. PICK p, x : p = Count(b, a, n) * cost /\ x = cap * (now - a)
    OBVIOUS
  <2>2. p \in Int /\ x \in Int
    BY <1>2, <1>4, <2>1, Distributes
  <2>3. p <= x + b.early + slack
    BY <1>1, <1>5, <1>6, <2>1 DEF Emptied
  <2>4. p + full <= full + x + early
    BY <1>2, <2>2, <2>3, SMTT(30)
  <2>5. QED
    BY <2>1, <2>4
<1>7. Count(b, 0, n) * cost + full <= begin + cap * now + early
  <2>1. PICK p, x : p = Count(b, 0, n) * cost /\ x = cap * now
    OBVIOUS
  <2>2. p \in Int /\ x \in Int /\ x >= 0 /\ (Count(b, 0, n) = 0 => p = 0)
    BY <1>2, <1>4, <2>1, Distributes
  <2>3. \/ p + full <= begin + x + b.early + slack
        \/ begin = full /\ Count(b, 0, n) = 0
    BY <1>1, <1>5, <2>1 DEF Emptied
  <2>4. p + full <= begin + x + early
    BY <1>2, <2>2, <2>3
  <2>5. QED
    BY <2>1, <2>4
<1>8. QED
  BY <1>2, <1>3, <1>6, <1>7 DEF AccountsFor

Slack == rate.capacity * Max({rate.refill + Longest - Day - 1, 0})

Ledger == [cap |-> rate.capacity, cost |-> Cost, full |-> Full, first |-> first,
           early |-> Early, passes |-> passes, over |-> overwritten]

RateInv ==
    ~rate.force =>
        /\ bucket # NoBucket =>
              /\ bucket.tokens \in Nat
              /\ AccountsFor(Ledger, bucket.tokens, bucket.updated, Len(passes))
        /\ bucket = NoBucket => Emptied(Ledger, clock - Longest, Slack)
        /\ \A k \in Calls : call[k].at = "save" =>
              /\ call[k].tokens \in Nat /\ call[k].tokens + Cost <= Full
              /\ AccountsFor(Ledger, call[k].tokens + Cost, call[k].now, call[k].seen)
        /\ Within(Ledger)

LEMMA SlackFacts ==
    ASSUME TokensTypeOK
    PROVE  /\ Slack \in Nat /\ Early = Slack * (made - 1) /\ Early \in Nat
           /\ rate.capacity * (rate.refill + (clock - Day - 1) - (clock - Longest))
                 <= Slack
<1>1. PICK cap, refill, d : cap = rate.capacity /\ refill = rate.refill
                            /\ d = refill + Longest - Day - 1
  OBVIOUS
<1>2. cap \in Nat /\ refill \in Nat /\ d \in Int
  BY <1>1, RateFacts, TokensAssumption DEF Day, Hour
<1>3. PICK m : m = Max({d, 0})
  OBVIOUS
<1>4. m \in Nat /\ d <= m
  <2>1. Max({d, 0}) \in {d, 0} /\ Max({d, 0}) >= d /\ Max({d, 0}) >= 0
    BY <1>2, MaxOfTwo
  <2>2. QED
    BY <1>2, <1>3, <2>1
<1>5. Slack = cap * m /\ Early = cap * m * (made - 1)
  BY <1>1, <1>3 DEF Slack, Early
<1>6. Slack \in Nat
  BY <1>2, <1>4, <1>5, Paid
<1>7. made - 1 \in Nat
  BY DEF TokensTypeOK
<1>8. Early = Slack * (made - 1) /\ Early \in Nat
  BY <1>5, <1>6, <1>7, Paid
<1>9. rate.refill + (clock - Day - 1) - (clock - Longest) = d
  BY <1>1, <1>2, TokensAssumption DEF TokensTypeOK, Day, Hour
<1>10. cap * d <= cap * m
  BY <1>2, <1>4, TimesMonotone
<1>11. QED
  BY <1>1, <1>5, <1>6, <1>8, <1>9, <1>10

LEMMA LedgerFacts ==
    ASSUME TokensTypeOK
    PROVE  IsLedger(Ledger)
BY RateFacts, SlackFacts DEF Ledger, IsLedger, TokensTypeOK

LEMMA LedgerNext ==
    ASSUME TokensTypeOK, TokensTypeOK',
           UNCHANGED <<rate, first>>,
           made' \in {made, made + 1},
           NEW b, b = Ledger, NEW c, c = Ledger'
    PROVE  /\ IsLedger(b) /\ IsLedger(c) /\ SameRate(b, c)
           /\ Slack' = Slack /\ Full' = Full /\ Cost' = Cost
           /\ made' = made => c.early = b.early
           /\ made' = made + 1 => c.early = b.early + Slack
           /\ b.passes = passes /\ c.passes = passes'
           /\ b.over = overwritten /\ c.over = overwritten'
           /\ b.cap = rate.capacity /\ b.cost = Cost /\ b.full = Full
           /\ b.first = first /\ b.early = Early
<1>1. Slack' = Slack /\ Full' = Full /\ Cost' = Cost
  BY DEF Slack, Full, Cost
<1>2. Slack \in Nat /\ Early = Slack * (made - 1) /\ Early' = Slack * (made' - 1)
  BY <1>1, SlackFacts DEF Early, Slack
<1>3. made \in Nat \ {0}
  BY DEF TokensTypeOK
<1>4. made' = made + 1 => Early' = Early + Slack
  <2>1. ASSUME made' = made + 1 PROVE Early' = Early + Slack
    <3>1. PICK s, m : s = Slack /\ m = made - 1
      OBVIOUS
    <3>2. s \in Nat /\ m \in Nat /\ made' - 1 = m + 1
      BY <1>2, <1>3, <2>1, <3>1
    <3>3. s * (m + 1) = s * m + s
      BY <3>2
    <3>4. QED
      BY <1>2, <3>1, <3>2, <3>3
  <2>2. QED
    BY <2>1
<1>5. made' = made => Early' = Early
  BY <1>2
<1>6. Early \in Nat /\ Early' \in Nat /\ Early <= Early'
  BY <1>2, <1>4, <1>5, SlackFacts
<1>7. IsLedger(b)
  BY LedgerFacts
<1>8. /\ c.cap = b.cap /\ c.cost = b.cost /\ c.full = b.full /\ c.first = b.first
      /\ b.early = Early /\ c.early = Early' /\ c.passes = passes' /\ c.over = overwritten'
      /\ b.passes = passes /\ b.over = overwritten
      /\ b.cap = rate.capacity /\ b.cost = Cost /\ b.full = Full /\ b.first = first
  BY <1>1 DEF Ledger
<1>9. IsLedger(c)
  BY <1>6, <1>7, <1>8 DEF IsLedger, TokensTypeOK
<1>10. QED
  BY <1>1, <1>4, <1>5, <1>6, <1>7, <1>8, <1>9 DEF SameRate

LEMMA NothingCounted ==
    ASSUME NEW b, IsLedger(b), b.passes = <<>>
    PROVE  /\ \A a, n \in Nat : Count(b, a, n) = 0
           /\ \A x, y \in Nat : Cardinality(Between(b, x, y)) = 0
<1>1. DOMAIN b.passes = {}
  OBVIOUS
<1>2. \A a, n \in Nat : Counted(b, a, n) = {}
  BY <1>1 DEF Counted
<1>3. \A x, y \in Nat : Between(b, x, y) = {}
  BY <1>1 DEF Between
<1>4. QED
  BY <1>2, <1>3, FS_EmptySet DEF Count

LEMMA RateInvInit == TokensInit => RateInv
<1> SUFFICES ASSUME TokensInit, ~rate.force PROVE RateInv
  BY DEF RateInv
<1>1. TokensTypeOK
  BY TokensBaseInit DEF TokensBase
<1>2. PICK b : b = Ledger
  OBVIOUS
<1>3. IsLedger(b) /\ b.passes = <<>> /\ b.full = Full /\ b.first = first
      /\ passes = <<>> /\ clock = 0 /\ b.cost = Cost
  BY <1>1, <1>2, LedgerFacts DEF Ledger, TokensInit
<1>4. PICK cap, full, early, cost : /\ cap = b.cap /\ full = b.full /\ early = b.early
                                    /\ cost = b.cost
  OBVIOUS
<1>5. cap \in Nat /\ full \in Nat /\ early \in Nat /\ cost \in Nat
  BY <1>3, <1>4 DEF IsLedger
<1>6. /\ \A a, n \in Nat : Count(b, a, n) = 0
      /\ \A x, y \in Nat : Cardinality(Between(b, x, y)) = 0
  BY <1>3, NothingCounted
<1>7. first \in {0, full} /\ first \in Nat /\ b.first = first
  BY <1>1, <1>3, <1>4, RateFacts DEF TokensTypeOK
<1>8. AccountsFor(b, first, 0, 0)
  <2>1. Count(b, 0, 0) * cost + first <= b.first + cap * 0 + early
    BY <1>5, <1>6, <1>7
  <2>2. QED
    BY <1>4, <1>6, <2>1 DEF AccountsFor
<1>9. first = full => Emptied(b, clock - Longest, Slack)
  BY <1>3, <1>4, <1>6, <1>7 DEF Emptied
<1>10. Within(b)
  <2>1. ASSUME NEW x \in Nat, NEW y \in Nat
        PROVE  /\ 0 * cost <= b.first + cap * y + early
               /\ x <= y => 0 * cost <= full + cap * (y - x) + early
    <3>1. cap * y \in Nat /\ (x <= y => y - x \in Nat)
      BY <1>5, Paid
    <3>2. x <= y => cap * (y - x) \in Nat
      BY <1>5, <3>1, Paid
    <3>3. PICK u, v : u = cap * y /\ v = cap * (y - x)
      OBVIOUS
    <3>4. 0 <= b.first + u + early /\ (x <= y => 0 <= full + v + early)
      BY <1>5, <1>7, <3>1, <3>2, <3>3
    <3>5. QED
      BY <1>5, <3>3, <3>4
  <2>2. QED
    BY <1>4, <1>6, <2>1 DEF Within
<1>11. \A k \in Calls : call[k].at # "save"
  BY DEF TokensInit, NoCall
<1>12. bucket # NoBucket => bucket.tokens = first /\ bucket.updated = 0
  BY DEF TokensInit
<1>13. bucket = NoBucket => first = full
  BY <1>3, <1>4, TokensAssumption, <1>7, <1>1 DEF TokensInit, TokensTypeOK
<1>14. Len(passes) = 0
  BY <1>3
<1>15. QED
  BY <1>2, <1>7, <1>8, <1>9, <1>10, <1>11, <1>12, <1>13, <1>14 DEF RateInv

LEMMA RateInvNext ==
    TokensBase /\ RateInv /\ [TokensNext]_tokenVars => RateInv'
<1> SUFFICES ASSUME TokensBase, RateInv, [TokensNext]_tokenVars, ~rate'.force
             PROVE  RateInv'
  BY DEF RateInv
<1>1. TokensBase' /\ TokensTypeOK /\ TokensTypeOK' /\ TokensTimely
  BY TokensBaseNext DEF TokensBase
<1>2. UNCHANGED <<rate, first>> /\ made' \in {made, made + 1}
  BY DEF TokensNext, tokenVars, AskStorage, StorageAnswers, Authorize, GetOrCreate,
         SaveBucket, PruneBuckets, Tick
<1>3. PICK b : b = Ledger
  OBVIOUS
<1>4. PICK c : c = Ledger'
  OBVIOUS
<1>5. /\ IsLedger(b) /\ IsLedger(c) /\ SameRate(b, c)
      /\ Slack' = Slack /\ Full' = Full /\ Cost' = Cost
      /\ made' = made => c.early = b.early
      /\ made' = made + 1 => c.early = b.early + Slack
      /\ b.passes = passes /\ c.passes = passes'
      /\ b.over = overwritten /\ c.over = overwritten'
      /\ b.cap = rate.capacity /\ b.cost = Cost /\ b.full = Full
  BY <1>1, <1>2, <1>3, <1>4, LedgerNext
<1>6. /\ bucket # NoBucket =>
            bucket.tokens \in Nat /\ AccountsFor(b, bucket.tokens, bucket.updated, Len(passes))
      /\ bucket = NoBucket => Emptied(b, clock - Longest, Slack)
      /\ \A k \in Calls : call[k].at = "save" =>
            /\ call[k].tokens \in Nat /\ call[k].tokens + Cost <= Full
            /\ AccountsFor(b, call[k].tokens + Cost, call[k].now, call[k].seen)
      /\ Within(b)
  BY <1>2, <1>3 DEF RateInv
<1> DEFINE Goal ==
        /\ bucket' # NoBucket =>
            /\ bucket'.tokens \in Nat
            /\ AccountsFor(c, bucket'.tokens, bucket'.updated, Len(passes'))
        /\ bucket' = NoBucket => Emptied(c, clock' - Longest, Slack)
        /\ \A k \in Calls : call'[k].at = "save" =>
            /\ call'[k].tokens \in Nat /\ call'[k].tokens + Cost <= Full
            /\ AccountsFor(c, call'[k].tokens + Cost, call'[k].now, call'[k].seen)
        /\ Within(c)
<1>7. SUFFICES Goal
  BY <1>4, <1>5 DEF RateInv
<1>8. Slack \in Nat /\ Len(passes) \in Nat /\ Full \in Nat /\ Cost \in Nat \ {0}
      /\ clock \in Nat /\ Longest \in Nat
  BY <1>1, SlackFacts, RateFacts, TokensAssumption DEF TokensTypeOK
\* As long as the authorized calls are the same.
<1>9. ASSUME UNCHANGED <<passes, overwritten>>
      PROVE  /\ Within(c)
             /\ \A tokens, updated \in Int : \A n \in 0 .. Len(passes) :
                   AccountsFor(b, tokens, updated, n) => AccountsFor(c, tokens, updated, n)
  <2>1. c.passes = b.passes /\ c.over = b.over
    BY <1>5, <1>9
  <2>2. Within(c)
    BY <1>5, <1>6, <2>1, StillWithin
  <2>3. ASSUME NEW tokens \in Int, NEW updated \in Int, NEW n \in 0 .. Len(passes),
               AccountsFor(b, tokens, updated, n)
        PROVE  AccountsFor(c, tokens, updated, n)
    <3>1. n \in 0 .. Len(b.passes) /\ b.over \subseteq c.over
      BY <1>5, <2>1
    <3>2. QED
      BY <1>5, <2>1, <2>3, <3>1, StillAccounts
  <2>4. QED
    BY <2>2, <2>3
<1>10. ASSUME UNCHANGED <<passes, overwritten, made>>
       PROVE  c = b
  <2>1. UNCHANGED <<Cost, Full, Early>>
    BY <1>2, <1>5, <1>10 DEF Early
  <2>2. QED
    BY <1>2, <1>3, <1>4, <1>10, <2>1 DEF Ledger
<1>11. ASSUME NEW k \in Calls, AskStorage(k) \/ StorageAnswers(k) \/ Authorize(k)
       PROVE  /\ UNCHANGED <<clock, bucket, passes>> /\ c = b
              /\ \A j \in Calls : call'[j].at = "save" => call'[j] = call[j]
  <2>1. UNCHANGED <<clock, bucket, passes, overwritten, made>>
    BY <1>11 DEF AskStorage, StorageAnswers, Authorize
  <2>2. \E d : call' = [call EXCEPT ![k] = d] /\ d.at # "save"
    BY <1>11 DEF AskStorage, StorageAnswers, Authorize, NoCall
  <2>3. QED
    BY <1>1, <1>10, <2>1, <2>2 DEF TokensTypeOK
<1>12. ASSUME NEW k \in Calls, AskStorage(k) \/ StorageAnswers(k) \/ Authorize(k)
       PROVE  Goal
  BY <1>6, <1>11, <1>12
<1>13. ASSUME NEW k \in Calls, GetOrCreate(k)
       PROVE  Goal
  <2>1. /\ call[k].at = "get" /\ UNCHANGED <<clock, passes, overwritten>>
        /\ InTime(call[k]) /\ call[k].now \in Nat
    BY <1>1, <1>13, TokenCalls DEF GetOrCreate, TokensTimely
  <2>2. PICK now, n : now = call[k].now /\ n = Len(passes)
    OBVIOUS
  <2>3. now \in Nat /\ clock - Longest <= now /\ clock - Longest \in Int /\ n \in Nat
        /\ clock - Longest <= clock
    BY <1>8, <2>1, <2>2 DEF InTime
  \* What the call reads accounts for all calls.
  <2>4. \E id \in Nat, read \in Int :
           /\ Decide(k, id, read) /\ read <= Full
           /\ AccountsFor(c, read, now, n)
           /\ bucket' # NoBucket /\ bucket'.tokens \in Nat
           /\ AccountsFor(c, bucket'.tokens, bucket'.updated, n)
    <3>1. CASE bucket = NoBucket
      <4>1. /\ made' = made + 1 /\ Decide(k, made + 1, Full)
            /\ bucket' = [id |-> made + 1, tokens |-> Full, updated |-> clock]
        BY <1>13, <3>1 DEF GetOrCreate
      <4>2. /\ c.early = b.early + Slack /\ c.full = Full
            /\ c.passes = b.passes /\ c.over = b.over /\ Len(c.passes) = n
        BY <1>5, <2>1, <2>2, <4>1 DEF SameRate
      <4>3. PICK since : since = clock - Longest
        OBVIOUS
      <4>4. Emptied(b, since, Slack) /\ since \in Int /\ since <= now /\ since <= clock
        BY <1>6, <2>3, <3>1, <4>3
      <4>5. AccountsFor(c, Full, now, n) /\ AccountsFor(c, Full, clock, n)
        BY <1>5, <1>8, <2>3, <4>2, <4>4, CreatedAccounts
      <4>6. made + 1 \in Nat /\ bucket' # NoBucket
        BY <1>1, <1>8, <4>1, TokensAssumption DEF TokensTypeOK
      <4>7. QED
        BY <1>8, <4>1, <4>5, <4>6
    <3>2. CASE bucket # NoBucket
      <4>1. /\ bucket' = bucket /\ made' = made
            /\ Decide(k, bucket.id, TopUp(bucket, now))
        BY <1>13, <2>2, <3>2 DEF GetOrCreate
      <4>2. c = b
        BY <1>10, <2>1, <4>1
      <4>3. bucket \in Buckets
        BY <1>1, <3>2 DEF TokensTypeOK
      <4>4. PICK read, all : /\ read = TopUp(bucket, now)
                             /\ all = bucket.tokens + rate.capacity * (now - bucket.updated)
        OBVIOUS
      <4>5. read \in Int /\ read <= Full /\ read <= all
        BY <1>1, <2>3, <4>3, <4>4, TopUpBounds
      <4>6. PICK tokens, updated : tokens = bucket.tokens /\ updated = bucket.updated
        OBVIOUS
      <4>7. tokens \in Nat /\ updated \in Nat /\ AccountsFor(b, tokens, updated, n)
        BY <1>6, <2>2, <3>2, <4>3, <4>6 DEF Buckets
      <4>8. read <= tokens + b.cap * (now - updated)
        BY <1>5, <4>4, <4>5, <4>6
      <4>9. AccountsFor(b, read, now, n)
        BY <1>5, <2>3, <4>5, <4>7, <4>8, ReadAccounts
      <4>10. bucket.id \in Nat
        BY <4>3 DEF Buckets
      <4>11. QED
        BY <3>2, <4>1, <4>2, <4>4, <4>5, <4>6, <4>7, <4>9, <4>10
    <3>3. QED
      BY <3>1, <3>2
  <2>5. PICK id \in Nat, read \in Int :
           /\ Decide(k, id, read) /\ read <= Full
           /\ AccountsFor(c, read, now, n)
           /\ bucket' # NoBucket /\ bucket'.tokens \in Nat
           /\ AccountsFor(c, bucket'.tokens, bucket'.updated, n)
    BY <2>4
  <2>6. /\ \A j \in Calls : j # k => call'[j] = call[j]
        /\ call'[k].at = "save" =>
              /\ call'[k].now = now /\ call'[k].tokens = read - Cost
              /\ call'[k].seen = n /\ read - Cost >= 0
    BY <1>1, <1>2, <2>1, <2>2, <2>5, DecideSaves
  <2>7. ASSUME NEW j \in Calls, call'[j].at = "save"
        PROVE  /\ call'[j].tokens \in Nat /\ call'[j].tokens + Cost <= Full
               /\ AccountsFor(c, call'[j].tokens + Cost, call'[j].now, call'[j].seen)
    <3>1. CASE j = k
      <4>1. read - Cost \in Nat /\ read - Cost + Cost = read
        BY <1>8, <2>5, <2>6, <2>7, <3>1
      <4>2. QED
        BY <2>5, <2>6, <2>7, <3>1, <4>1
    <3>2. CASE j # k
      <4>1. call'[j] = call[j]
        BY <2>6, <3>2
      <4>2. PICK t, u, m : t = call[j].tokens + Cost /\ u = call[j].now /\ m = call[j].seen
        OBVIOUS
      <4>3. t \in Int /\ u \in Int /\ m \in 0 .. Len(passes)
        BY <1>1, <1>8, <2>7, <4>1, <4>2, TokenCalls DEF TokensTimely
      <4>4. AccountsFor(b, t, u, m) /\ call[j].tokens \in Nat /\ call[j].tokens + Cost <= Full
        BY <1>6, <2>7, <4>1, <4>2
      <4>5. AccountsFor(c, t, u, m)
        BY <1>9, <2>1, <4>3, <4>4
      <4>6. QED
        BY <4>1, <4>2, <4>4, <4>5
    <3>3. QED
      BY <3>1, <3>2
  <2>8. Within(c) /\ Len(passes') = n
    BY <1>9, <2>1, <2>2
  <2>9. QED
    BY <2>5, <2>7, <2>8
<1>14. ASSUME NEW k \in Calls, SaveBucket(k)
       PROVE  Goal
  <2>1. /\ call[k].at = "save" /\ UNCHANGED <<clock, made>>
        /\ call[k].now \in Nat /\ call[k].seen \in Nat /\ call[k].seen <= Len(passes)
        /\ call' = [call EXCEPT ![k] = NoCall]
    BY <1>1, <1>14, TokenCalls DEF SaveBucket, TokensTimely
  <2>2. \A j \in Calls : call'[j].at = "save" => j # k /\ call'[j] = call[j]
    BY <1>1, <2>1 DEF TokensTypeOK, NoCall
  <2>3. PICK now, n, tokens : now = call[k].now /\ n = call[k].seen
                              /\ tokens = call[k].tokens
    OBVIOUS
  <2>4. /\ now \in Nat /\ n \in 0 .. Len(b.passes) /\ tokens \in Nat
        /\ tokens + b.cost <= b.full /\ AccountsFor(b, tokens + b.cost, now, n)
    BY <1>5, <1>6, <1>8, <2>1, <2>3
  <2>5. CASE bucket # NoBucket /\ bucket.id # call[k].id
    <3>1. UNCHANGED <<bucket, passes, overwritten>>
      BY <1>14, <2>5 DEF SaveBucket
    <3>2. c = b
      BY <1>10, <2>1, <3>1
    <3>3. QED
      BY <1>6, <2>1, <2>2, <2>5, <3>1, <3>2
  <2>6. CASE ~(bucket # NoBucket /\ bucket.id # call[k].id)
    <3>1. /\ bucket' = [id |-> call[k].id, tokens |-> tokens, updated |-> now]
          /\ passes' = Append(passes, now)
          /\ overwritten' = overwritten \union (n + 1 .. Len(passes))
      BY <1>14, <2>3, <2>6 DEF SaveBucket
    <3>2. Saved(b, c, now, n) /\ b.over \subseteq c.over
          /\ c.passes = Append(b.passes, now)
      BY <1>5, <3>1 DEF Saved
    <3>3. AccountsFor(c, tokens, now, Len(c.passes))
      <4>1. PICK sum : sum = tokens + b.cost
        OBVIOUS
      <4>2. tokens \in Int /\ tokens + b.cost <= b.full
            /\ AccountsFor(b, tokens + b.cost, now, n)
        BY <2>4
      <4>3. IsLedger(b) /\ IsLedger(c) /\ now \in Nat /\ n \in 0 .. Len(b.passes)
            /\ Saved(b, c, now, n)
        BY <1>5, <2>4, <3>2
      <4>4. QED
        BY <4>2, <4>3, SavedAccounts
    <3>4. Within(c)
      BY <1>5, <1>6, <2>4, <3>2, <3>3, SavedWithin
    <3>5. bucket' # NoBucket /\ bucket'.tokens = tokens /\ bucket'.updated = now
      <4>1. call[k].id \in Nat
        BY <1>1, <2>1, TokenCalls
      <4>2. bucket' \in [id : Nat, tokens : Int, updated : Nat]
        BY <2>4, <3>1, <4>1
      <4>3. QED
        BY <3>1, <4>2, TokensAssumption
    <3>6. ASSUME NEW j \in Calls, call'[j].at = "save"
          PROVE  /\ call'[j].tokens \in Nat /\ call'[j].tokens + Cost <= Full
                 /\ AccountsFor(c, call'[j].tokens + Cost, call'[j].now, call'[j].seen)
      <4>1. call'[j] = call[j]
        BY <2>2, <3>6
      <4>2. PICK t, u, m : t = call[j].tokens + Cost /\ u = call[j].now /\ m = call[j].seen
        OBVIOUS
      <4>3. t \in Int /\ u \in Int /\ m \in 0 .. Len(b.passes)
        BY <1>1, <1>5, <1>8, <3>6, <4>1, <4>2, TokenCalls DEF TokensTimely
      <4>4. AccountsFor(b, t, u, m) /\ call[j].tokens \in Nat /\ call[j].tokens + Cost <= Full
        BY <1>6, <3>6, <4>1, <4>2
      <4>5. AccountsFor(c, t, u, m)
        BY <1>5, <2>4, <3>2, <4>3, <4>4, StillAccounts
      <4>6. QED
        BY <4>1, <4>2, <4>4, <4>5
    <3>7. QED
      BY <1>5, <2>4, <3>3, <3>4, <3>5, <3>6
  <2>7. QED
    BY <2>5, <2>6
<1>15. CASE PruneBuckets
  <2>1. /\ bucket' = NoBucket /\ UNCHANGED <<clock, call>> /\ c = b
        /\ bucket # NoBucket /\ bucket.updated < clock - Day
    BY <1>10, <1>15 DEF PruneBuckets
  <2>2. PICK refill, tokens, updated, since :
           /\ refill = rate.refill /\ tokens = bucket.tokens
           /\ updated = bucket.updated /\ since = clock - Longest
    OBVIOUS
  <2>3. /\ refill \in Nat /\ tokens \in Nat /\ updated \in Nat /\ since \in Int
        /\ updated <= clock - Day - 1
    BY <1>1, <1>6, <1>8, <2>1, <2>2, RateFacts DEF TokensTypeOK, Buckets, Day, Hour
  <2>4. b.full = b.cap * refill
    BY <1>5, <2>2 DEF Full
  <2>5. b.cap * (refill + updated - since) <= Slack
    <3>1. PICK x, y : x = refill + updated - since
                      /\ y = refill + (clock - Day - 1) - since
      OBVIOUS
    <3>2. x \in Int /\ y \in Int /\ x <= y
      BY <1>8, <2>3, <3>1 DEF Day, Hour
    <3>3. b.cap * x <= b.cap * y /\ b.cap * x \in Int /\ b.cap * y \in Int
      BY <1>5, <3>2, TimesMonotone, Distributes, SMTT(30) DEF IsLedger
    <3>4. b.cap * y <= Slack
      BY <1>1, <1>5, <2>2, <3>1, SlackFacts
    <3>5. QED
      BY <1>8, <3>1, <3>3, <3>4
  <2>6. AccountsFor(b, tokens, updated, Len(b.passes))
    BY <1>5, <1>6, <2>1, <2>2
  <2>7. Emptied(b, since, Slack)
    BY <1>5, <1>8, <2>3, <2>4, <2>5, <2>6, PrunedEmpties, SMTT(30)
  <2>8. QED
    BY <1>6, <2>1, <2>2, <2>7
<1>16. CASE Tick
  <2>1. PICK d \in Jumps : clock' = clock + d
    BY <1>16 DEF Tick
  <2>2. clock <= clock' /\ clock' \in Nat
    BY <1>1, <1>8, <2>1, JumpsForward
  <2>3. UNCHANGED <<bucket, call, passes>> /\ c = b
    BY <1>10, <1>16 DEF Tick
  <2>4. PICK since, later, t : since = clock - Longest /\ later = t - Longest
                               /\ t = clock'
    OBVIOUS
  <2>5. since \in Int /\ later \in Int /\ since <= later
    <3>1. \A x, y, l \in Nat : x <= y =>
             x - l \in Int /\ y - l \in Int /\ x - l <= y - l
      OBVIOUS
    <3>2. clock \in Nat /\ t \in Nat /\ clock <= t /\ Longest \in Nat
      BY <1>8, <2>2, <2>4
    <3>3. /\ clock - Longest \in Int /\ t - Longest \in Int
          /\ clock - Longest <= t - Longest
      BY <3>1, <3>2
    <3>4. QED
      BY <2>4, <3>3
  <2>6. bucket = NoBucket => Emptied(b, later, Slack)
    BY <1>5, <1>6, <1>8, <2>4, <2>5, StillEmptied
  <2>7. QED
    BY <1>6, <2>3, <2>4, <2>6
<1>17. CASE UNCHANGED tokenVars
  <2>1. UNCHANGED <<bucket, call, passes, clock>> /\ c = b
    BY <1>10, <1>17 DEF tokenVars
  <2>2. QED
    BY <1>6, <2>1
<1>18. QED
  BY <1>12, <1>13, <1>14, <1>15, <1>16, <1>17 DEF TokensNext

LEMMA RateIsKept == TokensTypeOK /\ RateInv => RateKept
<1> SUFFICES ASSUME TokensTypeOK, RateInv, ~rate.force, NEW j \in DOMAIN passes
             PROVE  /\ Cardinality(Kept(0, passes[j])) * Cost
                          <= first + rate.capacity * passes[j] + Early
                    /\ \A i \in DOMAIN passes :
                          Cardinality(Kept(passes[i], passes[j])) * Cost
                              <= Full + rate.capacity * Max({passes[j] - passes[i], 0})
                                   + Early
  BY DEF RateKept
<1>1. PICK b : b = Ledger
  OBVIOUS
<1>2. /\ IsLedger(b) /\ b.cap = rate.capacity /\ b.cost = Cost /\ b.full = Full
      /\ b.first = first /\ b.early = Early
      /\ \A x, y : Between(b, x, y) = Kept(x, y)
  BY <1>1, LedgerFacts DEF Ledger, Between, Kept
<1>3. Within(b)
  BY <1>1 DEF RateInv
<1>4. \A i \in DOMAIN passes : passes[i] \in Nat
  BY DEF TokensTypeOK
<1>5. Cardinality(Kept(0, passes[j])) * Cost <= first + rate.capacity * passes[j] + Early
  BY <1>2, <1>3, <1>4 DEF Within
<1>6. ASSUME NEW i \in DOMAIN passes
      PROVE  Cardinality(Kept(passes[i], passes[j])) * Cost
                <= Full + rate.capacity * Max({passes[j] - passes[i], 0}) + Early
  <2>1. PICK x, y, d : x = passes[i] /\ y = passes[j] /\ d = y - x
    OBVIOUS
  <2>2. x \in Nat /\ y \in Nat /\ d \in Int
    BY <1>4, <2>1
  <2>3. Max({d, 0}) \in {d, 0} /\ Max({d, 0}) >= d /\ Max({d, 0}) >= 0
    BY <2>2, MaxOfTwo
  <2>4. CASE x <= y
    <3>1. d >= 0
      BY <2>1, <2>2, <2>4
    <3>2. Max({d, 0}) = d
      BY <2>2, <2>3, <3>1
    <3>3. Cardinality(Kept(x, y)) * Cost <= Full + rate.capacity * (y - x) + Early
      BY <1>2, <1>3, <2>2, <2>4 DEF Within
    <3>4. QED
      BY <2>1, <3>2, <3>3
  <2>5. CASE ~(x <= y)
    <3>1. Kept(x, y) = {}
      BY <1>4, <2>2, <2>5 DEF Kept
    <3>2. Cardinality(Kept(x, y)) = 0
      BY <3>1, FS_EmptySet
    <3>3. PICK m, u : m = Max({d, 0}) /\ u = rate.capacity * m
      OBVIOUS
    <3>4. m \in Nat
      BY <2>2, <2>3, <3>3
    <3>5. u \in Nat /\ Full \in Nat /\ Early \in Nat /\ Cost \in Nat
      BY <3>3, <3>4, RateFacts, SlackFacts, Paid
    <3>6. 0 * Cost <= Full + u + Early
      BY <3>5
    <3>7. QED
      BY <2>1, <3>2, <3>3, <3>6
  <2>6. QED
    BY <2>4, <2>5
<1>7. QED
  BY <1>5, <1>6

\* authorize hands out no more than the bucket's rate, however its calls
\* overlap and whenever buckets are pruned, for every one of the wrappers that
\* may refuse.
THEOREM CallsKeepToRate == TokensSpec => []RateKept
<1>1. TokensInit => TokensBase /\ RateInv
  BY TokensBaseInit, RateInvInit
<1>2. TokensBase /\ RateInv /\ [TokensNext]_tokenVars => (TokensBase /\ RateInv)'
  BY TokensBaseNext, RateInvNext
<1>3. TokensBase /\ RateInv => RateKept
  BY RateIsKept DEF TokensBase
<1>4. QED
  BY <1>1, <1>2, <1>3, PTL DEF TokensSpec

-----------------------------------------------------------------------------
(* The storage is asked again.                                             *)
(*                                                                         *)
(* Its bucket adds 3 tokens of the model a second, an error takes 60, and  *)
(* 180 are a full one.  What is left, with what will have flowed in, is    *)
(* explained: by the tokens at the beginning, or by a full bucket at some  *)
(* error, and the errors since.                                            *)

Explained(begin, times, tokens, updated, n) ==
    \/ tokens - 3 * updated >= begin - 60 * n
    \/ \E i \in 1 .. n :
          tokens - 3 * updated >= 180 - 3 * (times[i] + Longest) - 60 * (n - i + 1)

ExplainedInv ==
    rate.force =>
        /\ bucket # NoBucket =>
              \/ bucket.tokens = 180
              \/ Explained(first, passes, bucket.tokens, bucket.updated, Len(passes))
        /\ \A k \in Calls : call[k].at = "save" =>
              \/ call[k].tokens >= 120 - 3 * Longest
              \/ Explained(first, passes, call[k].tokens + 60, call[k].now, call[k].seen)

LEMMA ExplainedByMore ==
    ASSUME NEW p \in Seq(Nat), NEW t \in Nat, NEW begin \in Int, NEW tokens \in Int,
           NEW updated \in Nat, NEW n \in 0 .. Len(p)
    PROVE  Explained(begin, Append(p, t), tokens, updated, n)
               <=> Explained(begin, p, tokens, updated, n)
<1>1. Len(p) \in Nat /\ \A i \in 1 .. n : Append(p, t)[i] = p[i]
  OBVIOUS
<1>2. QED
  BY <1>1 DEF Explained

\* One error more takes 60 tokens more.
LEMMA ExplainedBySave ==
    ASSUME NEW p \in Seq(Nat), NEW t \in Nat, NEW begin \in Int, NEW tokens \in Int,
           NEW n \in 0 .. Len(p),
           \/ tokens >= 120 - 3 * Longest
           \/ Explained(begin, p, tokens + 60, t, n)
    PROVE  Explained(begin, Append(p, t), tokens, t, Len(Append(p, t)))
<1>1. PICK m, q : m = Len(p) /\ q = Append(p, t)
  OBVIOUS
<1>2. /\ m \in Nat /\ n \in Nat /\ n <= m /\ Len(q) = m + 1 /\ q[m + 1] = t
      /\ \A i \in 1 .. m : q[i] = p[i] /\ p[i] \in Nat
      /\ Longest \in Nat
  BY <1>1, TokensAssumption
<1>3. SUFFICES Explained(begin, q, tokens, t, m + 1)
  BY <1>1, <1>2
<1>4. CASE tokens >= 120 - 3 * Longest
  <2>1. PICK i : i = m + 1
    OBVIOUS
  <2>2. i \in Nat /\ i \in 1 .. m + 1 /\ q[i] = t /\ (m + 1) - i + 1 = 1
    BY <1>2, <2>1
  <2>3. tokens - 3 * t >= 180 - 3 * (t + Longest) - 60 * 1
    BY <1>2, <1>4
  <2>4. tokens - 3 * t >= 180 - 3 * (q[i] + Longest) - 60 * ((m + 1) - i + 1)
    BY <2>2, <2>3
  <2>5. QED
    BY <2>2, <2>4, Zenon DEF Explained
<1>5. CASE tokens + 60 - 3 * t >= begin - 60 * n
  <2>1. tokens - 3 * t >= begin - 60 * (m + 1)
    BY <1>2, <1>5
  <2>2. QED
    BY <2>1 DEF Explained
<1>6. ASSUME NEW i \in 1 .. n,
             tokens + 60 - 3 * t >= 180 - 3 * (p[i] + Longest) - 60 * (n - i + 1)
      PROVE  Explained(begin, q, tokens, t, m + 1)
  <2>1. i \in 1 .. m + 1 /\ i \in Int /\ p[i] \in Nat /\ q[i] = p[i]
    BY <1>2
  <2>2. PICK x : x = p[i]
    OBVIOUS
  <2>3. x \in Int /\ tokens + 60 - 3 * t >= 180 - 3 * (x + Longest) - 60 * (n - i + 1)
    BY <1>6, <2>1, <2>2
  <2>4. tokens - 3 * t >= 180 - 3 * (x + Longest) - 60 * ((m + 1) - i + 1)
    BY <1>2, <2>1, <2>3
  <2>5. tokens - 3 * t >= 180 - 3 * (q[i] + Longest) - 60 * ((m + 1) - i + 1)
    BY <2>1, <2>2, <2>4
  <2>6. QED
    BY <2>1, <2>5, Zenon DEF Explained
<1>7. CASE Explained(begin, p, tokens + 60, t, n)
  BY <1>5, <1>6, <1>7 DEF Explained
<1>8. QED
  BY <1>4, <1>7

\* What is read is explained as the row is.
LEMMA ExplainedByRead ==
    ASSUME NEW p \in Seq(Nat), NEW begin \in Int, NEW tokens \in Int,
           NEW updated \in Nat, NEW n \in 0 .. Len(p), NEW now \in Nat,
           NEW read \in Int, read = tokens + 3 * (now - updated),
           Explained(begin, p, tokens, updated, n)
    PROVE  Explained(begin, p, read, now, n)
<1>1. read - 3 * now = tokens - 3 * updated
  OBVIOUS
<1>2. QED
  BY <1>1 DEF Explained

LEMMA StorageTopUp ==
    ASSUME TokensTypeOK, rate.force, NEW row \in Buckets, NEW t \in Nat
    PROVE  /\ TopUp(row, t) \in Int
           /\ \/ TopUp(row, t) = 180
              \/ TopUp(row, t) = row.tokens + 3 * (t - row.updated)
           /\ TopUp(row, t) <= 180
           /\ TopUp(row, t) <= row.tokens + 3 * (t - row.updated)
<1>1. PICK all : all = row.tokens + rate.capacity * (t - row.updated)
  OBVIOUS
<1>2. rate.capacity = 3 /\ Full = 180
  BY RateFacts
<1>3. QED
  BY <1>1, <1>2, TopUpBounds

LEMMA ExplainedInvInit == TokensInit => ExplainedInv
<1> SUFFICES ASSUME TokensInit, rate.force PROVE ExplainedInv
  BY DEF ExplainedInv
<1>1. TokensTypeOK
  BY TokensBaseInit DEF TokensBase
<1>2. first \in Nat
  BY <1>1, RateFacts
<1>3. Explained(first, passes, first, 0, 0)
  BY <1>2 DEF Explained
<1>4. QED
  BY <1>3 DEF ExplainedInv, TokensInit, NoCall

LEMMA ExplainedInvNext ==
    TokensBase /\ ExplainedInv /\ [TokensNext]_tokenVars => ExplainedInv'
<1> SUFFICES ASSUME TokensBase, ExplainedInv, [TokensNext]_tokenVars, rate'.force
             PROVE  ExplainedInv'
  BY DEF ExplainedInv
<1>1. TokensBase' /\ TokensTypeOK /\ TokensTypeOK' /\ TokensTimely
  BY TokensBaseNext DEF TokensBase
<1>2. UNCHANGED <<rate, first>>
  BY DEF TokensNext, tokenVars, AskStorage, StorageAnswers, Authorize, GetOrCreate,
         SaveBucket, PruneBuckets, Tick
<1>3. /\ rate.force /\ rate.capacity = 3 /\ Cost = 60 /\ Full = 180 /\ first \in Nat
      /\ Len(passes) \in Nat /\ passes \in Seq(Nat) /\ Longest \in Nat /\ clock \in Nat
  BY <1>1, <1>2, RateFacts, TokensAssumption DEF TokensTypeOK
<1>4. /\ bucket # NoBucket =>
            \/ bucket.tokens = 180
            \/ Explained(first, passes, bucket.tokens, bucket.updated, Len(passes))
      /\ \A k \in Calls : call[k].at = "save" =>
            \/ call[k].tokens >= 120 - 3 * Longest
            \/ Explained(first, passes, call[k].tokens + 60, call[k].now, call[k].seen)
  BY <1>3 DEF ExplainedInv
<1> DEFINE Goal ==
      /\ bucket' # NoBucket =>
            \/ bucket'.tokens = 180
            \/ Explained(first, passes', bucket'.tokens, bucket'.updated, Len(passes'))
      /\ \A k \in Calls : call'[k].at = "save" =>
            \/ call'[k].tokens >= 120 - 3 * Longest
            \/ Explained(first, passes', call'[k].tokens + 60, call'[k].now, call'[k].seen)
<1>5. SUFFICES Goal
  BY <1>2 DEF ExplainedInv
<1>6. ASSUME NEW k \in Calls, AskStorage(k) \/ StorageAnswers(k) \/ Authorize(k)
      PROVE  Goal
  <2>1. UNCHANGED <<bucket, passes>>
    BY <1>6 DEF AskStorage, StorageAnswers, Authorize
  <2>2. \E d : call' = [call EXCEPT ![k] = d] /\ d.at # "save"
    BY <1>6 DEF AskStorage, StorageAnswers, Authorize, NoCall
  <2>3. \A j \in Calls : call'[j].at = "save" => call'[j] = call[j]
    BY <1>1, <2>2 DEF TokensTypeOK
  <2>4. QED
    BY <1>4, <2>1, <2>3
<1>7. ASSUME NEW k \in Calls, GetOrCreate(k)
      PROVE  Goal
  <2>1. /\ call[k].at = "get" /\ UNCHANGED passes
        /\ InTime(call[k]) /\ call[k].now \in Nat
    BY <1>1, <1>7, TokenCalls DEF GetOrCreate, TokensTimely
  <2>2. PICK now, n : now = call[k].now /\ n = Len(passes)
    OBVIOUS
  <2>3. now \in Nat /\ n \in 0 .. Len(passes) /\ clock <= now + Longest
    BY <1>3, <2>1, <2>2 DEF InTime
  <2>4. \E id \in Nat, read \in Int :
           /\ Decide(k, id, read)
           /\ read >= 180 - 3 * Longest \/ Explained(first, passes, read, now, n)
           /\ \/ bucket' = bucket
              \/ bucket'.tokens = 180
    <3>1. CASE bucket = NoBucket
      BY <1>1, <1>3, <1>7, <3>1 DEF GetOrCreate, TokensTypeOK
    <3>2. CASE bucket # NoBucket
      <4>1. bucket' = bucket /\ Decide(k, bucket.id, TopUp(bucket, now))
        BY <1>7, <2>2, <3>2 DEF GetOrCreate
      <4>2. bucket \in Buckets
        BY <1>1, <3>2 DEF TokensTypeOK
      <4>3. PICK read, tokens, updated : /\ read = TopUp(bucket, now)
                                         /\ tokens = bucket.tokens
                                         /\ updated = bucket.updated
        OBVIOUS
      <4>4. /\ read \in Int /\ tokens \in Int /\ updated \in Nat /\ updated <= clock
            /\ read = 180 \/ read = tokens + 3 * (now - updated)
        BY <1>1, <1>3, <2>3, <3>2, <4>2, <4>3, StorageTopUp DEF TokensTimely, Buckets
      <4>5. tokens = 180 \/ Explained(first, passes, tokens, updated, n)
        BY <1>4, <2>2, <3>2, <4>3
      <4>6. read >= 180 - 3 * Longest \/ Explained(first, passes, read, now, n)
        <5>1. CASE read = 180
          BY <1>3, <5>1
        <5>2. CASE read = tokens + 3 * (now - updated) /\ tokens = 180
          BY <1>3, <2>3, <4>4, <5>2
        <5>3. CASE read = tokens + 3 * (now - updated)
                   /\ Explained(first, passes, tokens, updated, n)
          BY <1>3, <2>3, <4>4, <5>3, ExplainedByRead
        <5>4. QED
          BY <4>4, <4>5, <5>1, <5>2, <5>3
      <4>7. bucket.id \in Nat
        BY <4>2 DEF Buckets
      <4>8. QED
        BY <4>1, <4>3, <4>4, <4>6, <4>7
    <3>3. QED
      BY <3>1, <3>2
  <2>5. PICK id \in Nat, read \in Int :
           /\ Decide(k, id, read)
           /\ read >= 180 - 3 * Longest \/ Explained(first, passes, read, now, n)
           /\ \/ bucket' = bucket
              \/ bucket'.tokens = 180
    BY <2>4
  <2>6. /\ \A j \in Calls : j # k => call'[j] = call[j]
        /\ call'[k].at = "save" =>
              /\ call'[k].now = now /\ call'[k].tokens = read - 60
              /\ call'[k].seen = n
    BY <1>1, <1>3, <2>1, <2>2, <2>5, DecideSaves
  <2>7. read - 60 + 60 = read /\ (read >= 180 - 3 * Longest => read - 60 >= 120 - 3 * Longest)
    BY <1>3, <2>5
  <2>8. call'[k].at = "save" =>
            \/ call'[k].tokens >= 120 - 3 * Longest
            \/ Explained(first, passes, call'[k].tokens + 60, call'[k].now, call'[k].seen)
    BY <2>5, <2>6, <2>7
  <2>9. QED
    BY <1>4, <2>1, <2>5, <2>6, <2>8
<1>8. ASSUME NEW k \in Calls, SaveBucket(k)
      PROVE  Goal
  <2>1. /\ call[k].at = "save" /\ call[k] \in Saving
        /\ call' = [call EXCEPT ![k] = NoCall]
    BY <1>1, <1>8, TokenCalls DEF SaveBucket
  <2>2. \A j \in Calls : call'[j].at = "save" => j # k /\ call'[j] = call[j]
    BY <1>1, <2>1 DEF TokensTypeOK, NoCall
  <2>3. CASE bucket # NoBucket /\ bucket.id # call[k].id
    BY <1>4, <1>8, <2>2, <2>3 DEF SaveBucket
  <2>4. CASE ~(bucket # NoBucket /\ bucket.id # call[k].id)
    <3>1. PICK now, n, tokens : now = call[k].now /\ n = call[k].seen
                                /\ tokens = call[k].tokens
      OBVIOUS
    <3>2. now \in Nat /\ tokens \in Int /\ n \in 0 .. Len(passes)
      BY <1>1, <1>3, <2>1, <3>1, TokenCalls DEF TokensTimely
    <3>3. /\ bucket' = [id |-> call[k].id, tokens |-> tokens, updated |-> now]
          /\ passes' = Append(passes, now)
      BY <1>8, <2>4, <3>1 DEF SaveBucket
    <3>4. Explained(first, passes', tokens, now, Len(passes'))
      <4>1. tokens >= 120 - 3 * Longest \/ Explained(first, passes, tokens + 60, now, n)
        BY <1>4, <2>1, <3>1
      <4>2. QED
        BY <1>3, <3>2, <3>3, <4>1, ExplainedBySave
    <3>5. ASSUME NEW j \in Calls, call'[j].at = "save"
          PROVE  \/ call'[j].tokens >= 120 - 3 * Longest
                 \/ Explained(first, passes', call'[j].tokens + 60, call'[j].now,
                              call'[j].seen)
      <4>1. call'[j] = call[j] /\ call[j].at = "save"
        BY <2>2, <3>5
      <4>2. PICK t, u, m : t = call[j].tokens + 60 /\ u = call[j].now /\ m = call[j].seen
        OBVIOUS
      <4>3. t \in Int /\ u \in Nat /\ m \in 0 .. Len(passes)
        BY <1>1, <1>3, <4>1, <4>2, TokenCalls DEF TokensTimely
      <4>4. Explained(first, passes, t, u, m) => Explained(first, passes', t, u, m)
        <5>1. passes \in Seq(Nat) /\ first \in Int
          BY <1>3
        <5>2. Explained(first, Append(passes, now), t, u, m)
                <=> Explained(first, passes, t, u, m)
          BY <3>2, <4>3, <5>1, ExplainedByMore
        <5>3. QED
          BY <3>3, <5>2
      <4>5. QED
        BY <1>4, <4>1, <4>2, <4>4
    <3>6. QED
      BY <3>3, <3>4, <3>5
  <2>5. QED
    BY <2>3, <2>4
<1>9. CASE PruneBuckets \/ Tick \/ UNCHANGED tokenVars
  <2>1. bucket' \in {bucket, NoBucket} /\ UNCHANGED <<call, passes>>
    BY <1>9 DEF PruneBuckets, Tick, tokenVars
  <2>2. QED
    BY <1>4, <2>1
<1>10. QED
  BY <1>6, <1>7, <1>8, <1>9 DEF TokensNext

(***************************************************************************)
(* How far the bucket can be below zero.  A request asks the storage only  *)
(* when there is a token, so each token that is missing was taken by a     *)
(* request that has ended since.  A copy that no save overwrites is of the *)
(* row as it is, and takes one error from it; a row that was pruned has    *)
(* been full.                                                              *)
(***************************************************************************)
Idle == {k \in Calls : call[k].at = "none"}

Worth(tokens, updated) == tokens + 3 * (clock - updated)

HealthyInv ==
    rate.force /\ overwritten = {} =>
        /\ bucket # NoBucket =>
              /\ bucket.id <= made
              /\ Worth(bucket.tokens, bucket.updated) >= 60 - 60 * Cardinality(Idle)
              /\ bucket.tokens >= 60 - 60 * Cardinality(Calls) - 3 * Longest
        /\ \A k \in Calls : call[k].at = "save" =>
              /\ call[k].id <= made
              /\ call[k].seen = Len(passes) =>
                    \/ Worth(call[k].tokens, call[k].now) >= 120
                    \/ /\ bucket # NoBucket /\ bucket.id = call[k].id
                       /\ Worth(call[k].tokens, call[k].now)
                              >= Worth(bucket.tokens, bucket.updated) - 60

LEMMA SomeCalls ==
    ASSUME NEW S \in SUBSET Calls, NEW k \in Calls
    PROVE  /\ IsFiniteSet(S) /\ Cardinality(S) \in Nat
           /\ Cardinality(S) <= Cardinality(Calls)
           /\ Cardinality(S \union {k}) \in Nat
           /\ Cardinality(S \union {k}) <= Cardinality(Calls)
           /\ Cardinality(S \union {k}) >= 1
           /\ Cardinality(S) <= Cardinality(S \union {k})
           /\ k \notin S => Cardinality(S \union {k}) = Cardinality(S) + 1
<1>1. IsFiniteSet(Calls) /\ S \union {k} \subseteq Calls
  BY TokensAssumption
<1>2. /\ IsFiniteSet(S) /\ Cardinality(S) <= Cardinality(Calls)
      /\ IsFiniteSet(S \union {k}) /\ Cardinality(S \union {k}) <= Cardinality(Calls)
  BY <1>1, FS_Subset
<1>3. Cardinality(S) \in Nat /\ Cardinality(S \union {k}) \in Nat
  BY <1>2, FS_CardinalityType
<1>4. Cardinality(S \union {k}) = IF k \in S THEN Cardinality(S) ELSE Cardinality(S) + 1
  BY <1>2, FS_AddElement
<1>5. k \in S => Cardinality(S) # 0
  <2>1. Cardinality(S) = 0 <=> S = {}
    BY <1>2, FS_EmptySet
  <2>2. QED
    BY <2>1
<1>6. QED
  BY <1>2, <1>3, <1>4, <1>5

LEMMA HealthyInvInit == TokensInit => HealthyInv
<1> SUFFICES ASSUME TokensInit, rate.force PROVE HealthyInv
  BY DEF HealthyInv
<1>1. TokensTypeOK
  BY TokensBaseInit DEF TokensBase
<1>2. PICK n : n = Cardinality(Calls)
  OBVIOUS
<1>3. n \in Nat /\ n >= 1 /\ Longest \in Nat
  <2>1. PICK k : k \in Calls
    BY CallsAssumption
  <2>2. Calls \in SUBSET Calls /\ Calls \union {k} = Calls
    BY <2>1
  <2>3. QED
    BY <1>2, <2>1, <2>2, SomeCalls, TokensAssumption
<1>4. Idle = Calls
  BY DEF Idle, TokensInit, NoCall
<1>5. first \in Nat
  BY <1>1, RateFacts
<1>6. clock = 0 /\ made = 1 /\ \A k \in Calls : call[k].at # "save"
  BY DEF TokensInit, NoCall
<1>7. bucket # NoBucket => bucket.tokens = first /\ bucket.updated = 0 /\ bucket.id = 1
  BY DEF TokensInit
<1>8. /\ first + 3 * (0 - 0) >= 60 - 60 * n
      /\ first >= 60 - 60 * n - 3 * Longest
  BY <1>3, <1>5
<1>9. QED
  BY <1>2, <1>4, <1>6, <1>7, <1>8 DEF HealthyInv, Worth

LEMMA HealthyInvNext ==
    TokensBase /\ HealthyInv /\ [TokensNext]_tokenVars => HealthyInv'
<1> SUFFICES ASSUME TokensBase, HealthyInv, [TokensNext]_tokenVars,
                    rate'.force, overwritten' = {}
             PROVE  HealthyInv'
  BY DEF HealthyInv
<1>1. TokensBase' /\ TokensTypeOK /\ TokensTypeOK' /\ TokensTimely
  BY TokensBaseNext DEF TokensBase
<1>2. UNCHANGED rate /\ made' \in {made, made + 1} /\ overwritten = {}
  BY DEF TokensNext, tokenVars, AskStorage, StorageAnswers, Authorize, GetOrCreate,
         SaveBucket, PruneBuckets, Tick
<1>3. /\ rate.force /\ rate.capacity = 3 /\ Cost = 60 /\ Full = 180
      /\ Len(passes) \in Nat /\ Longest \in Nat /\ clock \in Nat /\ made \in Nat
      /\ made <= made'
  BY <1>1, <1>2, RateFacts, TokensAssumption DEF TokensTypeOK
<1>4. PICK idle, idle2, n : /\ idle = Cardinality(Idle) /\ idle2 = Cardinality(Idle')
                            /\ n = Cardinality(Calls)
  OBVIOUS
<1>5. /\ idle \in Nat /\ idle2 \in Nat /\ n \in Nat /\ idle <= n /\ idle2 <= n
      /\ 20 * n + Longest + 40 <= Day
      /\ \A k \in Calls : Idle' = Idle \union {k} =>
            idle <= idle2 /\ 1 <= idle2 /\ (k \notin Idle => idle2 = idle + 1)
  <2>1. PICK k : k \in Calls
    BY CallsAssumption
  <2>2. Idle \in SUBSET Calls /\ Idle' \in SUBSET Calls /\ Calls \in SUBSET Calls
    BY DEF Idle
  <2>3. idle \in Nat /\ idle2 \in Nat /\ n \in Nat /\ idle <= n /\ idle2 <= n
    BY <1>4, <2>1, <2>2, SomeCalls
  <2>4. \A j \in Calls : Idle' = Idle \union {j} =>
            idle <= idle2 /\ 1 <= idle2 /\ (j \notin Idle => idle2 = idle + 1)
    BY <1>4, <2>2, SomeCalls
  <2>5. QED
    BY <1>4, <2>3, <2>4, CallsAssumption
<1>6. /\ bucket # NoBucket =>
            /\ bucket.id <= made
            /\ Worth(bucket.tokens, bucket.updated) >= 60 - 60 * idle
            /\ bucket.tokens >= 60 - 60 * n - 3 * Longest
      /\ \A k \in Calls : call[k].at = "save" =>
            /\ call[k].id <= made
            /\ call[k].seen = Len(passes) =>
                  \/ Worth(call[k].tokens, call[k].now) >= 120
                  \/ /\ bucket # NoBucket /\ bucket.id = call[k].id
                     /\ Worth(call[k].tokens, call[k].now)
                            >= Worth(bucket.tokens, bucket.updated) - 60
  BY <1>2, <1>3, <1>4 DEF HealthyInv
<1> DEFINE Later(tokens, updated) == tokens + 3 * (clock' - updated)
           GoodBucket == bucket' # NoBucket =>
              /\ bucket'.id <= made'
              /\ Later(bucket'.tokens, bucket'.updated) >= 60 - 60 * idle2
              /\ bucket'.tokens >= 60 - 60 * n - 3 * Longest
           GoodCopy(k) == call'[k].at = "save" =>
              /\ call'[k].id <= made'
              /\ call'[k].seen = Len(passes') =>
                    \/ Later(call'[k].tokens, call'[k].now) >= 120
                    \/ /\ bucket' # NoBucket /\ bucket'.id = call'[k].id
                       /\ Later(call'[k].tokens, call'[k].now)
                              >= Later(bucket'.tokens, bucket'.updated) - 60
<1>7. SUFFICES GoodBucket /\ \A k \in Calls : GoodCopy(k)
  BY <1>4 DEF HealthyInv, Worth
<1>8. /\ bucket # NoBucket => /\ bucket \in Buckets /\ bucket.id \in Nat
                              /\ bucket.tokens \in Int /\ bucket.updated \in Nat
      /\ \A k \in Calls : call[k].at = "save" =>
            /\ call[k].id \in Nat /\ call[k].tokens \in Int
            /\ call[k].now \in Nat /\ call[k].seen \in Nat
            /\ call[k].now <= clock /\ clock <= call[k].now + Longest
            /\ call[k].seen <= Len(passes)
  <2>1. bucket # NoBucket => bucket \in Buckets
    BY <1>1 DEF TokensTypeOK
  <2>2. \A k \in Calls : call[k].at = "save" => InTime(call[k]) /\ call[k].seen <= Len(passes)
    BY <1>1 DEF TokensTimely
  <2>3. QED
    BY <1>1, <2>1, <2>2, TokenCalls DEF Buckets, InTime
\* A call that has not changed, with the row and the clock as they were.
<1>9. ASSUME UNCHANGED <<clock, bucket, passes>>,
             NEW k \in Calls, call'[k].at = "save" => call'[k] = call[k]
      PROVE  GoodCopy(k)
  <2>1. \A t, u : Later(t, u) = Worth(t, u)
    BY <1>9 DEF Worth
  <2>2. CASE call'[k].at = "save"
    <3>1. call'[k] = call[k] /\ call[k].id <= made' /\ call[k].at = "save"
      <4>1. call'[k] = call[k] /\ call[k].at = "save"
        BY <1>9, <2>2
      <4>2. PICK id, m : id = call[k].id /\ m = made'
        OBVIOUS
      <4>3. id \in Nat /\ id <= made /\ m \in Nat /\ made <= m
        BY <1>1, <1>3, <1>6, <1>8, <4>1, <4>2 DEF TokensTypeOK
      <4>4. id <= m
        BY <1>3, <4>3
      <4>5. QED
        BY <4>1, <4>2, <4>4
    <3>2. call[k].seen = Len(passes) =>
             \/ Worth(call[k].tokens, call[k].now) >= 120
             \/ /\ bucket # NoBucket /\ bucket.id = call[k].id
                /\ Worth(call[k].tokens, call[k].now)
                       >= Worth(bucket.tokens, bucket.updated) - 60
      BY <1>6, <3>1
    <3>3. Len(passes') = Len(passes) /\ bucket' = bucket
      BY <1>9
    <3>4. QED
      BY <2>1, <3>1, <3>2, <3>3
  <2>3. QED
    BY <2>2
<1>10. ASSUME NEW k \in Calls, AskStorage(k) \/ StorageAnswers(k) \/ Authorize(k)
       PROVE  GoodBucket /\ \A j \in Calls : GoodCopy(j)
  <2>1. UNCHANGED <<clock, bucket, passes, made>>
    BY <1>10 DEF AskStorage, StorageAnswers, Authorize
  <2>2. PICK d : call' = [call EXCEPT ![k] = d] /\ d.at # "save"
    BY <1>10 DEF AskStorage, StorageAnswers, Authorize, NoCall
  <2>3. call'[k] = d /\ \A j \in Calls : j # k => call'[j] = call[j]
    BY <1>1, <2>2 DEF TokensTypeOK
  <2>4. \A j \in Calls : GoodCopy(j)
    <3>1. \A j \in Calls : call'[j].at = "save" => call'[j] = call[j]
      BY <2>2, <2>3
    <3>2. QED
      BY <1>9, <2>1, <3>1
  <2>5. bucket # NoBucket => Worth(bucket.tokens, bucket.updated) >= 60 - 60 * idle2
    <3>1. CASE AskStorage(k)
      <4>1. bucket # NoBucket => TopUp(bucket, clock) >= 60
        BY <1>3, <3>1 DEF AskStorage, s3_is_healthy
      <4>2. bucket # NoBucket => Worth(bucket.tokens, bucket.updated) >= 60
        <5>1. ASSUME bucket # NoBucket PROVE Worth(bucket.tokens, bucket.updated) >= 60
          <6>1. PICK top, w : /\ top = TopUp(bucket, clock)
                              /\ w = bucket.tokens + 3 * (clock - bucket.updated)
            OBVIOUS
          <6>2. top >= 60 /\ top \in Int /\ top <= w /\ w \in Int
            BY <1>1, <1>3, <1>8, <4>1, <5>1, <6>1, StorageTopUp
          <6>3. QED
            BY <6>1, <6>2 DEF Worth
        <5>2. QED
          BY <5>1
      <4>3. bucket # NoBucket => Worth(bucket.tokens, bucket.updated) \in Int
        BY <1>3, <1>8 DEF Worth
      <4>4. QED
        BY <1>5, <4>2, <4>3
    <3>2. CASE StorageAnswers(k)
      <4>1. d.at = "none"
        BY <1>1, <2>2, <2>3, <3>2 DEF StorageAnswers, NoCall, TokensTypeOK
      <4>2. Idle' = Idle \union {k}
        BY <2>2, <2>3, <4>1 DEF Idle
      <4>3. idle <= idle2
        BY <1>5, <4>2
      <4>4. bucket # NoBucket => Worth(bucket.tokens, bucket.updated) \in Int
        BY <1>3, <1>8 DEF Worth
      <4>5. QED
        BY <1>5, <1>6, <4>3, <4>4
    <3>3. CASE Authorize(k)
      <4>1. call[k].at = "storage" /\ call'[k].at = "get"
        BY <1>1, <1>3, <3>3 DEF Authorize, TokensTypeOK
      <4>2. Idle' = Idle
        BY <2>3, <4>1 DEF Idle
      <4>3. QED
        BY <1>4, <1>6, <4>2
    <3>4. QED
      BY <1>10, <3>1, <3>2, <3>3
  <2>6. GoodBucket
    BY <1>3, <1>6, <2>1, <2>5 DEF Worth
  <2>7. QED
    BY <2>4, <2>6
<1>11. ASSUME NEW k \in Calls, GetOrCreate(k)
       PROVE  GoodBucket /\ \A j \in Calls : GoodCopy(j)
  <2>1. /\ call[k].at = "get" /\ UNCHANGED <<passes, clock>>
        /\ InTime(call[k]) /\ call[k].now \in Nat
    BY <1>1, <1>11, TokenCalls DEF GetOrCreate, TokensTimely
  <2>2. PICK now : now = call[k].now
    OBVIOUS
  <2>3. now \in Nat /\ now <= clock /\ clock <= now + Longest
    BY <2>1, <2>2 DEF InTime
  <2>4. \E id \in Nat, read \in Int :
           /\ Decide(k, id, read) /\ id <= made'
           /\ \/ read = 180
              \/ /\ bucket' # NoBucket /\ bucket'.id = id
                 /\ read = bucket'.tokens + 3 * (now - bucket'.updated)
           /\ \/ bucket' = bucket
              \/ /\ bucket = NoBucket
                 /\ bucket' = [id |-> made', tokens |-> 180, updated |-> clock]
    <3>1. CASE bucket = NoBucket
      <4>1. /\ made' = made + 1 /\ Decide(k, made', 180)
            /\ bucket' = [id |-> made', tokens |-> 180, updated |-> clock]
        BY <1>3, <1>11, <3>1 DEF GetOrCreate
      <4>2. made' \in Nat /\ 180 \in Int
        BY <1>3, <4>1
      <4>3. QED
        BY <3>1, <4>1, <4>2
    <3>2. CASE bucket # NoBucket
      <4>1. bucket' = bucket /\ Decide(k, bucket.id, TopUp(bucket, now))
        BY <1>11, <2>2, <3>2 DEF GetOrCreate
      <4>2. PICK read : read = TopUp(bucket, now)
        OBVIOUS
      <4>3. /\ read \in Int
            /\ read = 180 \/ read = bucket.tokens + 3 * (now - bucket.updated)
        BY <1>1, <1>3, <1>8, <2>3, <3>2, <4>2, StorageTopUp
      <4>4. bucket.id \in Nat /\ bucket.id <= made'
        BY <1>3, <1>6, <1>8, <3>2, <1>2
      <4>5. QED
        BY <3>2, <4>1, <4>2, <4>3, <4>4
    <3>3. QED
      BY <3>1, <3>2
  <2>5. PICK id \in Nat, read \in Int :
           /\ Decide(k, id, read) /\ id <= made'
           /\ \/ read = 180
              \/ /\ bucket' # NoBucket /\ bucket'.id = id
                 /\ read = bucket'.tokens + 3 * (now - bucket'.updated)
           /\ \/ bucket' = bucket
              \/ /\ bucket = NoBucket
                 /\ bucket' = [id |-> made', tokens |-> 180, updated |-> clock]
    BY <2>4
  <2>6. /\ \A j \in Calls : j # k => call'[j] = call[j]
        /\ call'[k].at # "none"
        /\ call'[k].at = "save" =>
              /\ call'[k].now = now /\ call'[k].tokens = read - 60
              /\ call'[k].id = id
    <3>1. /\ \A j \in Calls : j # k => call'[j] = call[j]
          /\ call'[k] # NoCall
          /\ call'[k].at = "save" =>
                /\ call'[k].now = now /\ call'[k].tokens = read - 60
                /\ call'[k].id = id
      BY <1>1, <1>3, <2>1, <2>2, <2>5, DecideSaves
    <3>2. call'[k] \in [at : {"storage"}] \union Reading \union Saving
      BY <1>1, <3>1 DEF TokensTypeOK
    <3>3. call'[k].at # "none"
      BY <3>2 DEF Reading, Saving
    <3>4. QED
      BY <3>1, <3>3
  <2>7. Idle' = Idle
    BY <2>1, <2>6 DEF Idle
  <2>8. GoodBucket
    <3>1. CASE bucket' = bucket
      BY <1>2, <1>3, <1>4, <1>6, <1>8, <2>1, <2>7, <3>1 DEF Worth
    <3>2. CASE bucket' = [id |-> made', tokens |-> 180, updated |-> clock]
      <4>1. 180 + 3 * (clock - clock) >= 60 - 60 * idle2 /\ 180 >= 60 - 60 * n - 3 * Longest
            /\ made' <= made'
        BY <1>3, <1>5, <1>2
      <4>2. QED
        BY <2>1, <3>2, <4>1
    <3>3. QED
      BY <2>5, <3>1, <3>2
  <2>9. GoodCopy(k)
    <3>1. CASE read = 180
      <4>1. read - 60 + 3 * (clock - now) >= 120
        BY <1>3, <2>3, <3>1
      <4>2. QED
        BY <2>1, <2>5, <2>6, <4>1
    <3>2. CASE /\ bucket' # NoBucket /\ bucket'.id = id
               /\ read = bucket'.tokens + 3 * (now - bucket'.updated)
      <4>1. PICK t, u : t = bucket'.tokens /\ u = bucket'.updated
        OBVIOUS
      <4>2. t \in Int /\ u \in Int /\ read = t + 3 * (now - u)
        BY <1>1, <3>2, <4>1 DEF TokensTypeOK, Buckets
      <4>3. read - 60 + 3 * (clock - now) >= (t + 3 * (clock - u)) - 60
        BY <1>3, <2>3, <4>2
      <4>4. Later(bucket'.tokens, bucket'.updated) = t + 3 * (clock - u)
        BY <2>1, <4>1
      <4>5. call'[k].at = "save" =>
               Later(call'[k].tokens, call'[k].now) = read - 60 + 3 * (clock - now)
        BY <2>1, <2>6
      <4>6. QED
        BY <2>5, <2>6, <3>2, <4>3, <4>4, <4>5
    <3>3. QED
      BY <2>5, <3>1, <3>2
  <2>10. ASSUME NEW j \in Calls, j # k PROVE GoodCopy(j)
    <3>1. call'[j] = call[j]
      BY <2>6, <2>10
    <3>2. CASE bucket' = bucket
      BY <1>9, <2>1, <3>1, <3>2
    <3>3. CASE bucket = NoBucket
      BY <1>2, <1>3, <1>6, <1>8, <2>1, <3>1, <3>3 DEF Worth
    <3>4. QED
      BY <2>5, <3>2, <3>3
  <2>11. QED
    BY <2>8, <2>9, <2>10
<1>12. ASSUME NEW k \in Calls, SaveBucket(k)
       PROVE  GoodBucket /\ \A j \in Calls : GoodCopy(j)
  <2>1. /\ call[k].at = "save" /\ UNCHANGED <<clock, made>>
        /\ call' = [call EXCEPT ![k] = NoCall]
    BY <1>12 DEF SaveBucket
  <2>2. call'[k] = NoCall /\ \A j \in Calls : j # k => call'[j] = call[j]
    BY <1>1, <2>1 DEF TokensTypeOK
  <2>3. k \notin Idle /\ Idle' = Idle \union {k}
    BY <2>1, <2>2 DEF Idle, NoCall
  <2>4. idle2 = idle + 1 /\ 1 <= idle2 /\ call'[k].at # "save"
    BY <1>5, <2>2, <2>3 DEF NoCall
  <2>5. CASE bucket # NoBucket /\ bucket.id # call[k].id
    <3>1. UNCHANGED <<bucket, passes>>
      BY <1>12, <2>5 DEF SaveBucket
    <3>2. \A j \in Calls : GoodCopy(j)
      <4>1. \A j \in Calls : call'[j].at = "save" => call'[j] = call[j]
        BY <2>2, <2>4
      <4>2. QED
        BY <1>9, <2>1, <3>1, <4>1
    <3>3. Worth(bucket.tokens, bucket.updated) \in Int
      BY <1>3, <1>8, <2>5 DEF Worth
    <3>4. Worth(bucket.tokens, bucket.updated) >= 60 - 60 * idle2
      BY <1>5, <1>6, <2>4, <2>5, <3>3
    <3>5. GoodBucket
      BY <1>6, <2>1, <2>5, <3>1, <3>4 DEF Worth
    <3>6. QED
      BY <3>2, <3>5
  <2>6. CASE ~(bucket # NoBucket /\ bucket.id # call[k].id)
    <3>1. PICK tokens, now, seen, worth : /\ tokens = call[k].tokens /\ now = call[k].now
                                          /\ seen = call[k].seen
                                          /\ worth = tokens + 3 * (clock - now)
      OBVIOUS
    <3>2. /\ tokens \in Int /\ now \in Nat /\ seen \in Nat /\ worth \in Int
          /\ now <= clock /\ clock <= now + Longest /\ seen <= Len(passes)
          /\ call[k].id <= made
      BY <1>3, <1>6, <1>8, <2>1, <3>1
    <3>3. /\ bucket' = [id |-> call[k].id, tokens |-> tokens, updated |-> now]
          /\ passes' = Append(passes, now)
          /\ overwritten' = overwritten \union (seen + 1 .. Len(passes))
      BY <1>12, <2>6, <3>1 DEF SaveBucket
    <3>4. seen = Len(passes)
      <4>1. Len(passes) \notin seen + 1 .. Len(passes)
        BY <3>3
      <4>2. QED
        BY <1>3, <3>2, <4>1
    <3>5. \/ worth >= 120
          \/ bucket # NoBucket /\ worth >= Worth(bucket.tokens, bucket.updated) - 60
      BY <1>6, <2>1, <3>1, <3>4 DEF Worth
    <3>6. worth >= 60 - 60 * idle2
      <4>1. CASE worth >= 120
        BY <1>5, <2>4, <3>2, <4>1
      <4>2. CASE bucket # NoBucket /\ worth >= Worth(bucket.tokens, bucket.updated) - 60
        <5>1. PICK w : w = Worth(bucket.tokens, bucket.updated)
          OBVIOUS
        <5>2. w \in Int /\ w >= 60 - 60 * idle /\ worth >= w - 60
          BY <1>3, <1>6, <1>8, <4>2, <5>1 DEF Worth
        <5>3. QED
          BY <1>5, <2>4, <3>2, <5>2
      <4>3. QED
        BY <3>5, <4>1, <4>2
    <3>7. tokens >= 60 - 60 * n - 3 * Longest
      <4>1. tokens + 3 * (clock - now) <= tokens + 3 * Longest
        BY <1>3, <3>2
      <4>2. worth <= tokens + 3 * Longest
        BY <3>1, <4>1
      <4>3. idle2 \in Nat /\ n \in Nat /\ idle2 <= n
        BY <1>5
      <4>4. worth \in Int /\ tokens \in Int /\ Longest \in Nat
        BY <1>3, <3>1, <3>2
      <4>5. QED
        BY <3>6, <4>2, <4>3, <4>4
    <3>8. GoodBucket
      BY <2>1, <3>1, <3>2, <3>3, <3>6, <3>7
    <3>9. ASSUME NEW j \in Calls PROVE GoodCopy(j)
      <4>1. Len(passes') = Len(passes) + 1
        BY <1>1, <3>2, <3>3 DEF TokensTypeOK
      <4>2. ASSUME call'[j].at = "save"
            PROVE  call'[j].id <= made' /\ call'[j].seen # Len(passes')
        <5>1. call'[j] = call[j]
          BY <2>2, <2>4, <4>2
        <5>2. call[j].seen \in Nat /\ call[j].seen <= Len(passes) /\ call[j].id <= made
          BY <1>6, <1>8, <4>2, <5>1
        <5>3. QED
          BY <1>3, <2>1, <4>1, <5>1, <5>2
      <4>3. QED
        BY <4>2
    <3>10. QED
      BY <3>8, <3>9
  <2>7. QED
    BY <2>5, <2>6
<1>13. CASE PruneBuckets
  <2>1. /\ bucket' = NoBucket /\ UNCHANGED <<clock, call, passes, made>>
        /\ bucket # NoBucket /\ bucket.updated < clock - Day
    BY <1>13 DEF PruneBuckets
  <2>2. Worth(bucket.tokens, bucket.updated) >= 180
    <3>1. PICK t, u : t = bucket.tokens /\ u = bucket.updated
      OBVIOUS
    <3>2. t \in Int /\ u \in Nat /\ u < clock - Day /\ t >= 60 - 60 * n - 3 * Longest
      BY <1>6, <1>8, <2>1, <3>1
    <3>3. t + 3 * (clock - u) >= 180
      BY <1>3, <1>5, <3>2 DEF Day, Hour
    <3>4. QED
      BY <3>1, <3>3 DEF Worth
  <2>3. ASSUME NEW k \in Calls PROVE GoodCopy(k)
    <3>1. ASSUME call[k].at = "save", call[k].seen = Len(passes)
          PROVE  Worth(call[k].tokens, call[k].now) >= 120
      <4>1. PICK x, y : /\ x = Worth(call[k].tokens, call[k].now)
                        /\ y = Worth(bucket.tokens, bucket.updated)
        OBVIOUS
      <4>2. x \in Int
        BY <1>3, <1>8, <3>1, <4>1 DEF Worth
      <4>3. y \in Int /\ y >= 180
        BY <1>3, <1>8, <2>1, <2>2, <4>1 DEF Worth
      <4>4. x >= 120 \/ x >= y - 60
        BY <1>6, <3>1, <4>1
      <4>5. QED
        BY <4>1, <4>2, <4>3, <4>4
    <3>2. QED
      BY <1>3, <1>6, <2>1, <3>1 DEF Worth
  <2>4. QED
    BY <2>1, <2>3
<1>14. CASE Tick
  <2>1. PICK d \in Jumps : clock' = clock + d
    BY <1>14 DEF Tick
  <2>2. d \in Nat /\ UNCHANGED <<bucket, call, passes, made>>
    BY <1>1, <1>14, JumpsForward DEF Tick
  <2>3. \A t \in Int, u \in Nat : /\ Later(t, u) = Worth(t, u) + 3 * d
                                  /\ Worth(t, u) \in Int /\ Later(t, u) \in Int
    BY <1>3, <2>1, <2>2 DEF Worth
  <2>4. Idle' = Idle
    BY <2>2 DEF Idle
  <2>5. GoodBucket
    <3>1. CASE bucket # NoBucket
      <4>1. PICK w, l : /\ w = Worth(bucket.tokens, bucket.updated)
                        /\ l = Later(bucket.tokens, bucket.updated)
        OBVIOUS
      <4>2. w \in Int /\ l = w + 3 * d /\ w >= 60 - 60 * idle
        BY <1>6, <1>8, <2>3, <3>1, <4>1
      <4>3. l >= 60 - 60 * idle /\ idle2 = idle
        BY <1>4, <1>5, <2>2, <2>4, <4>2
      <4>4. QED
        BY <1>6, <2>2, <3>1, <4>1, <4>3
    <3>2. QED
      BY <2>2, <3>1
  <2>6. ASSUME NEW k \in Calls PROVE GoodCopy(k)
    <3>1. CASE call[k].at = "save" /\ call[k].seen = Len(passes)
      <4>1. PICK x, y, m, v : /\ x = Worth(call[k].tokens, call[k].now)
                              /\ y = Worth(bucket.tokens, bucket.updated)
                              /\ m = Later(call[k].tokens, call[k].now)
                              /\ v = Later(bucket.tokens, bucket.updated)
        OBVIOUS
      <4>2. x \in Int /\ m = x + 3 * d
        BY <1>8, <2>3, <3>1, <4>1
      <4>3. bucket # NoBucket => y \in Int /\ v = y + 3 * d
        BY <1>8, <2>3, <4>1
      <4>4. x >= 120 \/ (bucket # NoBucket /\ bucket.id = call[k].id /\ x >= y - 60)
        BY <1>6, <3>1, <4>1
      <4>5. m >= 120 \/ (bucket # NoBucket /\ bucket.id = call[k].id /\ m >= v - 60)
        BY <2>2, <4>2, <4>3, <4>4
      <4>6. QED
        BY <1>6, <2>2, <3>1, <4>1, <4>5
    <3>2. CASE call[k].at # "save" \/ call[k].seen # Len(passes)
      BY <1>6, <2>2, <3>2
    <3>3. QED
      BY <3>1, <3>2
  <2>7. QED
    BY <2>5, <2>6
<1>15. CASE UNCHANGED tokenVars
  <2>1. UNCHANGED <<clock, bucket, call, passes, made>> /\ Idle' = Idle
    BY <1>15 DEF tokenVars, Idle
  <2>2. QED
    BY <1>4, <1>6, <1>9, <2>1 DEF Worth
<1>16. QED
  BY <1>10, <1>11, <1>12, <1>13, <1>14, <1>15 DEF TokensNext

\* Errors of the storage do not stop reading from it for long: its bucket lacks
\* no more than one token for each request at a time, unless a save overwrites
\* another, and in any case what is missing was taken by errors.
THEOREM ReadingResumes == TokensSpec => []StorageAskedAgain
<1>1. TokensInit => TokensBase /\ ExplainedInv /\ HealthyInv
  BY TokensBaseInit, ExplainedInvInit, HealthyInvInit
<1>2. TokensBase /\ ExplainedInv /\ HealthyInv /\ [TokensNext]_tokenVars
        => (TokensBase /\ ExplainedInv /\ HealthyInv)'
  BY TokensBaseNext, ExplainedInvNext, HealthyInvNext
<1>3. TokensBase /\ ExplainedInv /\ HealthyInv => StorageAskedAgain
  <2> SUFFICES ASSUME TokensBase, ExplainedInv, HealthyInv, rate.force, bucket # NoBucket,
                      NEW tokens, tokens = TopUp(bucket, clock)
               PROVE  /\ overwritten = {} => tokens >= Cost - Cost * Cardinality(Calls)
                      /\ \/ tokens = Full
                         \/ tokens >= first + rate.capacity * clock - Cost * Len(passes)
                         \/ \E i \in DOMAIN passes :
                               tokens >= Full + rate.capacity * (clock - passes[i] - Longest)
                                           - Cost * (Len(passes) - i + 1)
    BY DEF StorageAskedAgain
  <2>1. /\ TokensTypeOK /\ rate.capacity = 3 /\ Cost = 60 /\ Full = 180
        /\ first \in Nat /\ clock \in Nat /\ Longest \in Nat
        /\ bucket \in Buckets /\ passes \in Seq(Nat)
    BY RateFacts, TokensAssumption DEF TokensBase, TokensTypeOK
  <2>2. PICK t, u, n : t = bucket.tokens /\ u = bucket.updated /\ n = Len(passes)
    OBVIOUS
  <2>3. t \in Int /\ u \in Nat /\ n \in Nat /\ u <= clock
    BY <2>1, <2>2 DEF TokensBase, TokensTimely, Buckets
  <2>4. tokens \in Int /\ (tokens = 180 \/ tokens = t + 3 * (clock - u))
    BY <2>1, <2>2, StorageTopUp
  <2>5. overwritten = {} => tokens >= 60 - 60 * Cardinality(Calls)
    <3>1. PICK idle, all : idle = Cardinality(Idle) /\ all = Cardinality(Calls)
      OBVIOUS
    <3>2. idle \in Nat /\ all \in Nat /\ idle <= all
      <4>1. Idle \in SUBSET Calls /\ Calls \in SUBSET Calls /\ \E k : k \in Calls
        BY CallsAssumption DEF Idle
      <4>2. QED
        BY <3>1, <4>1, SomeCalls
    <3>3. overwritten = {} => t + 3 * (clock - u) >= 60 - 60 * idle
      BY <2>2, <3>1 DEF HealthyInv, Worth
    <3>4. overwritten = {} => tokens >= 60 - 60 * all
      BY <2>1, <2>3, <2>4, <3>2, <3>3
    <3>5. QED
      BY <3>1, <3>4
  <2>6. CASE t = 180
    <3>1. tokens = 180
      <4>1. tokens = 180 \/ tokens >= 180
        BY <2>1, <2>3, <2>4, <2>6
      <4>2. tokens <= 180
        BY <2>1, StorageTopUp
      <4>3. QED
        BY <2>4, <4>1, <4>2
    <3>2. QED
      BY <2>1, <2>5, <3>1
  <2>7. CASE tokens = t + 3 * (clock - u) /\ t - 3 * u >= first - 60 * n
    <3>1. tokens >= first + 3 * clock - 60 * n
      BY <2>1, <2>3, <2>7
    <3>2. QED
      BY <2>1, <2>2, <2>5, <3>1
  <2>8. ASSUME tokens = t + 3 * (clock - u), NEW i \in 1 .. n,
               t - 3 * u >= 180 - 3 * (passes[i] + Longest) - 60 * (n - i + 1)
        PROVE  \E j \in DOMAIN passes :
                  tokens >= Full + rate.capacity * (clock - passes[j] - Longest)
                              - Cost * (Len(passes) - j + 1)
    <3>1. i \in DOMAIN passes /\ passes[i] \in Nat /\ i \in Int
      BY <2>1, <2>2, <2>3
    <3>2. PICK x : x = passes[i]
      OBVIOUS
    <3>3. x \in Int /\ t - 3 * u >= 180 - 3 * (x + Longest) - 60 * (n - i + 1)
      BY <2>8, <3>1, <3>2
    <3>4. t + 3 * (clock - u) >= 180 + 3 * (clock - x - Longest) - 60 * (n - i + 1)
      BY <2>1, <2>3, <3>1, <3>3
    <3>5. tokens >= Full + rate.capacity * (clock - passes[i] - Longest)
                      - Cost * (Len(passes) - i + 1)
      BY <2>1, <2>2, <2>8, <3>2, <3>4
    <3>6. QED
      BY <3>1, <3>5
  <2>9. t = 180 \/ Explained(first, passes, t, u, n)
    BY <2>2 DEF ExplainedInv
  <2>10. CASE tokens = 180
    BY <2>1, <2>5, <2>10
  <2>11. CASE tokens = t + 3 * (clock - u) /\ Explained(first, passes, t, u, n)
    <3>1. CASE t - 3 * u >= first - 60 * n
      BY <2>7, <2>11, <3>1
    <3>2. CASE \E i \in 1 .. n :
                  t - 3 * u >= 180 - 3 * (passes[i] + Longest) - 60 * (n - i + 1)
      <4>1. \E i \in DOMAIN passes :
               tokens >= Full + rate.capacity * (clock - passes[i] - Longest)
                           - Cost * (Len(passes) - i + 1)
        BY <2>8, <2>11, <3>2
      <4>2. QED
        BY <2>1, <2>5, <4>1
    <3>3. QED
      BY <2>11, <3>1, <3>2 DEF Explained
  <2>12. QED
    BY <2>4, <2>6, <2>9, <2>10, <2>11
<1>4. QED
  BY <1>1, <1>2, <1>3, PTL DEF TokensSpec
=============================================================================
