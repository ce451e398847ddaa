----------------------------- MODULE PagesProofs ------------------------------
(***************************************************************************)
(* What pages show, for any number of events, requests, pings, checks and  *)
(* flips: the log what its filters ask for, with one timer; the durations  *)
(* of pings; the worst status and the counts of badges, lists and metrics; *)
(* and the downtimes of months and outages.                                *)
(***************************************************************************)
EXTENDS LivePages, PingLog, Summaries, Downtimes,
        FiniteSetTheorems, WellFoundedInduction, TLAPS

\* The fields of a view and of a request.
IsView(v) ==
    v = [rows |-> v.rows, forKinds |-> v.forKinds, forEnd |-> v.forEnd,
         text |-> v.text, lastUpdated |-> v.lastUpdated, kinds |-> v.kinds,
         end |-> v.end]

IsRequest(r) ==
    r = [since |-> r.since, kinds |-> r.kinds, end |-> r.end, live |-> r.live,
         answer |-> r.answer]

Matching == view.forKinds = view.kinds /\ view.forEnd = view.end

OfKinds(es, kinds) == \A e \in es : e.kind \in kinds

\* A request about filters is about those that are set, and is the only one
\* as long as what is shown is for others.
LogKnown ==
    /\ \A r \in requests : ~r.live =>
          /\ r.kinds = view.kinds /\ r.end = view.end
          /\ OfKinds(r.answer.rows, r.kinds)
    /\ ~Matching => active /\ \A r \in requests : ~r.live
    /\ OfKinds(view.rows, view.forKinds)

\* The inductive invariant.
PagesInv ==
    /\ loose = 0
    /\ OfKinds(events, EventKinds)
    /\ IsView(view) /\ \A r \in requests : IsRequest(r)
    /\ opened = NoPage => requests = {} /\ ~scheduled /\ active = FALSE
    /\ opened = "log" => LogKnown

LEMMA PagesInit == LivePagesInit => PagesInv
BY DEF LivePagesInit, PagesInv, OfKinds, IsView, View, NoPage, LogKnown

USE DEF OfKinds, IsView, IsRequest, Matching

\* What is found for a request is of the kinds it asks for.
LEMMA FoundOfKinds ==
    ASSUME NEW r
    PROVE  OfKinds(LogEvents(r).rows, r.kinds)
BY DEF LogEvents

\* Asking for what is new.
LEMMA RefreshKeeps ==
    ASSUME PagesInv, Refresh, opened # NoPage,
           UNCHANGED <<events, opened, view>>, loose' = 0
    PROVE  PagesInv'
<1>1. \A r \in requests' : r \in requests \/ (IsRequest(r) /\ r.live)
  <2>1. ASSUME NEW r \in requests', r \notin requests
        PROVE  \E e : r = Request(view.lastUpdated, view.kinds, e, TRUE)
    BY <2>1 DEF Refresh, FetchNewEvents, RefreshStatus
  <2>2. ASSUME NEW r \in requests', r \notin requests
        PROVE  IsRequest(r) /\ r.live
    <3>1. PICK e : r = Request(view.lastUpdated, view.kinds, e, TRUE)
      BY <2>1, <2>2
    <3>2. r.live = TRUE
      BY <3>1 DEF Request
    <3>3. IsRequest(r)
      BY <3>1 DEF Request
    <3>4. QED BY <3>2, <3>3, Zenon
  <2>3. QED BY <2>2, Zenon
<1>2. \A r \in requests' : IsRequest(r)
  BY <1>1 DEF PagesInv
<1>3. opened = "log" => LogKnown'
  <2> SUFFICES ASSUME opened = "log" PROVE LogKnown'
    OBVIOUS
  <2>1. LogKnown
    BY DEF PagesInv
  <2>2. \A r \in requests' : ~r.live => r \in requests
    BY <1>1
  <2>3. ~Matching => requests' = requests /\ active' = active
    BY <2>1 DEF LogKnown, Refresh, FetchNewEvents
  <2>4. QED BY <2>1, <2>2, <2>3 DEF LogKnown
<1>4. QED BY <1>2, <1>3 DEF PagesInv

LEMMA PagesStep == PagesInv /\ [LivePagesNext]_livePageVars => PagesInv'
<1> SUFFICES ASSUME PagesInv, [LivePagesNext]_livePageVars PROVE PagesInv'
  OBVIOUS
<1>1. ASSUME NEW k \in EventKinds, NEW t, NEW s, Occur(k, t, s) PROVE PagesInv'
  BY <1>1 DEF Occur, PagesInv, LogKnown, timerVars
<1>2. CASE ForgetEvents
  BY <1>2 DEF ForgetEvents, PagesInv, LogKnown, timerVars
<1>3. ASSUME NEW p \in {"log", "details", "checks"}, Open(p) PROVE PagesInv'
  BY <1>3 DEF Open, PagesInv, LogKnown, View, serverVars, NoPage
<1>4. ASSUME NEW kinds, NEW end, ApplyFilters(kinds, end) PROVE PagesInv'
  <2> DEFINE r == Request(NoDate, kinds, end, FALSE)
  <2>1. /\ IsRequest(r) /\ r.kinds = kinds /\ r.end = end
        /\ ~r.live /\ r.answer.rows = {}
    <3>1. r = [since |-> NoDate, kinds |-> kinds, end |-> end, live |-> FALSE,
               answer |-> NoAnswer]
      BY DEF Request
    <3> HIDE DEF r
    <3>2. r.live = FALSE
      BY <3>1
    <3>3. QED BY <3>1, <3>2 DEF NoAnswer
  <2>2. view' = [view EXCEPT !.kinds = kinds, !.end = end] /\ requests' = {r}
    BY <1>4 DEF ApplyFilters
  <2>3. /\ IsView(view') /\ view'.kinds = kinds /\ view'.end = end
        /\ view'.rows = view.rows /\ view'.forKinds = view.forKinds
    BY <2>2 DEF PagesInv
  <2> HIDE DEF r
  <2>4. QED BY <1>4, <2>1, <2>2, <2>3 DEF ApplyFilters, PagesInv, LogKnown,
                                       timerVars, serverVars, NoPage
<1>5. ASSUME NEW r \in requests, Answer(r) PROVE PagesInv'
  <2>1. PICK a : /\ requests' = (requests \ {r}) \union {[r EXCEPT !.answer = a]}
                 /\ opened = "log" => a = LogEvents(r)
    BY <1>5 DEF Answer
  <2> DEFINE q == [r EXCEPT !.answer = a]
  <2>2. /\ IsRequest(q) /\ q.kinds = r.kinds /\ q.end = r.end
        /\ q.live = r.live /\ q.answer = a
    BY DEF PagesInv
  <2>3. opened = "log" => OfKinds(q.answer.rows, q.kinds)
    BY <2>1, <2>2, FoundOfKinds
  <2>4. requests' = (requests \ {r}) \union {q}
    BY <2>1
  <2> HIDE DEF q
  <2>5. QED BY <1>5, <2>2, <2>3, <2>4 DEF Answer, PagesInv, LogKnown, timerVars,
                                       serverVars
<1>6. ASSUME NEW r \in requests, OnFiltered(r) PROVE PagesInv'
  <2>1. /\ IsView(view') /\ view'.rows = r.answer.rows
        /\ view'.forKinds = r.kinds /\ view'.forEnd = r.end
        /\ view'.kinds = view.kinds /\ view'.end = view.end
    BY <1>6 DEF OnFiltered, PagesInv
  <2>2. QED BY <1>6, <2>1 DEF OnFiltered, Arrives, PagesInv, LogKnown, timerVars,
                            serverVars, NoPage
<1>7. ASSUME NEW r \in requests, OnNewEvents(r) PROVE PagesInv'
  <2>1. /\ IsView(view') /\ view'.rows = view.rows
        /\ view'.forKinds = view.forKinds /\ view'.forEnd = view.forEnd
        /\ view'.kinds = view.kinds /\ view'.end = view.end
    BY <1>7 DEF OnNewEvents, PagesInv
  <2>2. QED BY <1>7, <2>1 DEF OnNewEvents, Arrives, PagesInv, LogKnown, timerVars,
                            serverVars, NoPage
<1>8. ASSUME NEW r \in requests, OnSingle(r) \/ OnStatus(r) PROVE PagesInv'
  <2>1. IsView(view')
    BY <1>8 DEF OnSingle, OnStatus, PagesInv
  <2>2. QED BY <1>8, <2>1 DEF OnSingle, OnStatus, Arrives, PagesInv, timerVars,
                            serverVars, NoPage
<1>9. ASSUME NEW r \in requests, TimeOut(r) PROVE PagesInv'
  BY <1>9 DEF TimeOut, PagesInv, LogKnown, timerVars, serverVars
<1>10. CASE ScheduleRun
  <2>1. opened # NoPage
    BY <1>10 DEF ScheduleRun, PagesInv
  <2>2. CASE quota > 0
    <3>1. Refresh /\ loose' = 0 /\ UNCHANGED <<events, opened, view>>
      BY <1>10, <2>2 DEF ScheduleRun, SetTimer, PagesInv, serverVars
    <3>2. QED BY <2>1, <3>1, RefreshKeeps
  <2>3. CASE ~(quota > 0)
    BY <1>10, <2>3, <2>1 DEF ScheduleRun, PagesInv, LogKnown, serverVars
  <2>4. QED BY <2>2, <2>3
<1>11. CASE ResetQuota
  <2>1. CASE quota = 0
    <3>1. Refresh /\ loose' = 0 /\ UNCHANGED <<events, opened, view>>
      BY <1>11, <2>1 DEF ResetQuota, SetTimer, PagesInv, serverVars
    <3>2. QED BY <1>11, <3>1, RefreshKeeps DEF ResetQuota
  <2>2. CASE quota # 0
    BY <1>11, <2>2 DEF ResetQuota, PagesInv, LogKnown, serverVars
  <2>3. QED BY <2>1, <2>2
<1>12. CASE ClearQuota
  BY <1>12 DEF ClearQuota, PagesInv, LogKnown, serverVars
<1>13. CASE EveryMinute
  <2>1. Refresh /\ loose' = 0 /\ UNCHANGED <<events, opened, view>>
    BY <1>13 DEF EveryMinute, PagesInv, serverVars, timerVars
  <2>2. QED BY <1>13, <2>1, RefreshKeeps DEF EveryMinute
<1>14. CASE UNCHANGED livePageVars
  BY <1>14 DEF livePageVars, PagesInv, LogKnown, serverVars, timerVars
<1>15. QED BY <1>1, <1>2, <1>3, <1>4, <1>5, <1>6, <1>7, <1>8, <1>9, <1>10,
              <1>11, <1>12, <1>13, <1>14 DEF LivePagesNext

LEMMA PagesInvHolds == LivePagesSpec => []PagesInv
<1>1. QED BY PagesInit, PagesStep, PTL DEF LivePagesSpec

\* applyFilters aborts the request that is on its way: when the log waits for
\* nothing, it shows what the filters ask for, whatever came late.
THEOREM LogShowsFiltered == LivePagesSpec => []ShownIsFiltered
<1>1. PagesInv => ShownIsFiltered
  BY DEF PagesInv, LogKnown, ShownIsFiltered
<1>2. QED BY <1>1, PagesInvHolds, PTL

\* scheduleRun clears the timer it remembers, and there is no other.
THEOREM PageHasOneTimer == LivePagesSpec => []OneTimer
<1>1. PagesInv => OneTimer
  BY DEF PagesInv, OneTimer
<1>2. QED BY <1>1, PagesInvHolds, PTL

-----------------------------------------------------------------------------

(***************************************************************************)
(* The least and the greatest of a set of numbers.                         *)
(***************************************************************************)

LEMMA LeastIs ==
    ASSUME NEW S \in SUBSET Nat, S # {}
    PROVE  Min(S) \in S /\ \A y \in S : Min(S) <= y
<1>1. PICK x \in S : \A y \in S : <<y, x>> \notin OpToRel(<, Nat)
  BY WFMin, NatLessThanWellFounded
<1>2. \A y \in S : ~(y < x)
  BY <1>1 DEF OpToRel
<1>3. \A y \in S : x <= y
  BY <1>2
<1>4. QED
  BY <1>3 DEF Min

\* The least of the numbers that nothing in S exceeds is in S.
LEMMA GreatestIs ==
    ASSUME NEW S \in SUBSET Nat, S # {}, NEW b \in Nat, \A y \in S : y <= b
    PROVE  Max(S) \in S /\ \A y \in S : y <= Max(S)
<1> DEFINE U == {m \in Nat : \A y \in S : y <= m}
<1>1. b \in U
  OBVIOUS
<1>2. U \in SUBSET Nat /\ U # {}
  BY <1>1
<1> HIDE DEF U
<1>3. Min(U) \in U /\ \A m \in U : Min(U) <= m
  BY <1>2, LeastIs
<1>4. PICK least : least = Min(U)
  OBVIOUS
<1>5. least \in Nat /\ \A y \in S : y <= least
  BY <1>3, <1>4 DEF U
<1>6. least \in S
  <2>1. SUFFICES ASSUME least \notin S PROVE FALSE
    OBVIOUS
  <2>2. \A y \in S : y <= least - 1
    BY <1>5, <2>1
  <2>3. least - 1 \in Nat
    <3>1. PICK y \in S : TRUE
      OBVIOUS
    <3>2. y \in Nat /\ y <= least - 1
      BY <2>2
    <3>3. QED
      BY <1>5, <3>2
  <2>4. least - 1 \in U
    BY <2>2, <2>3 DEF U
  <2>5. QED
    BY <1>3, <1>4, <1>5, <2>4
<1>7. \A y \in S : least >= y
  BY <1>5
<1>8. QED
  BY <1>5, <1>6, <1>7 DEF Max

(***************************************************************************)
(* Folds: what holds of nothing, and of one more if it holds without the   *)
(* one that is taken first, holds of a finite set.                         *)
(***************************************************************************)

Picks(first, S) == \A s \in SUBSET S : s # {} => first[s] \in s

LEMMA FoldInduction ==
    ASSUME NEW S, IsFiniteSet(S), NEW first,
           Picks(first, S),
           NEW P, {} \in P,
           \A s \in SUBSET S : s # {} /\ s \ {first[s]} \in P => s \in P
    PROVE  S \in P
<1> DEFINE Bad == {k \in Nat : \E s \in SUBSET S : s \notin P /\ Cardinality(s) = k}
<1>1. \A s \in SUBSET S : IsFiniteSet(s) /\ Cardinality(s) \in Nat
  BY FS_Subset, FS_CardinalityType
<1>2. Bad = {}
  <2>1. SUFFICES ASSUME Bad # {} PROVE FALSE
    OBVIOUS
  <2>2. Min(Bad) \in Bad /\ \A k \in Bad : Min(Bad) <= k
    <3>1. Bad \in SUBSET Nat
      OBVIOUS
    <3> HIDE DEF Bad
    <3>2. QED
      BY <2>1, <3>1, LeastIs
  <2>3. PICK s \in SUBSET S : s \notin P /\ Cardinality(s) = Min(Bad)
    BY <2>2
  <2>4. s # {} /\ first[s] \in s
    BY <2>3 DEF Picks
  <2>5. Cardinality(s \ {first[s]}) = Cardinality(s) - 1
    BY <1>1, <2>4, FS_RemoveElement
  <2>6. s \ {first[s]} \notin P
    BY <2>3, <2>4
  <2>7. s \ {first[s]} \in SUBSET S
    OBVIOUS
  <2>8. Cardinality(s \ {first[s]}) \in Bad
    BY <1>1, <2>6, <2>7
  <2> HIDE DEF Bad
  <2>9. Min(Bad) <= Cardinality(s \ {first[s]})
    BY <2>2, <2>8
  <2>10. Cardinality(s) \in Nat
    BY <1>1
  <2>11. QED
    BY <2>3, <2>5, <2>9, <2>10
<1>3. Cardinality(S) \notin Bad /\ Cardinality(S) \in Nat
  BY <1>1, <1>2
<1>4. QED
  BY <1>3

IsFold(f, S, first, base, step) ==
    \A s \in SUBSET S :
        f[s] = IF s = {} THEN base ELSE step[<<first[s], f[s \ {first[s]}]>>]

\* A fold is defined.
LEMMA FoldExists ==
    ASSUME NEW S, IsFiniteSet(S), NEW first,
           Picks(first, S),
           NEW V, NEW base \in V, NEW step \in [S \X V -> V]
    PROVE  \E f \in [SUBSET S -> V] : IsFold(f, S, first, base, step)
<1> USE DEF IsFold
<1> DEFINE P == {t \in SUBSET S :
                    \E f \in [SUBSET S -> V] :
                       \A s \in SUBSET S : Cardinality(s) <= Cardinality(t) =>
                          f[s] = IF s = {} THEN base
                                 ELSE step[<<first[s], f[s \ {first[s]}]>>]}
<1>1. \A s \in SUBSET S : IsFiniteSet(s) /\ Cardinality(s) \in Nat
  BY FS_Subset, FS_CardinalityType
<1> USE DEF Picks
<1>2. {} \in P
  <2>1. [s \in SUBSET S |-> base] \in [SUBSET S -> V]
    OBVIOUS
  <2>2. \A s \in SUBSET S : Cardinality(s) <= Cardinality({}) => s = {}
    BY <1>1, FS_EmptySet
  <2>3. QED
    BY <2>1, <2>2
<1>3. ASSUME NEW t \in SUBSET S, t # {}, t \ {first[t]} \in P
      PROVE  t \in P
  <2> DEFINE k == Cardinality(t \ {first[t]})
  <2>1. k \in Nat /\ Cardinality(t) = k + 1
    <3>1. first[t] \in t /\ IsFiniteSet(t) /\ Cardinality(t) \in Nat
      BY <1>1, <1>3
    <3>2. k = Cardinality(t) - 1
      BY <3>1, FS_RemoveElement
    <3>3. k \in Nat
      BY <1>1
    <3>4. QED
      BY <3>1, <3>2, <3>3
  <2>2. PICK f \in [SUBSET S -> V] :
            \A s \in SUBSET S : Cardinality(s) <= k =>
               f[s] = IF s = {} THEN base ELSE step[<<first[s], f[s \ {first[s]}]>>]
    BY <1>3
  <2> HIDE DEF k
  <2> DEFINE g == [s \in SUBSET S |->
                     IF s = {} THEN base ELSE step[<<first[s], f[s \ {first[s]}]>>]]
  <2>3. g \in [SUBSET S -> V]
    OBVIOUS
  <2>4. ASSUME NEW s \in SUBSET S, Cardinality(s) <= k + 1
        PROVE  g[s] = IF s = {} THEN base ELSE step[<<first[s], g[s \ {first[s]}]>>]
    <3>1. CASE s = {}
      BY <3>1
    <3>2. CASE s # {}
      <4>1. Cardinality(s) \in Nat /\ Cardinality(s \ {first[s]}) = Cardinality(s) - 1
        BY <1>1, <3>2, FS_RemoveElement
      <4>2. Cardinality(s \ {first[s]}) <= k
        BY <2>1, <2>4, <4>1
      <4>3. s \ {first[s]} \in SUBSET S
        OBVIOUS
      <4>4. g[s \ {first[s]}] = f[s \ {first[s]}]
        BY <2>2, <4>2, <4>3
      <4>5. QED
        BY <3>2, <4>4
    <3>3. QED
      BY <3>1, <3>2
  <2> HIDE DEF g
  <2>5. \A s \in SUBSET S : Cardinality(s) <= Cardinality(t) =>
            g[s] = IF s = {} THEN base ELSE step[<<first[s], g[s \ {first[s]}]>>]
    BY <2>1, <2>4
  <2>6. QED
    BY <2>3, <2>5
<1> HIDE DEF P, Picks
<1>4. S \in P
  BY <1>2, <1>3, FoldInduction
<1>5. PICK f \in [SUBSET S -> V] :
          \A s \in SUBSET S : Cardinality(s) <= Cardinality(S) =>
             f[s] = IF s = {} THEN base ELSE step[<<first[s], f[s \ {first[s]}]>>]
  BY <1>4 DEF P
<1>6. \A s \in SUBSET S : Cardinality(s) <= Cardinality(S)
  BY FS_Subset
<1>7. QED
  BY <1>5, <1>6

-----------------------------------------------------------------------------

(***************************************************************************)
(* Durations: a page is whole where it matters.                            *)
(***************************************************************************)

PingRow ==
    [created : Nat, kind : {"start", "success", "fail", "log"},
     run : RunIds \union {NoRun}]

\* Pings are stored in the order of their times.
LogInv ==
    /\ moment \in Nat
    /\ arrived \in Seq(PingRow)
    /\ deleted \in Nat /\ deleted <= Len(arrived)
    /\ \A n \in DOMAIN arrived : arrived[n].created <= moment
    /\ \A m, n \in DOMAIN arrived : m <= n => arrived[m].created <= arrived[n].created

BeginsOrEnds(n) == arrived[n].kind \in StartKinds \union Ends

\* Between two pings of a page, of which the later one ends a run, the page has
\* whatever begins or ends a run.
Whole(page) ==
    /\ page \subseteq Table
    /\ \A k, n \in page : \A m \in Table :
          k < m /\ m < n /\ arrived[n].kind \in Ends /\ BeginsOrEnds(m) => m \in page

LEMMA LogStarts == PingLogInit => LogInv
BY DEF PingLogInit, LogInv

LEMMA LogStep == LogInv /\ [PingLogNext]_pingLogVars => LogInv'
<1> SUFFICES ASSUME LogInv, [PingLogNext]_pingLogVars PROVE LogInv'
  OBVIOUS
<1>0. \A n \in DOMAIN arrived : arrived[n].created \in Nat
  <2>1. \A n \in DOMAIN arrived : arrived[n] \in PingRow
    BY DEF LogInv
  <2>2. QED
    BY <2>1 DEF PingRow
<1> USE DEF LogInv
<1>1. CASE Proceed
  BY <1>0, <1>1 DEF Proceed
<1>2. ASSUME NEW kind \in Arriving, NEW run \in RunIds \union {NoRun}, AddPing(kind, run)
      PROVE  LogInv'
  <2> DEFINE row == [created |-> moment, kind |-> kind, run |-> run]
  <2>1. row \in PingRow /\ row.created = moment
    BY PingLogAssumption DEF PingRow
  <2>2. arrived' = Append(arrived, row) /\ UNCHANGED <<moment, deleted>>
    BY <1>2 DEF AddPing
  <2> HIDE DEF row
  <2>3. arrived' \in Seq(PingRow) /\ Len(arrived') = Len(arrived) + 1
    BY <2>1, <2>2
  <2>4. \A n \in DOMAIN arrived' :
            arrived'[n] = IF n = Len(arrived) + 1 THEN row ELSE arrived[n]
    BY <2>1, <2>2
  <2>5. \A n \in DOMAIN arrived' : n # Len(arrived) + 1 => n \in DOMAIN arrived
    BY <2>3
  <2>6. \A n \in DOMAIN arrived' : arrived'[n].created <= moment'
    BY <2>1, <2>2, <2>4, <2>5
  <2>7. \A m, n \in DOMAIN arrived' : m <= n => arrived'[m].created <= arrived'[n].created
    BY <1>0, <2>1, <2>3, <2>4, <2>5
  <2>8. QED
    BY <2>2, <2>3, <2>6, <2>7
<1>3. CASE DeleteInvisible
  BY <1>3, PingLogAssumption DEF DeleteInvisible
<1>4. CASE DeleteAll
  BY <1>4 DEF DeleteAll
<1>5. CASE UNCHANGED pingLogVars
  BY <1>5 DEF pingLogVars
<1>6. QED
  BY <1>1, <1>2, <1>3, <1>4, <1>5 DEF PingLogNext

LEMMA RowsOfLog ==
    ASSUME LogInv
    PROVE  /\ Table \in SUBSET (Nat \ {0}) /\ IsFiniteSet(Table)
           /\ \A n \in Table : n \in DOMAIN arrived /\ n <= Len(arrived)
           /\ \A n \in Table : arrived[n] \in PingRow /\ arrived[n].created \in Nat
           /\ \A m, n \in Table : m <= n => arrived[m].created <= arrived[n].created
<1>1. Table \in SUBSET (Nat \ {0}) /\ \A n \in Table : n \in DOMAIN arrived
  BY DEF LogInv, Table
<1>2. IsFiniteSet(Table)
  <2>1. deleted + 1 \in Int /\ Len(arrived) \in Int
    BY DEF LogInv
  <2>2. QED
    BY <2>1, FS_Interval DEF Table
<1>3. \A n \in Table : arrived[n] \in PingRow
  BY <1>1 DEF LogInv
<1>4. QED
  BY <1>1, <1>2, <1>3 DEF LogInv, PingRow, Table

\* Of what is later than a ping on the page, there is not more after that.
LEMMA LatestLater ==
    ASSUME LogInv, NEW pings \in SUBSET Table, NEW limit \in Nat,
           NEW k \in LatestOf(pings, limit), NEW m \in pings, k < m
    PROVE  m \in LatestOf(pings, limit)
<1> DEFINE After(n) == {x \in pings : x > n}
<1>1. IsFiniteSet(pings) /\ pings \subseteq Nat
  BY RowsOfLog, FS_Subset
<1>2. k \in pings /\ Cardinality(After(k)) < limit
  BY DEF LatestOf
<1>3. After(m) \subseteq After(k)
  <2>1. m \in Nat /\ k \in Nat /\ k < m
    BY <1>1, <1>2
  <2>2. ASSUME NEW x \in pings, x > m PROVE x > k
    <3>1. x \in Nat
      BY <1>1
    <3>2. QED
      BY <2>1, <2>2, <3>1
  <2>3. QED
    BY <2>2
<1>4. IsFiniteSet(After(k)) /\ IsFiniteSet(After(m))
  BY <1>1, FS_Subset
<1>5. Cardinality(After(m)) <= Cardinality(After(k))
  BY <1>3, <1>4, FS_Subset
<1>6. Cardinality(After(m)) < limit
  BY <1>2, <1>4, <1>5, FS_CardinalityType
<1>7. QED
  BY <1>6 DEF LatestOf

LEMMA EventsWhole ==
    ASSUME LogInv, NEW limit \in Nat, NEW start \in Int, NEW end \in Int,
           NEW kinds \in Balanced
    PROVE  Whole(GetEvents(limit, start, end, kinds))
<1> DEFINE pings == {n \in visible_pings : /\ arrived[n].created \in start .. end
                                           /\ arrived[n].kind \in kinds}
           page == LatestOf(pings, limit)
<1>1. pings \in SUBSET Table /\ page \subseteq pings
  BY DEF visible_pings, LatestOf
<1>2. ASSUME NEW k \in page, NEW n \in page, NEW m \in Table, k < m, m < n,
             arrived[n].kind \in Ends, BeginsOrEnds(m)
      PROVE  m \in page
  <2>1. k \in pings /\ n \in pings /\ k \in Table /\ n \in Table
    BY <1>1
  <2>2. arrived[m].kind \in kinds
    <3>1. arrived[n].kind \in kinds
      BY <2>1
    <3>2. StartKinds \union Ends \subseteq kinds
      BY <1>2, <3>1 DEF Balanced
    <3>3. QED
      BY <1>2, <3>2 DEF BeginsOrEnds
  <2>3. arrived[m].created \in start .. end
    <3>1. start <= arrived[k].created /\ arrived[n].created <= end
      BY <2>1, RowsOfLog
    <3>2. /\ arrived[k].created <= arrived[m].created
          /\ arrived[m].created <= arrived[n].created
      BY <1>2, <2>1, RowsOfLog
    <3>3. QED
      BY <2>1, <3>1, <3>2, RowsOfLog
  <2>4. m \in visible_pings
    BY <1>2, <2>1, RowsOfLog, PingLogAssumption DEF visible_pings, LogInv
  <2>5. m \in pings
    BY <2>2, <2>3, <2>4
  <2>6. QED
    BY <1>1, <1>2, <2>5, LatestLater
<1>3. Whole(page)
  BY <1>1, <1>2 DEF Whole
<1>4. QED
  BY <1>3 DEF GetEvents

LEMMA PagesWhole ==
    ASSUME LogInv, NEW page \in Pages
    PROVE  Whole(page)
<1>1. PageLimit \in Nat /\ VisiblePings \in Nat
  BY PingLogAssumption
<1>2. ShownKinds \in Balanced
  BY DEF Balanced, ShownKinds
<1>3. moment \in Int
  BY DEF LogInv
<1>4. OldestVisible \in Nat
  <2>1. visible_pings \in SUBSET Nat /\ visible_pings \subseteq Table
    BY RowsOfLog DEF visible_pings
  <2>2. visible_pings # {} => Min(visible_pings) \in Table
    BY <2>1, LeastIs
  <2>3. QED
    BY <2>2, RowsOfLog DEF OldestVisible
<1>5. Whole(LogView) /\ Whole(status_single)
  BY <1>1, <1>2, <1>3, <1>4, EventsWhole DEF LogView, status_single
<1>6. Whole(ApiPings)
  <2>1. Min({VisiblePings, PageLimit}) \in Nat
    BY <1>1, LeastIs
  <2>2. ApiPings \subseteq Table
    BY DEF ApiPings, LatestOf
  <2>3. QED
    BY <2>1, <2>2, LatestLater DEF Whole, ApiPings
<1>7. ASSUME NEW since \in 1 .. moment, NEW end \in 1 .. moment, NEW kinds \in Balanced
      PROVE  Whole(log_events(since, end, kinds))
  <2>1. since \in Nat /\ end \in Int
    BY <1>3
  <2>2. Max({since, OldestVisible}) \in Int
    <3>1. PICK S : S = {since, OldestVisible}
      OBVIOUS
    <3>2. S \in SUBSET Nat /\ S # {} /\ \A y \in S : y <= since + OldestVisible
      BY <1>4, <2>1, <3>1
    <3>3. Max(S) \in S
      BY <1>4, <2>1, <3>2, GreatestIs
    <3>4. QED
      BY <3>1, <3>2, <3>3
  <2>3. QED
    BY <1>1, <2>1, <2>2, EventsWhole DEF log_events
<1>8. QED
  BY <1>5, <1>6, <1>7 DEF Pages

\* What Ping.duration looks at: what began or ended the run of n before it.
SameRun(n) ==
    {m \in Table : /\ m < n
                   /\ arrived[m].created >= arrived[n].created - LongestRun
                   /\ arrived[m].run = arrived[n].run
                   /\ BeginsOrEnds(m)}

LEMMA DurationIs ==
    ASSUME NEW n
    PROVE  Duration(n) =
             IF n = 1 \/ arrived[n].kind \notin Ends \/ SameRun(n) = {} THEN Unknown
             ELSE IF arrived[Max(SameRun(n))].kind = "start"
                  THEN arrived[n].created - arrived[Max(SameRun(n))].created ELSE Unknown
BY DEF Duration, SameRun, BeginsOrEnds

\* The last that is seen is the last there is, unless the run was too long.
LEMMA SeenAgrees ==
    ASSUME LogInv, NEW page, Whole(page), NEW n \in page, arrived[n].kind \in Ends,
           Seen(page, n) # {}
    PROVE  \/ Prepared(page, n) = Duration(n)
           \/ Duration(n) = LongestRun /\ Prepared(page, n) = Unknown
<1> DEFINE S == Seen(page, n)
<1>1. /\ n \in Table /\ page \subseteq Table
      /\ \A m \in S : /\ m \in page /\ m \in Table /\ m < n
                      /\ arrived[m].run = arrived[n].run /\ BeginsOrEnds(m)
  BY DEF Whole, Seen, BeginsOrEnds
<1>2. S \in SUBSET Nat /\ n \in Nat /\ \A m \in S : m <= n
  BY <1>1, RowsOfLog
<1>3. Max(S) \in S /\ \A m \in S : m <= Max(S)
  BY <1>2, GreatestIs
<1>4. PICK last : last = Max(S)
  OBVIOUS
<1>5. /\ last \in page /\ last \in Table /\ last < n /\ last # 0
      /\ arrived[last].run = arrived[n].run /\ BeginsOrEnds(last)
  BY <1>1, <1>3, <1>4, RowsOfLog
<1>6. n # 1
  BY <1>2, <1>5, RowsOfLog
<1>7. \A m \in Table : m < n /\ last < m /\ arrived[m].run = arrived[n].run
                       => ~BeginsOrEnds(m)
  <2>1. ASSUME NEW m \in Table, m < n, last < m, BeginsOrEnds(m),
               arrived[m].run = arrived[n].run
        PROVE  FALSE
    <3>1. m \in page
      BY <1>5, <2>1 DEF Whole
    <3>2. m \in S
      BY <2>1, <3>1 DEF Seen, BeginsOrEnds
    <3>3. m \in Nat /\ last \in Nat
      BY <1>5, RowsOfLog
    <3>4. QED
      BY <1>3, <1>4, <2>1, <3>2, <3>3
  <2>2. QED
    BY <2>1
<1>8. Prepared(page, n) =
        IF /\ arrived[last].kind = "start"
           /\ arrived[n].created - arrived[last].created < LongestRun
        THEN arrived[n].created - arrived[last].created ELSE Unknown
  BY <1>4 DEF Prepared
<1>9. arrived[n].created \in Nat /\ arrived[last].created \in Nat /\ LongestRun \in Nat
  BY <1>1, <1>5, RowsOfLog, PingLogAssumption
<1> HIDE DEF S
<1>10. CASE arrived[last].created >= arrived[n].created - LongestRun
  <2>1. last \in SameRun(n)
    BY <1>5, <1>10 DEF SameRun
  <2>2. \A m \in SameRun(n) : m <= last
    BY <1>5, <1>7, RowsOfLog DEF SameRun
  <2>3. SameRun(n) \in SUBSET Nat
    BY RowsOfLog DEF SameRun
  <2>4. Max(SameRun(n)) \in SameRun(n) /\ last <= Max(SameRun(n))
    BY <1>5, <2>1, <2>2, <2>3, GreatestIs
  <2>5. Max(SameRun(n)) = last
    BY <2>1, <2>2, <2>3, <2>4
  <2>6. Duration(n) = IF arrived[last].kind = "start"
                      THEN arrived[n].created - arrived[last].created ELSE Unknown
    BY <1>6, <2>1, <2>5, DurationIs
  <2>7. QED
    BY <1>8, <1>9, <1>10, <2>6
<1>11. CASE ~(arrived[last].created >= arrived[n].created - LongestRun)
  <2>1. SameRun(n) = {}
    <3>1. SUFFICES ASSUME NEW m \in SameRun(n) PROVE FALSE
      OBVIOUS
    <3>2. /\ m \in Table /\ m < n /\ arrived[m].run = arrived[n].run /\ BeginsOrEnds(m)
          /\ arrived[m].created >= arrived[n].created - LongestRun
      BY DEF SameRun
    <3>3. m <= last
      BY <1>5, <1>7, <3>2, RowsOfLog
    <3>4. arrived[m].created <= arrived[last].created /\ arrived[m].created \in Nat
      BY <1>5, <3>2, <3>3, RowsOfLog
    <3>5. QED
      BY <1>9, <1>11, <3>2, <3>4
  <2>2. Duration(n) = Unknown
    BY <2>1, DurationIs
  <2>3. Prepared(page, n) = Unknown
    BY <1>8, <1>9, <1>11
  <2>4. QED
    BY <2>2, <2>3
<1>12. QED
  BY <1>10, <1>11

\* A page that reaches back far enough, and has nothing of the run: there is
\* nothing, but for what began it to the moment as long ago as a run may take.
LEMMA UnseenAgrees ==
    ASSUME LogInv, NEW page, Whole(page), NEW n \in page, arrived[n].kind \in Ends,
           Seen(page, n) = {}, ~IsMiss(page, n)
    PROVE  /\ Duration(n) \in {Unknown, LongestRun}
           /\ Prepared(page, n) = Unknown
<1>1. Prepared(page, n) = Unknown
  BY DEF Prepared
<1>2. page \subseteq Table /\ n \in Table /\ page \in SUBSET Nat
  BY RowsOfLog DEF Whole
<1>3. Min(page) \in page /\ \A m \in page : Min(page) <= m
  BY <1>2, LeastIs
<1>4. PICK first : first = Min(page)
  OBVIOUS
<1>5. first \in page /\ first \in Table /\ first <= n
  BY <1>2, <1>3, <1>4
<1>6. arrived[n].created \in Nat /\ arrived[first].created \in Nat /\ LongestRun \in Nat
  BY <1>2, <1>5, RowsOfLog, PingLogAssumption
<1>7. arrived[n].created - arrived[first].created >= LongestRun
  BY <1>4, <1>6 DEF IsMiss
<1>8. \A m \in SameRun(n) :
          m \in Table /\ m < n /\ arrived[m].created = arrived[n].created - LongestRun
  <2>1. SUFFICES ASSUME NEW m \in SameRun(n)
                 PROVE  /\ m \in Table /\ m < n
                        /\ arrived[m].created = arrived[n].created - LongestRun
    OBVIOUS
  <2>2. /\ m \in Table /\ m < n /\ arrived[m].run = arrived[n].run /\ BeginsOrEnds(m)
        /\ arrived[m].created >= arrived[n].created - LongestRun
    BY DEF SameRun
  <2>3. m \notin page
    BY <2>2 DEF Seen, BeginsOrEnds
  <2>4. ~(first < m)
    BY <1>5, <2>2, <2>3 DEF Whole
  <2>5. m <= first
    BY <1>5, <2>2, <2>4, RowsOfLog
  <2>6. arrived[m].created <= arrived[first].created /\ arrived[m].created \in Nat
    BY <1>5, <2>2, <2>5, RowsOfLog
  <2>7. QED
    BY <1>6, <1>7, <2>2, <2>6
<1>9. CASE SameRun(n) = {}
  BY <1>1, <1>9, DurationIs
<1>10. CASE SameRun(n) # {}
  <2>1. SameRun(n) \in SUBSET Nat /\ n \in Nat /\ \A m \in SameRun(n) : m <= n
    BY <1>2, <1>8, RowsOfLog
  <2>2. Max(SameRun(n)) \in SameRun(n)
    BY <1>10, <2>1, GreatestIs
  <2>3. arrived[n].created - arrived[Max(SameRun(n))].created = LongestRun
    BY <1>6, <1>8, <2>2
  <2>4. QED
    BY <1>1, <2>3, DurationIs
<1>11. QED
  BY <1>9, <1>10

\* The optimization of prepare_durations gives what Ping.duration gives, for every
\* ping of every page, however long the log and wherever pages begin and end; but
\* for runs of exactly 72 hours, and for pages with too many misses.
THEOREM DurationsDoAgree == PingLogSpec => []DurationsAgree
<1>1. LogInv => DurationsAgree
  <2>1. SUFFICES ASSUME LogInv, NEW page \in Pages, NEW n \in page
                 PROVE  \/ ShownDuration(page, n) = Duration(n)
                        \/ Duration(n) = LongestRun /\ ShownDuration(page, n) = Unknown
                        \/ /\ Cardinality(Misses(page)) > MaxMisses
                           /\ ShownDuration(page, n) = Unknown
    BY DEF DurationsAgree
  <2>2. Whole(page)
    BY <2>1, PagesWhole
  <2>3. CASE arrived[n].kind \notin Ends
    BY <2>1, <2>3, DurationIs DEF ShownDuration
  <2>4. CASE arrived[n].kind \in Ends /\ IsMiss(page, n)
    BY <2>1, <2>4 DEF ShownDuration
  <2>5. CASE arrived[n].kind \in Ends /\ ~IsMiss(page, n)
    BY <2>1, <2>2, <2>5, SeenAgrees, UnseenAgrees DEF ShownDuration
  <2>6. QED
    BY <2>3, <2>4, <2>5
<1>2. QED
  BY <1>1, LogStarts, LogStep, PTL DEF PingLogSpec

-----------------------------------------------------------------------------

(***************************************************************************)
(* Summaries: a view that goes through the checks keeps the worst of those *)
(* it has seen, and their numbers.                                         *)
(***************************************************************************)

ListedCheck == [status : Found, started : BOOLEAN, tags : SUBSET Tags]

SummariesInv == listing \in Seq(ListedCheck)

StatusesOf(s) == {listing[i].status : i \in s}

LEMMA SummariesTyped == SummariesSpec => []SummariesInv
<1>1. SummariesInit => SummariesInv
  BY DEF SummariesInit, SummariesInv
<1>2. SummariesInv /\ [SummariesNext]_listing => SummariesInv'
  <2> SUFFICES ASSUME SummariesInv, [SummariesNext]_listing PROVE SummariesInv'
    OBVIOUS
  <2> USE DEF SummariesInv
  <2>1. ASSUME NEW ts \in SUBSET Tags, NewCheck(ts) PROVE SummariesInv'
    <3>1. [status |-> "new", started |-> FALSE, tags |-> ts] \in ListedCheck
      BY DEF ListedCheck, Found
    <3>2. QED
      BY <2>1, <3>1 DEF NewCheck
  <2>2. ASSUME NEW i \in DOMAIN listing, NEW c \in ListedCheck, Turn(i, c)
        PROVE  SummariesInv'
    BY <2>2 DEF Turn
  <2>3. ASSUME NEW i \in DOMAIN listing, NEW s \in Found, NEW b \in BOOLEAN,
               NEW ts \in SUBSET Tags, Turn(i, [status |-> s, started |-> b, tags |-> ts])
        PROVE  SummariesInv'
    <3>1. [status |-> s, started |-> b, tags |-> ts] \in ListedCheck
      BY DEF ListedCheck
    <3>2. QED
      BY <2>2, <2>3, <3>1
  <2>4. CASE UNCHANGED listing
    BY <2>4
  <2>5. QED
    BY <2>1, <2>3, <2>4 DEF SummariesNext
<1>3. QED
  BY <1>1, <1>2, PTL DEF SummariesSpec

LEMMA ListingTyped ==
    ASSUME SummariesInv
    PROVE  /\ DOMAIN listing \in SUBSET Nat /\ IsFiniteSet(DOMAIN listing)
           /\ \A i \in DOMAIN listing : listing[i].status \in Found
           /\ \A s \in SUBSET DOMAIN listing : s # {} => Max(s) \in s
<1>1. DOMAIN listing \in SUBSET Nat /\ \A i \in DOMAIN listing : i <= Len(listing)
  BY DEF SummariesInv
<1>2. Len(listing) \in Nat /\ DOMAIN listing = 1 .. Len(listing)
  BY DEF SummariesInv
<1>3. IsFiniteSet(DOMAIN listing)
  BY <1>2, FS_Interval
<1>4. \A i \in DOMAIN listing : listing[i] \in ListedCheck
  BY DEF SummariesInv
<1>5. ASSUME NEW s \in SUBSET DOMAIN listing, s # {} PROVE Max(s) \in s
  <2>1. s \in SUBSET Nat /\ \A i \in s : i <= Len(listing)
    BY <1>1
  <2>2. QED
    BY <1>2, <1>5, <2>1, GreatestIs
<1>6. QED
  BY <1>1, <1>3, <1>4, <1>5 DEF ListedCheck

LEMMA WorstOfMore ==
    ASSUME NEW old, NEW c \in Found
    PROVE  /\ Worst(old) \in {"up", "grace", "down"}
           /\ Worst(old \union {c}) =
                IF c = "down" \/ (c = "grace" /\ Worst(old) = "up") THEN c ELSE Worst(old)
<1>1. Worst(old) \in {"up", "grace", "down"}
  BY DEF Worst
<1>2. \A x : x \in old \union {c} <=> x \in old \/ x = c
  OBVIOUS
<1>3. CASE c = "down"
  BY <1>1, <1>2, <1>3 DEF Worst
<1>4. CASE c = "grace"
  BY <1>1, <1>2, <1>4 DEF Worst
<1>5. CASE c \notin {"down", "grace"}
  BY <1>1, <1>2, <1>5 DEF Worst
<1>6. QED
  BY <1>3, <1>4, <1>5

\* The loop over the checks of all projects.
LEMMA SummaryFold ==
    ASSUME SummariesInv, NEW p
    PROVE  \E f : /\ ProjectSummary(p) = f[DOMAIN listing]
                  /\ \A s \in SUBSET DOMAIN listing :
                        f[s] = IF s = {} THEN [started |-> FALSE, status |-> "up"]
                               ELSE SummaryStep(f[s \ {Max(s)}], Max(s), p)
<1> DEFINE D == DOMAIN listing
           base == [started |-> FALSE, status |-> "up"]
           V == [started : BOOLEAN, status : Found]
           first == [s \in SUBSET D |-> Max(s)]
           step == [a \in D \X V |-> SummaryStep(a[2], a[1], p)]
           IsLoop(f) == f = [s \in SUBSET D |->
                              IF s = {} THEN base
                              ELSE SummaryStep(f[s \ {Max(s)}], [i \in D |-> i][Max(s)], p)]
<1>1. ProjectSummary(p) = (CHOOSE f : IsLoop(f))[DOMAIN listing]
  BY DEF ProjectSummary, FoldLeftDomain, FoldLeft, MapThenFoldSet
<1>2. \E f : IsLoop(f)
  <2>1. base \in V /\ step \in [D \X V -> V]
    <3>1. ASSUME NEW i \in D, NEW v \in V PROVE SummaryStep(v, i, p) \in V
      <4>1. listing[i] \in ListedCheck
        BY DEF SummariesInv
      <4>2. QED
        BY <4>1 DEF SummaryStep, ListedCheck, Found
    <3>2. \A a \in D \X V : a[1] \in D /\ a[2] \in V
      OBVIOUS
    <3>3. base \in V
      BY DEF Found
    <3> HIDE DEF V, base
    <3>4. QED
      BY <3>1, <3>2, <3>3
  <2>2. Picks(first, D)
    BY ListingTyped DEF Picks
  <2> HIDE DEF V, base
  <2>3. \E f \in [SUBSET D -> V] : IsFold(f, D, first, base, step)
    <3>1. IsFiniteSet(D)
      BY ListingTyped
    <3> HIDE DEF step, first, D, IsLoop
    <3>2. base \in V
      BY <2>1
    <3>3. step \in [D \X V -> V]
      BY <2>1
    <3>4. QED
      BY <2>2, <3>1, <3>2, <3>3, FoldExists
  <2>4. PICK f \in [SUBSET D -> V] : IsFold(f, D, first, base, step)
    BY <2>3
  <2>5. ASSUME NEW s \in SUBSET D, s # {}
        PROVE  f[s] = SummaryStep(f[s \ {Max(s)}], [i \in D |-> i][Max(s)], p)
    <3>1. Max(s) \in D /\ f[s \ {Max(s)}] \in V /\ first[s] = Max(s)
      BY <2>2, <2>5 DEF Picks
    <3>2. f[s] = step[<<Max(s), f[s \ {Max(s)}]>>]
      BY <2>4, <2>5, <3>1 DEF IsFold
    <3>3. QED
      BY <3>1, <3>2
  <2>6. IsLoop(f)
    BY <2>4, <2>5 DEF IsFold
  <2>7. QED
    BY <2>6
<1>3. PICK f : f = (CHOOSE g : IsLoop(g))
  OBVIOUS
<1>4. IsLoop(f)
  BY <1>2, <1>3
<1>5. \A s \in SUBSET D : s # {} => [i \in D |-> i][Max(s)] = Max(s)
  BY ListingTyped
<1>6. \A s \in SUBSET D : f[s] = IF s = {} THEN base ELSE SummaryStep(f[s \ {Max(s)}], Max(s), p)
  BY <1>4, <1>5
<1>7. ProjectSummary(p) = f[DOMAIN listing]
  <2> HIDE DEF IsLoop
  <2>1. QED
    BY <1>1, <1>3
<1>8. QED
  BY <1>6, <1>7

LEMMA SummaryIsWorst ==
    ASSUME SummariesInv, NEW p
    PROVE  ProjectSummary(p).status = Worst(StatusesOf(Listing(p)))
<1> DEFINE D == DOMAIN listing
           first == [s \in SUBSET D |-> Max(s)]
<1>1. PICK f : /\ ProjectSummary(p) = f[D]
               /\ \A s \in SUBSET D :
                     f[s] = IF s = {} THEN [started |-> FALSE, status |-> "up"]
                            ELSE SummaryStep(f[s \ {Max(s)}], Max(s), p)
  BY SummaryFold
<1> DEFINE P == {s \in SUBSET D :
                    f[s].status = Worst(StatusesOf(s \intersect Listing(p)))}
<1>2. {} \in P
  BY <1>1 DEF Worst, StatusesOf
<1>3. ASSUME NEW s \in SUBSET D, s # {}, s \ {first[s]} \in P
      PROVE  s \in P
  <2>1. PICK x : x = Max(s)
    OBVIOUS
  <2>2. x \in s /\ x \in D /\ first[s] = x
    BY <1>3, <2>1, ListingTyped
  <2>3. f[s] = SummaryStep(f[s \ {x}], x, p)
    BY <1>1, <1>3, <2>1
  <2>4. f[s \ {x}].status = Worst(StatusesOf((s \ {x}) \intersect Listing(p)))
    BY <1>3, <2>2
  <2>5. CASE ListedIn[x] # p
    <3>1. s \intersect Listing(p) = (s \ {x}) \intersect Listing(p)
      BY <2>5 DEF Listing
    <3>2. QED
      BY <2>3, <2>4, <2>5, <3>1 DEF SummaryStep
  <2>6. CASE ListedIn[x] = p
    <3>1. StatusesOf(s \intersect Listing(p)) =
            StatusesOf((s \ {x}) \intersect Listing(p)) \union {listing[x].status}
      BY <2>2, <2>6 DEF Listing, StatusesOf
    <3>2. listing[x].status \in Found
      BY <2>2, ListingTyped
    <3>3. f[s].status = IF \/ listing[x].status = "down"
                           \/ listing[x].status = "grace" /\ f[s \ {x}].status = "up"
                        THEN listing[x].status ELSE f[s \ {x}].status
      BY <2>3, <2>6 DEF SummaryStep
    <3>4. QED
      BY <2>4, <3>1, <3>2, <3>3, WorstOfMore
  <2>7. QED
    BY <2>5, <2>6
<1>4. D \in P
  <2>1. IsFiniteSet(D) /\ Picks(first, D)
    BY ListingTyped DEF Picks
  <2> HIDE DEF P, D, first
  <2>2. QED
    BY <1>2, <1>3, <2>1, FoldInduction
<1>5. D \intersect Listing(p) = Listing(p)
  BY DEF Listing
<1>6. QED
  BY <1>1, <1>4, <1>5

BadgeRecord == [status : {"up", "late", "down"}, total : Nat, grace : Nat, down : Nat]

\* One turn of the loop of badge.
BadgeTurn(sum, i, checks, tag, fmt, withLate) ==
    IF (fmt = "svg" /\ sum.status = "down") \/ i \notin WithTag(checks, tag) THEN sum
    ELSE BadgeStep(sum, listing[i], withLate)

BadgeLoop(f, checks, tag, fmt, withLate) ==
    /\ Badge(checks, tag, fmt, withLate) = f[DOMAIN listing]
    /\ \A s \in SUBSET DOMAIN listing :
          f[s] = IF s = {} THEN NoneSeen
                 ELSE BadgeTurn(f[s \ {Max(s)}], Max(s), checks, tag, fmt, withLate)

LEMMA BadgeStepIs ==
    ASSUME NEW sum \in BadgeRecord, NEW c \in ListedCheck, NEW late \in BOOLEAN
    PROVE  /\ BadgeStep(sum, c, late) \in BadgeRecord
           /\ BadgeStep(sum, c, late).total = sum.total + 1
           /\ BadgeStep(sum, c, late).grace =
                sum.grace + (IF c.status = "grace" THEN 1 ELSE 0)
           /\ BadgeStep(sum, c, late).down = sum.down + (IF c.status = "down" THEN 1 ELSE 0)
           /\ BadgeStep(sum, c, late).status =
                IF c.status = "down" THEN "down"
                ELSE IF c.status = "grace" /\ sum.status = "up" /\ late THEN "late"
                ELSE sum.status
<1>0. /\ sum.total \in Nat /\ sum.grace \in Nat /\ sum.down \in Nat
      /\ sum.status \in {"up", "late", "down"}
      /\ sum = [status |-> sum.status, total |-> sum.total, grace |-> sum.grace,
                down |-> sum.down]
  BY DEF BadgeRecord
<1>1. CASE c.status = "down"
  <2>1. BadgeStep(sum, c, late) = [status |-> "down", total |-> sum.total + 1,
                                   grace |-> sum.grace, down |-> sum.down + 1]
    BY <1>0, <1>1 DEF BadgeStep
  <2>2. QED
    BY <1>0, <1>1, <2>1 DEF BadgeRecord
<1>2. CASE c.status = "grace"
  <2> DEFINE status == IF sum.status = "up" /\ late THEN "late" ELSE sum.status
  <2>1. BadgeStep(sum, c, late) = [status |-> status, total |-> sum.total + 1,
                                   grace |-> sum.grace + 1, down |-> sum.down]
    BY <1>0, <1>2 DEF BadgeStep
  <2>2. status \in {"up", "late", "down"}
    BY <1>0
  <2>3. QED
    BY <1>0, <1>2, <2>1, <2>2 DEF BadgeRecord
<1>3. CASE c.status \notin {"down", "grace"}
  <2>1. BadgeStep(sum, c, late) = [status |-> sum.status, total |-> sum.total + 1,
                                   grace |-> sum.grace, down |-> sum.down]
    BY <1>0, <1>3 DEF BadgeStep
  <2>2. QED
    BY <1>0, <1>3, <2>1 DEF BadgeRecord
<1>4. QED
  BY <1>1, <1>2, <1>3

\* The loop over the checks of a project.
LEMMA BadgeFold ==
    ASSUME SummariesInv, NEW checks, NEW tag, NEW fmt, NEW late \in BOOLEAN
    PROVE  \E f : BadgeLoop(f, checks, tag, fmt, late)
<1> DEFINE D == DOMAIN listing
           V == BadgeRecord
           first == [s \in SUBSET D |-> Max(s)]
           step == [a \in D \X V |-> BadgeTurn(a[2], a[1], checks, tag, fmt, late)]
           IsLoop(f) == f = [s \in SUBSET D |->
                              IF s = {} THEN NoneSeen
                              ELSE BadgeTurn(f[s \ {Max(s)}], [i \in D |-> i][Max(s)],
                                             checks, tag, fmt, late)]
<1>1. Badge(checks, tag, fmt, late) = (CHOOSE f : IsLoop(f))[DOMAIN listing]
  BY DEF Badge, BadgeTurn, FoldLeftDomain, FoldLeft, MapThenFoldSet
<1>2. \E f : IsLoop(f)
  <2>1. NoneSeen \in V /\ step \in [D \X V -> V]
    <3>1. ASSUME NEW i \in D, NEW v \in V
          PROVE  BadgeTurn(v, i, checks, tag, fmt, late) \in V
      <4>1. listing[i] \in ListedCheck
        BY DEF SummariesInv
      <4>2. QED
        BY <4>1, BadgeStepIs DEF BadgeTurn
    <3>2. \A a \in D \X V : a[1] \in D /\ a[2] \in V
      OBVIOUS
    <3>3. NoneSeen \in V
      BY DEF NoneSeen, BadgeRecord
    <3> HIDE DEF V
    <3>4. QED
      BY <3>1, <3>2, <3>3
  <2>2. Picks(first, D)
    BY ListingTyped DEF Picks
  <2> HIDE DEF V
  <2>3. \E f \in [SUBSET D -> V] : IsFold(f, D, first, NoneSeen, step)
    <3>1. IsFiniteSet(D)
      BY ListingTyped
    <3> HIDE DEF step, first, D, IsLoop
    <3>2. NoneSeen \in V
      BY <2>1
    <3>3. step \in [D \X V -> V]
      BY <2>1
    <3>4. QED
      BY <2>2, <3>1, <3>2, <3>3, FoldExists
  <2>4. PICK f \in [SUBSET D -> V] : IsFold(f, D, first, NoneSeen, step)
    BY <2>3
  <2>5. ASSUME NEW s \in SUBSET D, s # {}
        PROVE  f[s] = BadgeTurn(f[s \ {Max(s)}], [i \in D |-> i][Max(s)],
                                checks, tag, fmt, late)
    <3>1. Max(s) \in D /\ f[s \ {Max(s)}] \in V /\ first[s] = Max(s)
      BY <2>2, <2>5 DEF Picks
    <3>2. f[s] = step[<<Max(s), f[s \ {Max(s)}]>>]
      BY <2>4, <2>5, <3>1 DEF IsFold
    <3>3. QED
      BY <3>1, <3>2
  <2>6. IsLoop(f)
    BY <2>4, <2>5 DEF IsFold
  <2>7. QED
    BY <2>6
<1>3. PICK f : f = (CHOOSE g : IsLoop(g))
  OBVIOUS
<1>4. IsLoop(f)
  BY <1>2, <1>3
<1>5. \A s \in SUBSET D : s # {} => [i \in D |-> i][Max(s)] = Max(s)
  BY ListingTyped
<1>6. \A s \in SUBSET D :
          f[s] = IF s = {} THEN NoneSeen
                 ELSE BadgeTurn(f[s \ {Max(s)}], Max(s), checks, tag, fmt, late)
  BY <1>4, <1>5
<1>7. Badge(checks, tag, fmt, late) = f[DOMAIN listing]
  <2> HIDE DEF IsLoop
  <2>1. QED
    BY <1>1, <1>3
<1>8. QED
  BY <1>6, <1>7 DEF BadgeLoop

LateOnes(s) == {i \in s : listing[i].status = "grace"}

\* What a badge has found when it has seen the checks s.
Looked(sum, s, fmt, late) ==
    /\ sum \in BadgeRecord
    /\ sum.status = Shown(Worst(StatusesOf(s)), late)
    /\ fmt # "svg" => /\ sum.total = Cardinality(s)
                      /\ sum.grace = Cardinality(LateOnes(s))
                      /\ sum.down = Cardinality(AreDown(s))

LEMMA BadgeIsWorst ==
    ASSUME SummariesInv, NEW checks \in SUBSET DOMAIN listing, NEW tag, NEW fmt,
           NEW late \in BOOLEAN
    PROVE  Looked(Badge(checks, tag, fmt, late), WithTag(checks, tag), fmt, late)
<1>0. PICK f : BadgeLoop(f, checks, tag, fmt, late)
  BY BadgeFold
<1>1. /\ Badge(checks, tag, fmt, late) = f[DOMAIN listing]
      /\ \A s \in SUBSET DOMAIN listing :
            f[s] = IF s = {} THEN NoneSeen
                   ELSE BadgeTurn(f[s \ {Max(s)}], Max(s), checks, tag, fmt, late)
  BY <1>0 DEF BadgeLoop
<1> DEFINE D == DOMAIN listing
           T == WithTag(checks, tag)
           first == [s \in SUBSET D |-> Max(s)]
<1>2. T \subseteq D /\ IsFiniteSet(D)
  BY ListingTyped DEF WithTag
<1> DEFINE P == {s \in SUBSET D : Looked(f[s], s \intersect T, fmt, late)}
<1>3. {} \in P
  <2>1. {} \intersect T = {} /\ f[{}] = NoneSeen
    BY <1>1
  <2>2. Worst(StatusesOf({})) = "up"
    BY DEF Worst, StatusesOf
  <2>3. Cardinality({}) = 0 /\ LateOnes({}) = {} /\ AreDown({}) = {}
    BY FS_EmptySet DEF LateOnes, AreDown
  <2>4. Looked(NoneSeen, {}, fmt, late)
    BY <2>2, <2>3 DEF Looked, NoneSeen, BadgeRecord, Shown
  <2>5. QED
    BY <2>1, <2>4
<1>4. ASSUME NEW s \in SUBSET D, s # {}, s \ {first[s]} \in P
      PROVE  s \in P
  <2>1. PICK x : x = Max(s)
    OBVIOUS
  <2>2. x \in s /\ x \in D /\ first[s] = x
    BY <1>4, <2>1, ListingTyped
  <2>3. PICK old : old = f[s \ {x}]
    OBVIOUS
  <2>4. f[s] = BadgeTurn(old, x, checks, tag, fmt, late)
    BY <1>1, <1>4, <2>1, <2>3
  <2>5. PICK u : u = (s \ {x}) \intersect T
    OBVIOUS
  <2>6. Looked(old, u, fmt, late)
    BY <1>4, <2>2, <2>3, <2>5
  <2>7. CASE x \notin T
    <3>1. s \intersect T = u
      BY <2>5, <2>7
    <3>2. f[s] = old
      BY <2>4, <2>7 DEF BadgeTurn
    <3>3. QED
      BY <2>6, <3>1, <3>2
  <2>8. CASE x \in T
    <3>1. s \intersect T = u \union {x} /\ x \notin u /\ u \subseteq D
      BY <2>2, <2>5, <2>8
    <3>2. listing[x] \in ListedCheck /\ listing[x].status \in Found
      BY <2>2, ListingTyped DEF SummariesInv
    <3>3. StatusesOf(u \union {x}) = StatusesOf(u) \union {listing[x].status}
      BY DEF StatusesOf
    <3>4. /\ Worst(StatusesOf(u)) \in {"up", "grace", "down"}
          /\ Worst(StatusesOf(u \union {x})) =
               IF listing[x].status = "down"
                    \/ (listing[x].status = "grace" /\ Worst(StatusesOf(u)) = "up")
               THEN listing[x].status ELSE Worst(StatusesOf(u))
      BY <3>2, <3>3, WorstOfMore
    <3>5. /\ old \in BadgeRecord /\ old.status = Shown(Worst(StatusesOf(u)), late)
      BY <2>6 DEF Looked
    <3>6. CASE fmt = "svg" /\ old.status = "down"
      <4>1. f[s] = old
        BY <2>4, <3>6 DEF BadgeTurn
      <4>2. Worst(StatusesOf(u)) = "down"
        BY <3>4, <3>5, <3>6 DEF Shown
      <4>3. Worst(StatusesOf(u \union {x})) = "down"
        BY <3>4, <4>2
      <4>4. Looked(f[s], u \union {x}, fmt, late)
        BY <3>5, <3>6, <4>1, <4>2, <4>3 DEF Looked
      <4>5. QED
        BY <3>1, <4>4
    <3>7. CASE ~(fmt = "svg" /\ old.status = "down")
      <4>1. f[s] = BadgeStep(old, listing[x], late)
        BY <2>4, <2>8, <3>7 DEF BadgeTurn
      <4>2. f[s] \in BadgeRecord
        BY <3>2, <3>5, <4>1, BadgeStepIs
      <4>3. f[s].status = Shown(Worst(StatusesOf(u \union {x})), late)
        <5>1. f[s].status = IF listing[x].status = "down" THEN "down"
                            ELSE IF listing[x].status = "grace" /\ old.status = "up" /\ late
                                 THEN "late" ELSE old.status
          BY <3>2, <3>5, <4>1, BadgeStepIs
        <5>2. QED
          BY <3>4, <3>5, <5>1 DEF Shown
      <4>4. ASSUME fmt # "svg"
            PROVE  /\ f[s].total = Cardinality(u \union {x})
                   /\ f[s].grace = Cardinality(LateOnes(u \union {x}))
                   /\ f[s].down = Cardinality(AreDown(u \union {x}))
        <5>1. /\ f[s].total = old.total + 1
              /\ f[s].grace = old.grace + (IF listing[x].status = "grace" THEN 1 ELSE 0)
              /\ f[s].down = old.down + (IF listing[x].status = "down" THEN 1 ELSE 0)
          BY <3>2, <3>5, <4>1, BadgeStepIs
        <5>2. /\ old.total = Cardinality(u) /\ old.grace = Cardinality(LateOnes(u))
              /\ old.down = Cardinality(AreDown(u))
          BY <2>6, <4>4 DEF Looked
        <5>3. IsFiniteSet(u) /\ IsFiniteSet(LateOnes(u)) /\ IsFiniteSet(AreDown(u))
          <6>1. IsFiniteSet(u)
            BY <1>2, <3>1, FS_Subset
          <6>2. LateOnes(u) \subseteq u /\ AreDown(u) \subseteq u
            BY DEF LateOnes, AreDown
          <6>3. QED
            BY <6>1, <6>2, FS_Subset
        <5>4. x \notin LateOnes(u) /\ x \notin AreDown(u)
          BY <3>1 DEF LateOnes, AreDown
        <5>5. LateOnes(u \union {x}) =
                IF listing[x].status = "grace" THEN LateOnes(u) \union {x} ELSE LateOnes(u)
          BY DEF LateOnes
        <5>6. AreDown(u \union {x}) =
                IF listing[x].status = "down" THEN AreDown(u) \union {x} ELSE AreDown(u)
          BY DEF AreDown
        <5>7. /\ Cardinality(u \union {x}) = Cardinality(u) + 1
              /\ Cardinality(LateOnes(u) \union {x}) = Cardinality(LateOnes(u)) + 1
              /\ Cardinality(AreDown(u) \union {x}) = Cardinality(AreDown(u)) + 1
          BY <3>1, <5>3, <5>4, FS_AddElement
        <5>8. /\ Cardinality(LateOnes(u)) \in Nat /\ Cardinality(AreDown(u)) \in Nat
          BY <5>3, FS_CardinalityType
        <5>9. QED
          BY <5>1, <5>2, <5>5, <5>6, <5>7, <5>8
      <4>5. Looked(f[s], u \union {x}, fmt, late)
        BY <4>2, <4>3, <4>4 DEF Looked
      <4>6. QED
        BY <3>1, <4>5
    <3>8. QED
      BY <3>6, <3>7
  <2>9. QED
    BY <2>7, <2>8
<1>5. D \in P
  <2>1. IsFiniteSet(D) /\ Picks(first, D)
    BY ListingTyped DEF Picks
  <2> HIDE DEF P, D, first
  <2>2. QED
    BY <1>3, <1>4, <2>1, FoldInduction
<1>6. D \intersect T = T
  BY <1>2
<1>7. Looked(f[D], T, fmt, late)
  BY <1>5, <1>6
<1>8. QED
  BY <1>1, <1>7

\* What is said of a set of checks by looking at all of them.
LEMMA WorstIsThere ==
    ASSUME SummariesInv, NEW checks \in SUBSET DOMAIN listing
    PROVE  /\ Worst(StatusesOf(checks)) = "down" <=> AreDown(checks) # {}
           /\ Worst(StatusesOf(checks)) = "down" <=> Cardinality(AreDown(checks)) > 0
           /\ Cardinality(AreDown(checks)) \in Nat
<1>1. Worst(StatusesOf(checks)) = "down" <=> AreDown(checks) # {}
  BY DEF Worst, StatusesOf, AreDown
<1>2. IsFiniteSet(AreDown(checks))
  <2>1. AreDown(checks) \subseteq DOMAIN listing
    BY DEF AreDown
  <2>2. QED
    BY <2>1, ListingTyped, FS_Subset
<1>3. Cardinality(AreDown(checks)) \in Nat
      /\ (Cardinality(AreDown(checks)) = 0 <=> AreDown(checks) = {})
  BY <1>2, FS_CardinalityType, FS_EmptySet
<1>4. QED
  BY <1>1, <1>3

\* What SummariesAgree says of a tag in a project.
AgreeOn(p, tag, checks, tagged, worst, down) ==
    /\ TagCount(checks, tag).status = worst
    /\ tag = "*" => /\ ProjectSummary(p).status = worst
                    /\ worst = "down" => AnyDown
                    /\ Metrics(checks).checks_down_total = down
    /\ tagged # {} => (tag \in Metrics(checks).tag_up <=> worst # "down")
    /\ \A late \in BOOLEAN :
         /\ \A fmt \in {"svg", "json", "shields"} :
               Badge(checks, tag, fmt, late).status = Shown(worst, late)
         /\ Badge(checks, tag, "json", late).down = down
         /\ \A i \in tagged : tagged = {i} =>
               Badge(checks, tag, "json", late) = check_badge(listing[i], late)

\* For any number of checks, in any order, with any tags: badges, the lists of
\* checks and of projects and the metrics say the worst there is, and count alike.
THEOREM SummariesDoAgree == SummariesSpec => []SummariesAgree
<1>1. SummariesInv => SummariesAgree
  <2> SUFFICES ASSUME SummariesInv PROVE SummariesAgree
    OBVIOUS
  <2>1. ASSUME NEW k \in DOMAIN listing, NEW p, p = ListedIn[k], NEW tag,
               NEW checks, checks = Listing(p), NEW tagged, tagged = WithTag(checks, tag),
               NEW worst, worst = Worst({listing[i].status : i \in tagged}),
               NEW down, down = Cardinality(AreDown(tagged))
        PROVE  AgreeOn(p, tag, checks, tagged, worst, down)
    <3>1. worst = Worst(StatusesOf(tagged))
      BY <2>1 DEF StatusesOf
    <3>2. checks \in SUBSET DOMAIN listing /\ tagged \in SUBSET checks
          /\ tagged \in SUBSET DOMAIN listing
      BY <2>1 DEF Listing, WithTag
    <3>3. /\ worst = "down" <=> AreDown(tagged) # {}
          /\ worst = "down" <=> down > 0
      BY <2>1, <3>1, <3>2, WorstIsThere
    <3>4. TagCount(checks, tag).status = worst
      <4>1. TagCount(checks, tag).status =
              IF down > 0 THEN "down"
              ELSE IF tag \in AllTags({j \in checks : listing[j].status = "grace"})
                   THEN "grace" ELSE "up"
        BY <2>1 DEF TagCount
      <4>2. tag \in AllTags({j \in checks : listing[j].status = "grace"})
              <=> \E i \in tagged : listing[i].status = "grace"
        BY <2>1 DEF WithTag, AllTags
      <4>3. CASE worst = "down"
        BY <3>3, <4>1, <4>3
      <4>4. CASE worst # "down"
        <5>1. ~(down > 0) /\ worst = IF \E i \in tagged : listing[i].status = "grace"
                                     THEN "grace" ELSE "up"
          BY <2>1, <3>3, <4>4 DEF Worst
        <5>2. QED
          BY <4>1, <4>2, <5>1
      <4>5. QED
        BY <4>3, <4>4
    <3>5. ASSUME tag = "*"
          PROVE  /\ ProjectSummary(p).status = worst
                 /\ worst = "down" => AnyDown
                 /\ Metrics(checks).checks_down_total = down
      <4>1. tagged = checks
        BY <2>1, <3>5 DEF WithTag, TagsOf
      <4>2. ProjectSummary(p).status = worst
        BY <2>1, <3>1, <4>1, SummaryIsWorst
      <4>3. worst = "down" => AnyDown
        BY <2>1, <4>2 DEF AnyDown
      <4>4. Metrics(checks).checks_down_total = down
        BY <2>1, <4>1 DEF Metrics, AreDown
      <4>5. QED
        BY <4>2, <4>3, <4>4
    <3>6. ASSUME tagged # {}
          PROVE  tag \in Metrics(checks).tag_up <=> worst # "down"
      <4>1. tag \in AllTags(checks)
        BY <2>1, <3>6 DEF WithTag, AllTags
      <4>2. Metrics(checks).tag_up = AllTags(checks) \ AllTags(AreDown(checks))
        BY DEF Metrics, AreDown
      <4>3. tag \in AllTags(AreDown(checks)) <=> AreDown(tagged) # {}
        BY <2>1 DEF WithTag, AreDown, AllTags
      <4>4. QED
        BY <3>3, <4>1, <4>2, <4>3
    <3>7. ASSUME NEW late \in BOOLEAN
          PROVE  /\ \A fmt \in {"svg", "json", "shields"} :
                       Badge(checks, tag, fmt, late).status = Shown(worst, late)
                 /\ Badge(checks, tag, "json", late).down = down
                 /\ \A i \in tagged : tagged = {i} =>
                       Badge(checks, tag, "json", late) = check_badge(listing[i], late)
      <4>1. \A fmt : Looked(Badge(checks, tag, fmt, late), tagged, fmt, late)
        BY <2>1, <3>2, BadgeIsWorst
      <4>2. \A fmt : Badge(checks, tag, fmt, late).status = Shown(worst, late)
        BY <3>1, <4>1 DEF Looked
      <4>3. PICK sum : sum = Badge(checks, tag, "json", late)
        OBVIOUS
      <4>4. /\ sum \in BadgeRecord /\ sum.status = Shown(worst, late)
            /\ sum.total = Cardinality(tagged)
            /\ sum.grace = Cardinality(LateOnes(tagged))
            /\ sum.down = Cardinality(AreDown(tagged))
        BY <3>1, <4>1, <4>3 DEF Looked
      <4>5. ASSUME NEW i \in tagged, tagged = {i}
            PROVE  sum = check_badge(listing[i], late)
        <5>1. LateOnes(tagged) = IF listing[i].status = "grace" THEN {i} ELSE {}
          BY <4>5 DEF LateOnes
        <5>2. AreDown(tagged) = IF listing[i].status = "down" THEN {i} ELSE {}
          BY <4>5 DEF AreDown
        <5>3. Cardinality({i}) = 1 /\ Cardinality({}) = 0
          BY FS_Singleton, FS_EmptySet
        <5>4. /\ sum.total = 1
              /\ sum.grace = IF listing[i].status = "grace" THEN 1 ELSE 0
              /\ sum.down = IF listing[i].status = "down" THEN 1 ELSE 0
          BY <4>4, <4>5, <5>1, <5>2, <5>3
        <5>5. worst = Worst({listing[i].status})
          BY <2>1, <4>5
        <5>6. listing[i].status \in Found
          BY <3>2, ListingTyped
        <5>7. Shown(worst, late) = check_badge(listing[i], late).status
          <6>1. CASE listing[i].status = "down"
            BY <5>5, <6>1 DEF check_badge, Shown, Worst
          <6>2. CASE listing[i].status = "grace"
            BY <5>5, <6>2 DEF check_badge, Shown, Worst
          <6>3. CASE listing[i].status \notin {"down", "grace"}
            BY <5>5, <6>3 DEF check_badge, Shown, Worst
          <6>4. QED
            BY <6>1, <6>2, <6>3
        <5>8. sum = [status |-> sum.status, total |-> sum.total, grace |-> sum.grace,
                     down |-> sum.down]
          BY <4>4 DEF BadgeRecord
        <5>9. sum.status = check_badge(listing[i], late).status
          BY <4>4, <5>7
        <5>10. QED
          BY <5>4, <5>8, <5>9 DEF check_badge
      <4>6. QED
        BY <2>1, <4>2, <4>3, <4>4, <4>5
    <3>8. QED
      BY <3>4, <3>5, <3>6, <3>7 DEF AgreeOn
  <2>2. ASSUME NEW p \in {ListedIn[i] : i \in DOMAIN listing}, NEW tag \in Tags \union {"*"}
        PROVE  AgreeOn(p, tag, Listing(p), WithTag(Listing(p), tag),
                       Worst({listing[i].status : i \in WithTag(Listing(p), tag)}),
                       Cardinality(AreDown(WithTag(Listing(p), tag))))
    <3>1. PICK k \in DOMAIN listing : p = ListedIn[k]
      OBVIOUS
    <3>2. QED
      BY <2>1, <3>1
  <2>3. ASSUME NEW p \in {ListedIn[i] : i \in DOMAIN listing}, NEW tag \in Tags \union {"*"}
        PROVE  SaidAlike(p, tag)
    BY <2>2 DEF SaidAlike, AgreeOn
  <2>4. QED
    BY <2>3 DEF SummariesAgree
<1>2. QED
  BY <1>1, SummariesTyped, PTL

-----------------------------------------------------------------------------

(***************************************************************************)
(* Downtimes: what the flips there are say of the past.                    *)
(***************************************************************************)

FlipRow == [at : Nat \ {0}, old : Conditions, new : Conditions]

Flips == changes \union (IF unwritten = NoFlip THEN {} ELSE {unwritten})

ClockInv ==
    /\ time \in Nat /\ time % 2 = 1
    /\ months \in Seq(Nat) /\ Len(months) > 0
    /\ \A k \in DOMAIN months : months[k] % 2 = 0 /\ months[k] < time
    /\ \A k \in 1 .. Len(months) - 1 :
          months[k] < months[k + 1] /\ months[k + 1] <= months[k] + LongMonth
    /\ time - months[Len(months)] < LongMonth

FlipsTyped ==
    /\ condition \in Conditions
    /\ changes \in SUBSET FlipRow
    /\ unwritten = NoFlip \/ unwritten \in FlipRow
    /\ changed \in Nat /\ changed <= time
    /\ blurred \in Int /\ blurred <= time
    /\ wasDown \in SUBSET (0 .. time - 1)
    /\ \A f \in Flips : f.at % 2 = 1 /\ f.at <= changed /\ f.old # f.new

\* Whether the check is down from n on, and n is one of those moments of which the
\* flips tell: those since 93 days, and since the first flip there is.
DownAt == wasDown \union {n \in {time} : condition = "down"}
Told(n) == n > blurred /\ (n >= time - PruneAge \/ \E g \in Flips : g.at <= n)

Reported(n) ==
    /\ \A f \in Flips : f.at = n => /\ f.old = "down" <=> n - 1 \in DownAt
                                    /\ f.new = "down" <=> n \in DownAt
    /\ (\A f \in Flips : f.at # n) => (n - 1 \in DownAt <=> n \in DownAt)

\* The status is what it was unless there is a flip, and the flip says how it
\* changed; there is none since the last change.
FlipsTell ==
    /\ \A n \in 1 .. time : Told(n) => Reported(n)
    /\ \A n \in changed .. time : n \in DownAt <=> condition = "down"
    /\ changed = time /\ blurred < time => \E f \in Flips : f.at = time

HistoryInv == ClockInv /\ FlipsTyped /\ FlipsTell

LEMMA HistoryStarts == DowntimesInit => HistoryInv
<1> SUFFICES ASSUME DowntimesInit PROVE HistoryInv
  OBVIOUS
<1> USE DEF DowntimesInit
<1>1. ClockInv
  BY DowntimesAssumption DEF ClockInv
<1>2. Flips = {}
  BY DEF Flips
<1>3. FlipsTyped
  BY <1>2 DEF FlipsTyped, Conditions
<1>4. DownAt = {}
  BY DEF DownAt
<1>5. FlipsTell
  BY <1>2, <1>4 DEF FlipsTell, Reported
<1>6. QED
  BY <1>1, <1>3, <1>5 DEF HistoryInv

LEMMA FlipFields ==
    ASSUME HistoryInv
    PROVE  /\ Flips \in SUBSET FlipRow
           /\ \A f \in Flips : /\ f.at \in Nat \ {0} /\ f.at % 2 = 1 /\ f.at <= changed
                               /\ f.at <= time /\ f.old # f.new
           /\ PruneAge \in Nat /\ time \in Nat \ {0} /\ blurred \in Int
           /\ NoFlip \notin FlipRow
<1>1. Flips \in SUBSET FlipRow
  BY DEF HistoryInv, FlipsTyped, Flips
<1>2. \A f \in FlipRow : f.at \in Nat \ {0}
  BY DEF FlipRow
<1>3. \A f \in Flips : f.at % 2 = 1 /\ f.at <= changed /\ f.old # f.new
  BY DEF HistoryInv, FlipsTyped
<1>4. changed \in Nat /\ time \in Nat /\ changed <= time /\ blurred \in Int /\ time # 0
  BY DEF HistoryInv, FlipsTyped, ClockInv
<1>5. PruneAge \in Nat
  BY DowntimesAssumption DEF PruneAge
<1>6. NoFlip \notin FlipRow
  BY <1>2 DEF NoFlip
<1>7. QED
  BY <1>1, <1>2, <1>3, <1>4, <1>5, <1>6

\* What is reported of a moment depends on what there is of it.
LEMMA ReportStays ==
    ASSUME NEW n, Reported(n), n \in DownAt' <=> n \in DownAt,
           n - 1 \in DownAt' <=> n - 1 \in DownAt,
           \A f \in Flips' : f.at = n => f \in Flips,
           \A f \in Flips : f.at = n => \E g \in Flips' : g.at = n
    PROVE  Reported(n)'
<1>1. \A f \in Flips' : f.at = n => /\ f.old = "down" <=> n - 1 \in DownAt'
                                    /\ f.new = "down" <=> n \in DownAt'
  BY DEF Reported
<1>2. (\A f \in Flips' : f.at # n) => (n - 1 \in DownAt' <=> n \in DownAt')
  BY DEF Reported
<1>3. QED
  BY <1>1, <1>2 DEF Reported

\* A change of the status, with its flip, at the present moment.
LEMMA ChangeTells ==
    ASSUME HistoryInv, NEW new \in Conditions, ChangeStatus(new)
    PROVE  HistoryInv'
<1> DEFINE row == [at |-> time, old |-> condition, new |-> new]
<1>1. /\ new # condition /\ changed < time /\ changed' = time
      /\ changes' = changes \union {row} /\ condition' = new
      /\ UNCHANGED <<time, months, unwritten, wasDown, blurred>>
  BY DEF ChangeStatus
<1>2. row \in FlipRow /\ row.at = time /\ row.old = condition /\ row.new = new
  BY FlipFields DEF FlipRow, HistoryInv, FlipsTyped
<1> HIDE DEF row
<1>3. Flips' = Flips \union {row}
  BY <1>1 DEF Flips
<1>4. ClockInv'
  BY <1>1 DEF HistoryInv, ClockInv
<1>5. FlipsTyped'
  <2>1. time % 2 = 1 /\ time \in Nat
    BY DEF HistoryInv, ClockInv
  <2>2. \A f \in Flips' : f.at % 2 = 1 /\ f.at <= changed' /\ f.old # f.new
    BY <1>1, <1>2, <1>3, <2>1, FlipFields
  <2>3. QED
    BY <1>1, <1>2, <2>1, <2>2 DEF HistoryInv, FlipsTyped
<1>6. /\ \A n \in Int : n < time => (n \in DownAt' <=> n \in DownAt)
      /\ time \in DownAt' <=> new = "down"
  <2>1. time \notin wasDown /\ time \in Nat
    BY FlipFields DEF HistoryInv, FlipsTyped
  <2>2. \A n : n \in DownAt' <=> n \in wasDown \/ (n = time /\ new = "down")
    BY <1>1 DEF DownAt
  <2>3. \A n : n \in DownAt <=> n \in wasDown \/ (n = time /\ condition = "down")
    BY DEF DownAt
  <2>4. QED
    BY <2>1, <2>2, <2>3
<1>7. FlipsTell'
  <2>1. \A n \in 1 .. time : n # time /\ Told(n)' => Told(n)
    BY <1>1, <1>2, <1>3, FlipFields DEF Told, PruneAge
  <2>2. time - 1 \in DownAt <=> condition = "down"
    BY <1>1, FlipFields DEF HistoryInv, FlipsTell, FlipsTyped
  <2>3. ASSUME NEW n \in 1 .. time, Told(n)'
        PROVE  Reported(n)'
    <3>1. CASE n = time
      <4>1. \A f \in Flips' : f.at = n => f = row
        BY <1>1, <1>3, <3>1, FlipFields DEF HistoryInv, FlipsTyped
      <4>2. n - 1 \in DownAt' <=> n - 1 \in DownAt
        BY <1>6, <3>1, FlipFields
      <4>3. QED
        BY <1>2, <1>3, <1>6, <2>2, <3>1, <4>1, <4>2 DEF Reported
    <3>2. CASE n # time
      <4>1. Told(n) /\ n \in Int /\ n - 1 \in Int /\ n < time /\ n - 1 < time
        BY <2>1, <2>3, <3>2, FlipFields
      <4>2. (n - 1 \in DownAt' <=> n - 1 \in DownAt) /\ (n \in DownAt' <=> n \in DownAt)
        BY <1>6, <4>1
      <4>3. \A f \in Flips' : f.at = n => f \in Flips
        BY <1>2, <1>3, <3>2
      <4>4. Reported(n)
        BY <4>1 DEF HistoryInv, FlipsTell
      <4>5. QED
        BY <1>3, <4>2, <4>3, <4>4, ReportStays
    <3>3. QED
      BY <3>1, <3>2
  <2>4. \A n \in changed' .. time : n \in DownAt' <=> condition' = "down"
    BY <1>1, <1>6, FlipFields
  <2>5. QED
    BY <1>1, <1>2, <1>3, <2>3, <2>4 DEF FlipsTell
<1>8. QED
  BY <1>4, <1>5, <1>7 DEF HistoryInv

\* The flip of a timeout, with a time in the past.
LEMMA GoDownTells ==
    ASSUME HistoryInv, NEW t \in 1 .. time, t % 2 = 1, GoDown(t)
    PROVE  HistoryInv'
<1> DEFINE row == [at |-> t, old |-> "up", new |-> "down"]
<1>1. /\ condition = "up" /\ unwritten = NoFlip /\ t > changed /\ changed' = t
      /\ condition' = "down" /\ unwritten' = row
      /\ wasDown' = wasDown \union (t .. time - 1)
      /\ UNCHANGED <<time, months, changes, blurred>>
  BY DEF GoDown
<1>2. row \in FlipRow /\ row.at = t /\ row.old = "up" /\ row.new = "down"
  BY FlipFields DEF FlipRow, Conditions
<1> HIDE DEF row
<1>3. Flips' = Flips \union {row} /\ t \in Nat \ {0}
  BY <1>1, <1>2, FlipFields DEF Flips
<1>4. ClockInv'
  BY <1>1 DEF HistoryInv, ClockInv
<1>5. FlipsTyped'
  <2>1. \A f \in Flips' : f.at % 2 = 1 /\ f.at <= changed' /\ f.old # f.new
    BY <1>1, <1>2, <1>3, FlipFields DEF HistoryInv, FlipsTyped
  <2>2. t .. time - 1 \subseteq 0 .. time - 1
    BY <1>3, FlipFields
  <2>3. wasDown' \in SUBSET (0 .. time - 1)
    BY <1>1, <2>2 DEF HistoryInv, FlipsTyped
  <2>4. condition' \in Conditions /\ unwritten' \in FlipRow /\ changes' \in SUBSET FlipRow
    BY <1>1, <1>2 DEF HistoryInv, FlipsTyped, Conditions
  <2>5. changed' \in Nat /\ changed' <= time /\ blurred' \in Int /\ blurred' <= time
    BY <1>1, <1>3 DEF HistoryInv, FlipsTyped
  <2>6. QED
    BY <1>1, <2>1, <2>3, <2>4, <2>5 DEF FlipsTyped
<1>6. /\ \A n \in 0 .. time : n < t => (n \in DownAt' <=> n \in DownAt)
      /\ \A n \in t .. time : n \in DownAt' /\ n \notin DownAt
  <2>1. \A n \in t .. time : n \in changed .. time
    BY <1>1, <1>3, FlipFields DEF HistoryInv, FlipsTyped
  <2>2. QED
    BY <1>1, <1>3, <2>1, FlipFields DEF DownAt, HistoryInv, FlipsTell
<1>7. FlipsTell'
  <2>1. \A n \in 1 .. time : n < t /\ Told(n)' => Told(n)
    BY <1>1, <1>2, <1>3, FlipFields DEF Told, PruneAge
  <2>2. t - 1 \notin DownAt
    BY <1>1, <1>3, FlipFields DEF HistoryInv, FlipsTell, FlipsTyped
  <2>3. ASSUME NEW n \in 1 .. time, Told(n)'
        PROVE  Reported(n)'
    <3>1. CASE n = t
      <4>1. \A f \in Flips' : f.at = n => f = row
        BY <1>1, <1>3, <3>1, FlipFields DEF HistoryInv, FlipsTyped
      <4>2. n - 1 \notin DownAt' /\ n \in DownAt'
        BY <1>3, <1>6, <2>2, <3>1, FlipFields
      <4>3. QED
        BY <1>2, <1>3, <3>1, <4>1, <4>2 DEF Reported
    <3>2. CASE n < t
      <4>1. Told(n) /\ n \in 0 .. time /\ n - 1 \in 0 .. time /\ n - 1 < t
        BY <1>3, <2>1, <2>3, <3>2, FlipFields
      <4>2. (n - 1 \in DownAt' <=> n - 1 \in DownAt) /\ (n \in DownAt' <=> n \in DownAt)
        BY <1>6, <3>2, <4>1
      <4>3. \A f \in Flips' : f.at = n => f \in Flips
        BY <1>2, <1>3, <3>2
      <4>4. Reported(n)
        BY <4>1 DEF HistoryInv, FlipsTell
      <4>5. QED
        BY <1>3, <4>2, <4>3, <4>4, ReportStays
    <3>3. CASE n > t
      <4>1. n \in t .. time /\ n - 1 \in t .. time
        BY <1>3, <3>3, FlipFields
      <4>2. n \in DownAt' /\ n - 1 \in DownAt'
        BY <1>6, <4>1
      <4>3. \A f \in Flips' : f.at # n
        BY <1>1, <1>2, <1>3, <3>3, FlipFields DEF HistoryInv, FlipsTyped
      <4>4. QED
        BY <4>2, <4>3 DEF Reported
    <3>4. QED
      BY <1>3, <3>1, <3>2, <3>3
  <2>4. \A n \in changed' .. time : n \in DownAt' <=> condition' = "down"
    BY <1>1, <1>6
  <2>5. changed' = time => \E f \in Flips' : f.at = time
    BY <1>1, <1>2, <1>3
  <2>6. QED
    BY <1>1, <2>3, <2>4, <2>5 DEF FlipsTell
<1>8. QED
  BY <1>4, <1>5, <1>7 DEF HistoryInv

\* Where nothing is told any more.
LEMMA BlurTells ==
    ASSUME HistoryInv, UNCHANGED <<time, months, wasDown>>, blurred' = time,
           changes' \in SUBSET changes, unwritten' \in {unwritten, NoFlip},
           \/ condition' = "paused" /\ changed' = time
           \/ UNCHANGED <<condition, changed>>
    PROVE  HistoryInv'
<1>1. Flips' \in SUBSET Flips
  BY DEF Flips
<1>2. ClockInv'
  BY DEF HistoryInv, ClockInv
<1>3. changed' \in Nat /\ changed <= changed' /\ changed' <= time
  BY FlipFields DEF HistoryInv, FlipsTyped
<1>4. FlipsTyped'
  <2>1. \A f \in Flips' : f.at % 2 = 1 /\ f.at <= changed' /\ f.old # f.new
    BY <1>1, <1>3, FlipFields DEF HistoryInv, FlipsTyped
  <2>2. QED
    BY <1>3, <2>1, FlipFields DEF HistoryInv, FlipsTyped, Conditions
<1>5. FlipsTell'
  <2>1. \A n \in 1 .. time : ~Told(n)'
    BY FlipFields DEF Told
  <2>2. \A n \in changed' .. time : n \in DownAt' <=> condition' = "down"
    BY <1>3, FlipFields DEF HistoryInv, FlipsTell, FlipsTyped, DownAt
  <2>3. QED
    BY <2>1, <2>2, FlipFields DEF FlipsTell
<1>6. QED
  BY <1>2, <1>4, <1>5 DEF HistoryInv

LEMMA PruneTells ==
    ASSUME HistoryInv, NEW oldest \in {0, time}, PruneFlips(oldest)
    PROVE  HistoryInv'
<1> DEFINE limit == Min({oldest, time - PruneAge})
           kept == {f \in changes : f.at >= limit}
<1>1. /\ changes' = kept
      /\ blurred' = IF \E f \in changes \ kept : unwritten # NoFlip /\ f.at > unwritten.at
                    THEN time ELSE blurred
      /\ UNCHANGED <<time, months, condition, unwritten, changed, wasDown>>
  BY DEF PruneFlips
<1>2. limit \in Int /\ limit <= time - PruneAge
  <2>1. oldest \in Int /\ time - PruneAge \in Int
    BY FlipFields
  <2>2. QED
    BY <2>1 DEF Min
<1>3. \A f \in changes : f \notin kept => f.at < limit
  BY <1>2, FlipFields DEF Flips
<1> HIDE DEF limit
<1>4. CASE \E f \in changes \ kept : unwritten # NoFlip /\ f.at > unwritten.at
  BY <1>1, <1>4, BlurTells
<1>5. CASE ~\E f \in changes \ kept : unwritten # NoFlip /\ f.at > unwritten.at
  <2>0. blurred' = blurred
    BY <1>1, <1>5
  <2> HIDE DEF kept
  <2>1. Flips' \in SUBSET Flips
    BY <1>1 DEF Flips, kept
  <2>2. \A f \in Flips : f \notin Flips' =>
            /\ f \in changes /\ f.at < limit
            /\ unwritten # NoFlip => f.at <= unwritten.at
    <3>1. SUFFICES ASSUME NEW f \in Flips, f \notin Flips'
                   PROVE  /\ f \in changes /\ f.at < limit
                          /\ unwritten # NoFlip => f.at <= unwritten.at
      OBVIOUS
    <3>2. f \in changes /\ f \notin kept
      BY <1>1, <3>1 DEF Flips
    <3>3. unwritten # NoFlip => unwritten \in Flips
      BY DEF Flips
    <3>4. QED
      BY <1>3, <1>5, <3>2, <3>3, FlipFields
  <2>3. ClockInv'
    BY <1>1 DEF HistoryInv, ClockInv
  <2>4. FlipsTyped'
    BY <1>1, <2>0, <2>1 DEF HistoryInv, FlipsTyped, kept
  <2>5. DownAt' = DownAt
    BY <1>1 DEF DownAt
  <2>6. ASSUME NEW n \in 1 .. time, Told(n)'
        PROVE  Told(n) /\ \A f \in Flips : f.at = n => \E g \in Flips' : g.at = n
    <3>1. Told(n)
      BY <1>1, <2>0, <2>1, <2>6 DEF Told, PruneAge
    <3>2. ASSUME NEW f \in Flips, f.at = n, f \notin Flips'
          PROVE  \E g \in Flips' : g.at = n
      <4>1. n < limit /\ (unwritten # NoFlip => n <= unwritten.at)
        BY <2>2, <3>2
      <4>2. PICK g \in Flips' : g.at <= n
        BY <1>1, <1>2, <2>6, <4>1, FlipFields DEF Told, PruneAge
      <4>3. g.at < limit
        BY <1>2, <2>1, <4>1, <4>2, FlipFields
      <4>4. g \notin changes'
        BY <1>1, <1>2, <2>1, <4>2, <4>3, FlipFields DEF kept
      <4>5. unwritten # NoFlip /\ g = unwritten
        BY <1>1, <4>4 DEF Flips
      <4>6. QED
        BY <2>1, <4>1, <4>2, <4>5, FlipFields
    <3>3. QED
      BY <3>1, <3>2
  <2>7. FlipsTell'
    <3>1. ASSUME NEW n \in 1 .. time, Told(n)'
          PROVE  Reported(n)'
      <4>1. Reported(n)
        BY <2>6, <3>1 DEF HistoryInv, FlipsTell
      <4>2. QED
        BY <2>1, <2>5, <2>6, <3>1, <4>1, ReportStays
    <3>2. \A n \in changed' .. time : n \in DownAt' <=> condition' = "down"
      BY <1>1, <2>5 DEF HistoryInv, FlipsTell
    <3>3. changed' = time /\ blurred' < time => \E f \in Flips' : f.at = time
      BY <1>1, <1>2, <2>0, <2>2, FlipFields DEF HistoryInv, FlipsTell
    <3>4. QED
      BY <1>1, <3>1, <3>2, <3>3 DEF FlipsTell
  <2>8. QED
    BY <2>3, <2>4, <2>7 DEF HistoryInv
<1>6. QED
  BY <1>4, <1>5

LEMMA InsertTells ==
    ASSUME HistoryInv, InsertFlip
    PROVE  HistoryInv'
<1>1. /\ unwritten # NoFlip /\ changes' = changes \union {unwritten} /\ unwritten' = NoFlip
      /\ UNCHANGED <<time, months, condition, changed, wasDown, blurred>>
  BY DEF InsertFlip
<1>2. Flips' = Flips
  BY <1>1 DEF Flips
<1>3. ClockInv'
  BY <1>1 DEF HistoryInv, ClockInv
<1>4. FlipsTyped'
  BY <1>1, <1>2 DEF HistoryInv, FlipsTyped
<1>5. DownAt' = DownAt /\ \A n : Told(n)' <=> Told(n)
  BY <1>1, <1>2 DEF DownAt, Told, PruneAge
<1>6. FlipsTell'
  BY <1>1, <1>2, <1>5 DEF HistoryInv, FlipsTell, Reported
<1>7. QED
  BY <1>3, <1>4, <1>6 DEF HistoryInv

LEMMA StutterTells == HistoryInv /\ UNCHANGED downtimeVars => HistoryInv'
<1> SUFFICES ASSUME HistoryInv, UNCHANGED downtimeVars PROVE HistoryInv'
  OBVIOUS
<1>1. UNCHANGED <<time, months, condition, changes, unwritten, changed, wasDown, blurred>>
  BY DEF downtimeVars
<1>2. Flips' = Flips
  BY <1>1 DEF Flips
<1>3. ClockInv' /\ FlipsTyped'
  BY <1>1, <1>2 DEF HistoryInv, ClockInv, FlipsTyped
<1>4. DownAt' = DownAt /\ \A n : Told(n)' <=> Told(n)
  BY <1>1, <1>2 DEF DownAt, Told, PruneAge
<1>5. FlipsTell'
  BY <1>1, <1>2, <1>4 DEF HistoryInv, FlipsTell, Reported
<1>6. QED
  BY <1>3, <1>5 DEF HistoryInv

\* Time passes, and perhaps a month begins.
LEMMA PassTells ==
    ASSUME HistoryInv, NEW begins \in BOOLEAN, Pass(begins)
    PROVE  HistoryInv'
<1> DEFINE age == time + 1 - Last(months)
<1>1. /\ IF begins THEN 2 * age >= LongMonth ELSE age < LongMonth
      /\ time' = time + 2
      /\ wasDown' = IF condition = "down" THEN wasDown \union {time, time + 1} ELSE wasDown
      /\ months' = IF begins THEN Append(months, time + 1) ELSE months
      /\ UNCHANGED <<condition, changes, unwritten, changed, blurred>>
  BY DEF Pass
<1>2. Flips' = Flips
  BY <1>1 DEF Flips
<1>3. ClockInv'
  <2>1. /\ time \in Nat /\ time % 2 = 1 /\ months \in Seq(Nat) /\ Len(months) \in Nat \ {0}
        /\ Len(months) \in DOMAIN months
    BY DEF HistoryInv, ClockInv
  <2>2. PICK last : last = months[Len(months)]
    OBVIOUS
  <2>3. Last(months) = last /\ last \in Nat /\ last % 2 = 0 /\ last < time
        /\ time - last < LongMonth
    BY <2>1, <2>2 DEF Last, HistoryInv, ClockInv
  <2>4. (time + 2) % 2 = 1 /\ (time + 1) % 2 = 0 /\ (time + 1 - last) % 2 = 0
    BY <2>1, <2>3
  <2>5. CASE ~begins
    <3>1. time + 1 - last < LongMonth
      BY <1>1, <2>3, <2>5
    <3>2. time + 2 - last # LongMonth
      BY <2>1, <2>3, <2>4, DowntimesAssumption
    <3>3. time + 2 - last < LongMonth
      BY <2>1, <2>3, <3>1, <3>2, DowntimesAssumption
    <3>4. months' = months
      BY <1>1, <2>5
    <3>5. /\ time' \in Nat /\ time' % 2 = 1
          /\ time' - months'[Len(months')] < LongMonth
      BY <1>1, <2>1, <2>2, <2>4, <3>3, <3>4
    <3>6. \A k \in DOMAIN months : months[k] % 2 = 0 /\ months[k] < time'
      <4>1. \A k \in DOMAIN months : months[k] \in Nat
        BY <2>1
      <4>2. \A k \in DOMAIN months : months[k] % 2 = 0 /\ months[k] < time
        BY DEF HistoryInv, ClockInv
      <4>3. time' = time + 2
        BY <1>1
      <4>4. QED
        BY <2>1, <4>1, <4>2, <4>3
    <3>7. QED
      BY <3>4, <3>5, <3>6 DEF HistoryInv, ClockInv
  <2>6. CASE begins
    <3>1. months' = Append(months, time + 1)
      BY <1>1, <2>6
    <3>2. /\ months' \in Seq(Nat) /\ Len(months') = Len(months) + 1
          /\ \A k \in DOMAIN months' :
                months'[k] = IF k = Len(months) + 1 THEN time + 1 ELSE months[k]
          /\ \A k \in DOMAIN months' : k # Len(months) + 1 => k \in DOMAIN months
      BY <2>1, <3>1
    <3>3. time + 1 - last <= LongMonth
      BY <2>1, <2>3, DowntimesAssumption
    <3>4. LongMonth > 1
      BY DowntimesAssumption
    <3>5. months'[Len(months')] = time + 1
      BY <2>1, <3>2
    <3>6. \A k \in DOMAIN months' : months'[k] % 2 = 0 /\ months'[k] < time'
      <4>1. \A k \in DOMAIN months :
                months[k] \in Nat /\ months[k] % 2 = 0 /\ months[k] < time
        <5>1. \A k \in DOMAIN months : months[k] \in Nat
          BY <2>1
        <5>2. QED
          BY <5>1 DEF HistoryInv, ClockInv
      <4>2. ASSUME NEW k \in DOMAIN months'
            PROVE  months'[k] % 2 = 0 /\ months'[k] < time'
        <5>1. CASE k = Len(months) + 1
          BY <1>1, <2>1, <2>4, <3>2, <5>1
        <5>2. CASE k # Len(months) + 1
          <6>1. months'[k] = months[k] /\ k \in DOMAIN months
            BY <3>2, <5>2
          <6>2. QED
            BY <1>1, <2>1, <4>1, <6>1
        <5>3. QED
          BY <5>1, <5>2
      <4>3. QED
        BY <4>2
    <3>7. ASSUME NEW k \in 1 .. Len(months') - 1
          PROVE  months'[k] < months'[k + 1] /\ months'[k + 1] <= months'[k] + LongMonth
      <4>1. k \in DOMAIN months /\ k \in DOMAIN months' /\ k + 1 \in DOMAIN months'
            /\ k \in Nat /\ k # Len(months) + 1
        BY <2>1, <3>2
      <4>2. months'[k] = months[k]
        BY <3>2, <4>1
      <4>3. CASE k = Len(months)
        <5>1. months'[k + 1] = time + 1 /\ months'[k] = last
          BY <2>2, <3>2, <4>1, <4>2, <4>3
        <5>2. QED
          BY <2>1, <2>3, <3>3, <5>1, DowntimesAssumption
      <4>4. CASE k # Len(months)
        <5>1. k \in 1 .. Len(months) - 1 /\ months'[k + 1] = months[k + 1]
          BY <2>1, <3>2, <4>1, <4>4
        <5>2. QED
          BY <4>2, <5>1 DEF HistoryInv, ClockInv
      <4>5. QED
        BY <4>3, <4>4
    <3>8. QED
      BY <1>1, <2>1, <2>4, <3>2, <3>4, <3>5, <3>6, <3>7, DowntimesAssumption DEF ClockInv
  <2>7. QED
    BY <2>5, <2>6
<1>4. FlipsTyped'
  <2>1. wasDown \in SUBSET (0 .. time - 1) /\ time \in Nat \ {0}
    BY FlipFields DEF HistoryInv, FlipsTyped
  <2>2. {time, time + 1} \subseteq 0 .. time + 1 /\ 0 .. time - 1 \subseteq 0 .. time + 1
    BY <2>1
  <2>3. wasDown' \in SUBSET (0 .. time' - 1)
    <3>1. time' - 1 = time + 1
      BY <1>1, <2>1
    <3>2. wasDown' \in SUBSET (0 .. time + 1)
      BY <1>1, <2>1, <2>2
    <3>3. QED
      BY <3>1, <3>2
  <2>4. changed' <= time' /\ blurred' <= time'
    BY <1>1, <2>1 DEF HistoryInv, FlipsTyped
  <2>5. QED
    BY <1>1, <1>2, <2>3, <2>4 DEF HistoryInv, FlipsTyped
<1>5. /\ \A n \in 0 .. time - 1 : n \in DownAt' <=> n \in DownAt
      /\ \A n \in time .. time + 2 : n \in DownAt' <=> condition = "down"
  <2>1. wasDown \in SUBSET (0 .. time - 1) /\ time \in Nat \ {0}
    BY FlipFields DEF HistoryInv, FlipsTyped
  <2>2. \A n : n \in DownAt <=> n \in wasDown \/ (n = time /\ condition = "down")
    BY DEF DownAt
  <2>3. \A n : n \in DownAt' <=>
            \/ n \in wasDown
            \/ n \in {time, time + 1, time + 2} /\ condition = "down"
    BY <1>1 DEF DownAt
  <2>4. \A n \in 0 .. time - 1 : n \notin {time, time + 1, time + 2} /\ n # time
    BY <2>1
  <2>5. \A n \in time .. time + 2 : n \in {time, time + 1, time + 2} /\ n \notin wasDown
    BY <2>1
  <2>6. \A n \in 0 .. time - 1 : n \in DownAt' <=> n \in DownAt
    BY <2>2, <2>3, <2>4
  <2>7. \A n \in time .. time + 2 : n \in DownAt' <=> condition = "down"
    BY <2>3, <2>5
  <2>8. QED
    BY <2>6, <2>7
<1>6. time \in DownAt <=> condition = "down"
  <2>1. time \notin wasDown
    BY FlipFields DEF HistoryInv, FlipsTyped
  <2>2. QED
    BY <2>1 DEF DownAt
<1>7. \A n \in 0 .. time : n \in DownAt' <=> n \in DownAt
  BY <1>5, <1>6, FlipFields
<1>8. FlipsTell'
  <2>1. ASSUME NEW n \in 1 .. time', Told(n)'
        PROVE  Reported(n)'
    <3>1. CASE n <= time
      <4>1. n \in 1 .. time /\ n \in 0 .. time /\ n - 1 \in 0 .. time
        BY <1>1, <3>1, FlipFields
      <4>2. Told(n)
        BY <1>1, <1>2, <2>1, <4>1, FlipFields DEF Told, PruneAge
      <4>3. (n - 1 \in DownAt' <=> n - 1 \in DownAt) /\ (n \in DownAt' <=> n \in DownAt)
        BY <1>7, <4>1
      <4>4. Reported(n)
        BY <4>1, <4>2 DEF HistoryInv, FlipsTell
      <4>5. QED
        BY <1>2, <4>3, <4>4, ReportStays
    <3>2. CASE n > time
      <4>1. n \in time .. time + 2 /\ n - 1 \in time .. time + 2
        BY <1>1, <3>2, FlipFields
      <4>2. \A f \in Flips' : f.at # n
        BY <1>2, <3>2, FlipFields
      <4>3. QED
        BY <1>5, <4>1, <4>2 DEF Reported
    <3>3. QED
      BY <1>1, <3>1, <3>2, FlipFields
  <2>2. \A n \in changed' .. time' : n \in DownAt' <=> condition' = "down"
    <3>1. ASSUME NEW n \in changed .. time + 2 PROVE n \in DownAt' <=> condition = "down"
      <4>1. changed \in Nat
        BY DEF HistoryInv, FlipsTyped
      <4>2. n \in changed .. time \/ n \in time .. time + 2
        BY <4>1, FlipFields
      <4>3. n \in changed .. time => n \in 0 .. time
        BY <4>1
      <4>4. QED
        BY <1>5, <1>7, <4>2, <4>3 DEF HistoryInv, FlipsTell
    <3>2. QED
      BY <1>1, <3>1
  <2>3. changed' # time'
    BY <1>1, FlipFields DEF HistoryInv, FlipsTyped
  <2>4. QED
    BY <2>1, <2>2, <2>3 DEF FlipsTell
<1>9. QED
  BY <1>3, <1>4, <1>8 DEF HistoryInv

LEMMA HistoryKept == DowntimesSpec => []HistoryInv
<1>1. HistoryInv /\ [DowntimesNext]_downtimeVars => HistoryInv'
  <2> SUFFICES ASSUME HistoryInv, [DowntimesNext]_downtimeVars PROVE HistoryInv'
    OBVIOUS
  <2>1. ASSUME NEW new \in Conditions, ChangeStatus(new) PROVE HistoryInv'
    BY <2>1, ChangeTells
  <2>2. ASSUME NEW t \in {n \in 1 .. time : n % 2 = 1}, GoDown(t) PROVE HistoryInv'
    BY <2>2, GoDownTells
  <2>3. CASE InsertFlip
    BY <2>3, InsertTells
  <2>4. CASE LoseFlip
    BY <2>4, BlurTells DEF LoseFlip
  <2>5. CASE ClearFlips
    BY <2>5, BlurTells DEF ClearFlips
  <2>6. ASSUME NEW oldest \in {0, time}, PruneFlips(oldest) PROVE HistoryInv'
    BY <2>6, PruneTells
  <2>7. ASSUME NEW begins \in BOOLEAN, Pass(begins) PROVE HistoryInv'
    BY <2>7, PassTells
  <2>8. CASE UNCHANGED downtimeVars
    BY <2>8, StutterTells
  <2>9. QED
    BY <2>1, <2>2, <2>3, <2>4, <2>5, <2>6, <2>7, <2>8 DEF DowntimesNext
<1>2. QED
  BY <1>1, HistoryStarts, PTL DEF DowntimesSpec

(***************************************************************************)
(* Downtimes: what is counted back from now.                               *)
(***************************************************************************)

\* Without a flip nothing changes.
LEMMA FlatBetween ==
    ASSUME HistoryInv, NEW a \in Nat, NEW b \in Nat, b <= time, a >= blurred,
           a >= time - PruneAge \/ \E g \in Flips : g.at <= a,
           \A f \in Flips : ~(a < f.at /\ f.at <= b)
    PROVE  \A n \in a .. b : n \in DownAt <=> b \in DownAt
<1> DEFINE Bad == {n \in a .. b : ~(n \in DownAt <=> b \in DownAt)}
<1>1. SUFFICES ASSUME Bad # {} PROVE FALSE
  OBVIOUS
<1>2. Bad \in SUBSET Nat /\ \A n \in Bad : n <= b
  OBVIOUS
<1>3. Max(Bad) \in Bad /\ \A n \in Bad : n <= Max(Bad)
  <2> HIDE DEF Bad
  <2>1. QED
    BY <1>1, <1>2, GreatestIs
<1>4. PICK m \in a .. b : /\ ~(m \in DownAt <=> b \in DownAt)
                         /\ \A n \in Bad : n <= m
  BY <1>3
<1>5. m \in Nat /\ m < b /\ m + 1 \in a .. b /\ m + 1 \in 1 .. time
  <2>1. m \in Nat /\ m <= b /\ m # b
    BY <1>4
  <2>2. QED
    BY <2>1, <1>4, FlipFields
<1>6. m + 1 \notin Bad
  <2> HIDE DEF Bad
  <2>1. QED
    BY <1>4, <1>5
<1>7. m + 1 \in DownAt <=> b \in DownAt
  BY <1>5, <1>6
<1>8. Told(m + 1)
  <2>1. m >= a /\ m \in Nat
    BY <1>4, <1>5
  <2>2. m + 1 > blurred
    BY <2>1, FlipFields
  <2>3. CASE a >= time - PruneAge
    BY <2>1, <2>2, <2>3, FlipFields DEF Told
  <2>4. CASE \E g \in Flips : g.at <= a
    BY <2>1, <2>2, <2>4, FlipFields DEF Told
  <2>5. QED
    BY <2>3, <2>4
<1>9. Reported(m + 1)
  BY <1>5, <1>8 DEF HistoryInv, FlipsTell
<1>10. \A f \in Flips : f.at # m + 1
  BY <1>4, <1>5
<1>11. (m + 1) - 1 \in DownAt <=> m + 1 \in DownAt
  BY <1>9, <1>10 DEF Reported
<1>12. (m + 1) - 1 = m
  BY <1>5
<1>13. QED
  BY <1>4, <1>7, <1>11, <1>12

Oldest == Last(Boundaries)

LEMMA BoundariesAre ==
    ASSUME HistoryInv
    PROVE  \E k \in 1 .. 3 :
              /\ DOMAIN Boundaries = 1 .. k /\ Len(Boundaries) = k
              /\ Oldest = Boundaries[k]
              /\ \A i \in 1 .. k : /\ Boundaries[i] \in Nat /\ Boundaries[i] % 2 = 0
                                   /\ Boundaries[i] < time /\ Boundaries[i] >= Oldest
              /\ \A i, j \in 1 .. k : i < j => Boundaries[j] < Boundaries[i]
              /\ Oldest >= time - PruneAge
<1>1. PICK size : size = Len(months)
  OBVIOUS
<1>2. size \in Nat \ {0} /\ DOMAIN months = 1 .. size /\ time \in Nat /\ LongMonth \in Nat
  BY <1>1, DowntimesAssumption DEF HistoryInv, ClockInv
<1>3. PICK k : k = Min({3, size})
  OBVIOUS
<1>4. k \in 1 .. 3 /\ k <= size
  <2>1. {3, size} \in SUBSET Nat
    BY <1>2
  <2>2. k \in {3, size} /\ \A y \in {3, size} : k <= y
    BY <1>3, <2>1, LeastIs
  <2>3. QED
    BY <1>2, <2>2
<1>5. Boundaries = [i \in 1 .. k |-> months[size + 1 - i]]
  BY <1>1, <1>3 DEF Boundaries
<1>6. DOMAIN Boundaries = 1 .. k /\ Len(Boundaries) = k
  BY <1>4, <1>5
<1>7. Oldest = Boundaries[k]
  BY <1>6 DEF Oldest, Last
<1>8. \A n \in 1 .. size : months[n] \in Nat /\ months[n] % 2 = 0 /\ months[n] < time
  <2>1. \A n \in 1 .. size : months[n] \in Nat
    BY <1>2 DEF HistoryInv, ClockInv
  <2>2. QED
    BY <1>2, <2>1 DEF HistoryInv, ClockInv
<1>9. \A n \in 1 .. size - 1 : months[n] < months[n + 1] /\ months[n + 1] <= months[n] + LongMonth
  BY <1>1 DEF HistoryInv, ClockInv
<1>10. time - months[size] < LongMonth
  BY <1>1 DEF HistoryInv, ClockInv
<1>11. \A i \in 1 .. k : /\ size + 1 - i \in 1 .. size
                         /\ Boundaries[i] = months[size + 1 - i]
  BY <1>2, <1>4, <1>5
<1>12. /\ Boundaries[1] = months[size]
       /\ k >= 2 => /\ Boundaries[2] = months[size - 1]
                    /\ months[size - 1] < months[size]
                    /\ months[size] <= months[size - 1] + LongMonth
       /\ k = 3 => /\ Boundaries[3] = months[size - 2]
                   /\ months[size - 2] < months[size - 1]
                   /\ months[size - 1] <= months[size - 2] + LongMonth
  <2>1. Boundaries[1] = months[size]
    <3>1. 1 \in 1 .. k /\ size + 1 - 1 = size
      BY <1>2, <1>4
    <3>2. QED
      BY <1>11, <3>1
  <2>2. ASSUME k >= 2
        PROVE  /\ Boundaries[2] = months[size - 1]
               /\ months[size - 1] < months[size]
               /\ months[size] <= months[size - 1] + LongMonth
    <3>1. 2 \in 1 .. k /\ size + 1 - 2 = size - 1 /\ size - 1 \in 1 .. size - 1
          /\ (size - 1) + 1 = size
      BY <1>2, <1>4, <2>2
    <3>2. Boundaries[2] = months[size + 1 - 2]
      BY <1>11, <3>1
    <3>3. QED
      BY <1>9, <3>1, <3>2
  <2>3. ASSUME k = 3
        PROVE  /\ Boundaries[3] = months[size - 2]
               /\ months[size - 2] < months[size - 1]
               /\ months[size - 1] <= months[size - 2] + LongMonth
    <3>1. 3 \in 1 .. k /\ size + 1 - 3 = size - 2 /\ size - 2 \in 1 .. size - 1
          /\ (size - 2) + 1 = size - 1
      BY <1>2, <1>4, <2>3
    <3>2. Boundaries[3] = months[size + 1 - 3]
      BY <1>11, <3>1
    <3>3. QED
      BY <1>9, <3>1, <3>2
  <2>4. QED
    BY <2>1, <2>2, <2>3
<1>13. \A i \in 1 .. k : Boundaries[i] \in Nat /\ Boundaries[i] % 2 = 0 /\ Boundaries[i] < time
  BY <1>8, <1>11
<1>14. PruneAge = 3 * LongMonth
  BY DEF PruneAge
<1>15. CASE k = 1
  BY <1>2, <1>6, <1>7, <1>10, <1>12, <1>13, <1>14, <1>15
<1>16. CASE k = 2
  BY <1>2, <1>6, <1>7, <1>10, <1>12, <1>13, <1>14, <1>16
<1>17. CASE k = 3
  BY <1>2, <1>6, <1>7, <1>10, <1>12, <1>13, <1>14, <1>17
<1>18. QED
  BY <1>4, <1>15, <1>16, <1>17

\* Moments that are counted in the record of boundary i.
InRecord(i, t) == Boundaries[i] <= t /\ (i > 1 => t < Boundaries[i - 1])

LEMMA RecordIs ==
    ASSUME HistoryInv, NEW t \in Nat, t >= Oldest
    PROVE  /\ RecordOf(t) \in DOMAIN Boundaries /\ InRecord(RecordOf(t), t)
           /\ \A i \in DOMAIN Boundaries : InRecord(i, t) => i = RecordOf(t)
<1>1. PICK k \in 1 .. 3 :
          /\ DOMAIN Boundaries = 1 .. k /\ Len(Boundaries) = k /\ Oldest = Boundaries[k]
          /\ \A i \in 1 .. k : Boundaries[i] \in Nat
          /\ \A i, j \in 1 .. k : i < j => Boundaries[j] < Boundaries[i]
  BY BoundariesAre
<1> DEFINE I == {i \in 1 .. k : t >= Boundaries[i]}
<1>2. k \in I /\ I \in SUBSET Nat
  BY <1>1
<1>3. RecordOf(t) = Min(I)
  BY <1>1, <1>2 DEF RecordOf, SelectInSeq
<1>4. Min(I) \in I /\ \A i \in I : Min(I) <= i
  <2> HIDE DEF I
  <2>1. QED
    BY <1>2, LeastIs
<1>5. PICK r \in 1 .. k : r = RecordOf(t) /\ t >= Boundaries[r] /\ \A i \in I : r <= i
  BY <1>3, <1>4
<1>6. InRecord(r, t)
  <2>1. SUFFICES ASSUME r > 1, ~(t < Boundaries[r - 1]) PROVE FALSE
    BY <1>1, <1>5 DEF InRecord
  <2>2. r - 1 \in 1 .. k /\ Boundaries[r - 1] \in Nat
    BY <1>1, <1>5, <2>1
  <2>3. r - 1 \in I
    BY <2>1, <2>2
  <2>4. r <= r - 1
    BY <1>5, <2>3
  <2>5. QED
    BY <1>5, <2>4
<1>7. ASSUME NEW i \in 1 .. k, InRecord(i, t) PROVE i = r
  <2>1. i \in I
    BY <1>1, <1>7 DEF InRecord
  <2>2. r <= i
    BY <1>5, <2>1
  <2>3. SUFFICES ASSUME r < i PROVE FALSE
    BY <2>2
  <2>4. i > 1 /\ i - 1 \in 1 .. k /\ r <= i - 1
    BY <1>5, <2>3
  <2>5. Boundaries[i - 1] <= Boundaries[r] /\ Boundaries[i - 1] \in Nat /\ Boundaries[r] \in Nat
    BY <1>1, <1>5, <2>4
  <2>6. t < Boundaries[i - 1]
    BY <1>7, <2>4 DEF InRecord
  <2>7. QED
    BY <1>5, <2>5, <2>6
<1>8. QED
  BY <1>1, <1>5, <1>6, <1>7

LEMMA EventsAre ==
    ASSUME HistoryInv, unwritten = NoFlip
    PROVE  /\ Flips = changes
           /\ Events \in SUBSET Nat /\ IsFiniteSet(Events)
           /\ \A t \in Events : t >= Oldest /\ t <= time
           /\ \A i \in DOMAIN Boundaries : Boundaries[i] \in Events
           /\ \A f \in changes : f.at >= Oldest => f.at \in Events
           /\ \A t \in Events : t \notin Range(Boundaries) => \E f \in changes : f.at = t
           /\ \A f \in changes : f.at \notin Range(Boundaries)
<1>1. PICK k \in 1 .. 3 :
          /\ DOMAIN Boundaries = 1 .. k /\ Oldest = Boundaries[k]
          /\ \A i \in 1 .. k : /\ Boundaries[i] \in Nat /\ Boundaries[i] % 2 = 0
                               /\ Boundaries[i] < time /\ Boundaries[i] >= Oldest
  BY BoundariesAre
<1>2. Flips = changes
  BY DEF Flips
<1>3. Oldest \in Nat /\ time \in Nat
  BY <1>1, FlipFields
<1>4. Events = {t \in Oldest .. time :
                   t \in Range(Boundaries) \/ \E f \in changes : f.at = t}
  BY DEF Events, Oldest
<1>5. Events \in SUBSET Nat /\ \A t \in Events : t >= Oldest /\ t <= time
  BY <1>3, <1>4
<1>6. IsFiniteSet(Events)
  BY <1>3, <1>5, FS_BoundedSetOfNaturals
<1>7. \A i \in DOMAIN Boundaries : Boundaries[i] \in Range(Boundaries)
  BY DEF Range
<1>8. \A i \in DOMAIN Boundaries : Boundaries[i] \in Events
  BY <1>1, <1>3, <1>4, <1>7
<1>9. \A f \in changes : f.at >= Oldest => f.at \in Events
  BY <1>2, <1>3, <1>4, FlipFields
<1>10. \A f \in changes : f.at \notin Range(Boundaries)
  <2>1. SUFFICES ASSUME NEW f \in changes, NEW i \in 1 .. k, f.at = Boundaries[i] PROVE FALSE
    BY <1>1 DEF Range
  <2>2. f.at % 2 = 1 /\ f.at % 2 = 0
    BY <1>1, <1>2, <2>1, FlipFields
  <2>3. QED
    BY <2>2
<1>11. QED
  BY <1>2, <1>4, <1>5, <1>6, <1>8, <1>9, <1>10

NothingYet ==
    [dt |-> time, status |-> condition,
     records |-> [i \in DOMAIN Boundaries |-> [duration |-> 0, count |-> 0]]]

Account ==
    [dt : Int, status : Conditions,
     records : [DOMAIN Boundaries -> [duration : Int, count : Int]]]

LEMMA PieceIs ==
    ASSUME HistoryInv, unwritten = NoFlip, NEW acc \in Account, NEW t \in Events
    PROVE  /\ Piece(acc, t) \in Account
           /\ Piece(acc, t).dt = t
           /\ t \in Range(Boundaries) => Piece(acc, t).status = acc.status
           /\ t \notin Range(Boundaries) =>
                \E f \in changes : f.at = t /\ Piece(acc, t).status = f.old
           /\ \A i \in DOMAIN Boundaries :
                IF acc.status = "down" /\ i = RecordOf(t)
                THEN /\ Piece(acc, t).records[i].duration =
                           acc.records[i].duration + (acc.dt - t)
                     /\ Piece(acc, t).records[i].count = acc.records[i].count + 1
                ELSE Piece(acc, t).records[i] = acc.records[i]
<1>1. PICK p : p = Piece(acc, t)
  OBVIOUS
<1>2. PICK r : r = RecordOf(t)
  OBVIOUS
<1>3. PICK before : before = StatusBefore(t)
  OBVIOUS
<1>4. p = [dt |-> t,
           status |-> IF before = "---" THEN acc.status ELSE before,
           records |-> IF acc.status # "down" THEN acc.records
                       ELSE [acc.records EXCEPT ![r] = [duration |-> @.duration + acc.dt - t,
                                                          count |-> @.count + 1]]]
  BY <1>1, <1>2, <1>3 DEF Piece
<1>5. t \in Nat /\ acc.dt \in Int /\ acc.status \in Conditions
      /\ acc.records \in [DOMAIN Boundaries -> [duration : Int, count : Int]]
  BY EventsAre DEF Account
<1>6. t \in Range(Boundaries) => before = "---"
  BY <1>3 DEF StatusBefore
<1>7. t \notin Range(Boundaries) => \E f \in changes : f.at = t /\ before = f.old
  <2>1. SUFFICES ASSUME t \notin Range(Boundaries)
                 PROVE  \E f \in changes : f.at = t /\ before = f.old
    OBVIOUS
  <2>2. \E f \in changes : f.at = t
    BY <2>1, EventsAre
  <2>3. QED
    BY <1>3, <2>1, <2>2 DEF StatusBefore
<1>8. \A f \in changes : f.old \in Conditions /\ f.old # "---"
  BY DEF HistoryInv, FlipsTyped, FlipRow, Conditions
<1>9. p.status \in Conditions
  BY <1>4, <1>5, <1>6, <1>7, <1>8
<1>10. /\ p.records \in [DOMAIN Boundaries -> [duration : Int, count : Int]]
       /\ \A i \in DOMAIN Boundaries :
             IF acc.status = "down" /\ i = r
             THEN /\ p.records[i].duration = acc.records[i].duration + (acc.dt - t)
                  /\ p.records[i].count = acc.records[i].count + 1
             ELSE p.records[i] = acc.records[i]
  <2>1. CASE acc.status # "down"
    BY <1>4, <1>5, <2>1
  <2>2. CASE acc.status = "down"
    <3>1. \A i \in DOMAIN Boundaries :
              /\ acc.records[i] \in [duration : Int, count : Int]
              /\ acc.records[i].duration \in Int /\ acc.records[i].count \in Int
      BY <1>5
    <3>2. p.records = [i \in DOMAIN Boundaries |->
                         IF i = r
                         THEN [duration |-> acc.records[i].duration + acc.dt - t,
                               count |-> acc.records[i].count + 1]
                         ELSE acc.records[i]]
      BY <1>4, <1>5, <2>2
    <3>4. ASSUME NEW i \in DOMAIN Boundaries
          PROVE  /\ p.records[i] \in [duration : Int, count : Int]
                 /\ IF i = r
                    THEN /\ p.records[i].duration = acc.records[i].duration + (acc.dt - t)
                         /\ p.records[i].count = acc.records[i].count + 1
                    ELSE p.records[i] = acc.records[i]
      <4>1. PICK d \in Int, c \in Int : /\ acc.records[i].duration = d
                                        /\ acc.records[i].count = c
        BY <3>1
      <4>2. CASE i = r
        <5>1. p.records[i] = [duration |-> d + acc.dt - t, count |-> c + 1]
          BY <3>2, <4>1, <4>2
        <5>2. d + acc.dt - t = d + (acc.dt - t) /\ d + (acc.dt - t) \in Int /\ c + 1 \in Int
          BY <1>5
        <5>3. QED
          BY <4>1, <4>2, <5>1, <5>2
      <4>3. CASE i # r
        BY <3>1, <3>2, <4>3
      <4>4. QED
        BY <4>2, <4>3
    <3>6. p.records \in [DOMAIN Boundaries -> [duration : Int, count : Int]]
      BY <3>2, <3>4
    <3>7. QED
      BY <2>2, <3>4, <3>6
  <2>3. QED
    BY <2>1, <2>2
<1>11. p = [dt |-> p.dt, status |-> p.status, records |-> p.records] /\ p.dt = t
  BY <1>4
<1>12. p \in Account
  BY <1>5, <1>9, <1>10, <1>11 DEF Account
<1>13. /\ t \in Range(Boundaries) => p.status = acc.status
       /\ t \notin Range(Boundaries) => \E f \in changes : f.at = t /\ p.status = f.old
  BY <1>4, <1>6, <1>7, <1>8
<1>14. QED
  BY <1>1, <1>2, <1>10, <1>11, <1>12, <1>13

\* The loop, of the events f[s] from the last one back.
DowntimeLoop(f) ==
    /\ downtimes_by_boundary = f[Events].records
    /\ f[{}] = NothingYet
    /\ \A s \in SUBSET Events : s # {} => f[s] = Piece(f[s \ {Min(s)}], Min(s))

LEMMA LeastEvent ==
    ASSUME HistoryInv, unwritten = NoFlip, NEW s \in SUBSET Events, s # {}
    PROVE  Min(s) \in s /\ \A e \in s : Min(s) <= e
<1>1. s \in SUBSET Nat
  BY EventsAre
<1>2. QED
  BY <1>1, LeastIs

LEMMA DowntimeFold ==
    ASSUME HistoryInv, unwritten = NoFlip
    PROVE  \E f : DowntimeLoop(f) /\ \A s \in SUBSET Events : f[s] \in Account
<1> DEFINE D == Events
           V == Account
           first == [s \in SUBSET D |-> Min(s)]
           step == [a \in D \X V |-> Piece(a[2], a[1])]
           IsLoop(f) == f = [s \in SUBSET D |->
                              IF s = {} THEN NothingYet
                              ELSE Piece(f[s \ {Min(s)}], Min(s))]
<1>1. downtimes_by_boundary = (CHOOSE f : IsLoop(f))[D].records
  BY DEF downtimes_by_boundary, MapThenFoldSet, NothingYet
<1>2. NothingYet \in V /\ step \in [D \X V -> V]
  <2>1. ASSUME NEW t \in D, NEW v \in V PROVE Piece(v, t) \in V
    BY <2>1, PieceIs
  <2>2. \A a \in D \X V : a[1] \in D /\ a[2] \in V
    OBVIOUS
  <2>3. NothingYet \in V
    <3>1. time \in Int /\ condition \in Conditions
      BY DEF HistoryInv, ClockInv, FlipsTyped
    <3>2. QED
      BY <3>1 DEF NothingYet, Account
  <2> HIDE DEF V, D
  <2>4. QED
    BY <2>1, <2>2, <2>3
<1>3. Picks(first, D)
  BY LeastEvent DEF Picks
<1>4. \E f \in [SUBSET D -> V] : IsFold(f, D, first, NothingYet, step)
  <2>1. IsFiniteSet(D)
    BY EventsAre
  <2> HIDE DEF step, first, D, IsLoop, V
  <2>2. QED
    BY <1>2, <1>3, <2>1, FoldExists
<1>5. PICK f \in [SUBSET D -> V] : IsFold(f, D, first, NothingYet, step)
  BY <1>4
<1>6. ASSUME NEW s \in SUBSET D, s # {} PROVE f[s] = Piece(f[s \ {Min(s)}], Min(s))
  <2>1. Min(s) \in D /\ f[s \ {Min(s)}] \in V /\ first[s] = Min(s)
    BY <1>3, <1>6 DEF Picks
  <2>2. f[s] = step[<<Min(s), f[s \ {Min(s)}]>>]
    BY <1>5, <1>6, <2>1 DEF IsFold
  <2>3. QED
    BY <2>1, <2>2
<1>7. IsLoop(f)
  BY <1>5, <1>6 DEF IsFold
<1>8. PICK g : g = (CHOOSE h : IsLoop(h))
  OBVIOUS
<1>9. IsLoop(g)
  BY <1>7, <1>8
<1>10. downtimes_by_boundary = g[Events].records
  <2> HIDE DEF IsLoop
  <2>1. QED
    BY <1>1, <1>8
<1>11. DowntimeLoop(g)
  BY <1>9, <1>10 DEF DowntimeLoop
<1>12. \A s \in SUBSET D : g[s] \in V
  <2> DEFINE P == {s \in SUBSET D : g[s] \in V}
  <2>1. {} \in P
    BY <1>2, <1>9
  <2>2. ASSUME NEW s \in SUBSET D, s # {}, s \ {first[s]} \in P PROVE s \in P
    <3>1. Min(s) \in D /\ g[s \ {Min(s)}] \in V
      BY <1>3, <2>2 DEF Picks
    <3>2. g[s] = Piece(g[s \ {Min(s)}], Min(s))
      BY <1>9, <2>2
    <3>3. QED
      BY <3>1, <3>2, PieceIs
  <2>3. ASSUME NEW s \in SUBSET D PROVE s \in P
    <3>1. IsFiniteSet(s)
      BY EventsAre, FS_Subset
    <3>2. Picks(first, s)
      BY <1>3 DEF Picks
    <3>3. \A t \in SUBSET s : t # {} /\ t \ {first[t]} \in P => t \in P
      BY <2>2
    <3> HIDE DEF P, first
    <3>4. QED
      BY <2>1, <3>1, <3>2, <3>3, FoldInduction
  <2>4. QED
    BY <2>3
<1>13. QED
  BY <1>11, <1>12

\* What a loop from now back has found when it has seen the events s: the status
\* before the first of them, and what there is since then.
Upper(s) == \A t \in s, e \in Events : e > t => e \in s
StatusKnown(acc, s) ==
    \A m \in Oldest .. time :
        m >= blurred /\ (\A e \in s : m < e) /\ (\A e \in Events \ s : e <= m)
            => (acc.status = "down" <=> m \in DownAt)
DownSince(i, s) == {n \in wasDown : InRecord(i, n) /\ \E e \in s : e <= n}
BeganIn(i, s) == {t \in s : InRecord(i, t) /\ t \in DownAt}
CountedFor(acc, s) ==
    \A i \in DOMAIN Boundaries : Boundaries[i] > blurred =>
        /\ acc.records[i].duration = Cardinality(DownSince(i, s))
        /\ acc.records[i].count = Cardinality(BeganIn(i, s))
Counted(acc, s) ==
    /\ acc.dt = IF s = {} THEN time ELSE Min(s)
    /\ StatusKnown(acc, s)
    /\ CountedFor(acc, s)

LEMMA Moments ==
    ASSUME HistoryInv
    PROVE  /\ time \in Nat \ {0} /\ Oldest \in Nat /\ Oldest < time /\ blurred \in Int
           /\ PruneAge \in Nat /\ Oldest >= time - PruneAge
           /\ wasDown \in SUBSET (0 .. time - 1)
           /\ \A n \in 0 .. time - 1 : n \in DownAt <=> n \in wasDown
           /\ time \in DownAt <=> condition = "down"
           /\ DownAt \in SUBSET (0 .. time)
<1>1. time \in Nat \ {0} /\ blurred \in Int /\ PruneAge \in Nat
  BY FlipFields
<1>2. Oldest \in Nat /\ Oldest < time /\ Oldest >= time - PruneAge
  BY BoundariesAre
<1>3. wasDown \in SUBSET (0 .. time - 1)
  BY DEF HistoryInv, FlipsTyped
<1>4. ASSUME NEW n \in 0 .. time - 1 PROVE n \in DownAt <=> n \in wasDown
  <2>1. n # time
    BY <1>1
  <2>2. QED
    BY <2>1 DEF DownAt
<1>5. time \in DownAt <=> condition = "down"
  <2>1. time \notin wasDown
    BY <1>1, <1>3
  <2>2. QED
    BY <2>1 DEF DownAt
<1>6. DownAt \in SUBSET (0 .. time)
  <2>1. time \in 0 .. time /\ \A n \in wasDown : n \in 0 .. time
    BY <1>1, <1>3
  <2>2. \A n \in DownAt : n \in 0 .. time
    BY <2>1 DEF DownAt
  <2>3. QED
    BY <2>2
<1>7. QED
  BY <1>1, <1>2, <1>3, <1>4, <1>5, <1>6

LEMMA NothingCounted ==
    ASSUME HistoryInv, unwritten = NoFlip
    PROVE  Counted(NothingYet, {})
<1>1. NothingYet.dt = time
  BY DEF NothingYet
<1>2. StatusKnown(NothingYet, {})
  <2>1. SUFFICES ASSUME NEW m \in Oldest .. time, m >= blurred, \A e \in Events : e <= m
                 PROVE  condition = "down" <=> m \in DownAt
    BY DEF StatusKnown, NothingYet
  <2>2. \A f \in Flips : ~(m < f.at /\ f.at <= time)
    BY <2>1, Moments, EventsAre, FlipFields
  <2>3. m \in Nat /\ m <= time /\ m >= time - PruneAge
    BY Moments
  <2>4. m \in DownAt <=> time \in DownAt
    BY <2>1, <2>2, <2>3, Moments, FlatBetween
  <2>5. QED
    BY <2>4, Moments
<1>3. CountedFor(NothingYet, {})
  <2>1. \A i \in DOMAIN Boundaries : DownSince(i, {}) = {} /\ BeganIn(i, {}) = {}
    BY DEF DownSince, BeganIn
  <2>2. Cardinality({}) = 0
    BY FS_EmptySet
  <2>3. QED
    BY <2>1, <2>2 DEF CountedFor, NothingYet
<1>4. QED
  BY <1>1, <1>2, <1>3 DEF Counted

\* The moments from the event t up to the next one, of which acc knows the status.
LEMMA StatusSince ==
    ASSUME HistoryInv, unwritten = NoFlip,
           NEW s \in SUBSET Events, s # {}, Upper(s),
           NEW acc \in Account, Counted(acc, s \ {Min(s)})
    PROVE  /\ Min(s) <= acc.dt /\ acc.dt <= time /\ acc.dt \in Nat
           /\ \A e \in Events : e > Min(s) => acc.dt <= e /\ e \in s \ {Min(s)}
           /\ \A e \in s \ {Min(s)} : Min(s) < e /\ acc.dt <= e
           /\ Min(s) >= blurred =>
                (acc.status = "down" <=> Min(s) \in DownAt)
           /\ \A m \in Min(s) .. acc.dt - 1 :
                m >= blurred => (acc.status = "down" <=> m \in wasDown)
<1>1. PICK t \in s : t = Min(s) /\ \A e \in s : t <= e
  BY LeastEvent
<1>2. PICK r : r = s \ {t}
  OBVIOUS
<1>3. PICK u : u = acc.dt
  OBVIOUS
<1>4. r \in SUBSET Events /\ Counted(acc, r)
  BY <1>1, <1>2
<1>5. u = IF r = {} THEN time ELSE Min(r)
  BY <1>3, <1>4 DEF Counted
<1>6. t \in Nat /\ t >= Oldest /\ t <= time
  BY <1>1, EventsAre
<1>7. \A e \in r : t < e /\ e \in Nat
  BY <1>1, <1>2, EventsAre
<1>8. u \in Nat /\ t <= u /\ u <= time /\ \A e \in r : u <= e
  <2>1. CASE r = {}
    BY <1>5, <1>6, <2>1, Moments
  <2>2. CASE r # {}
    <3>1. u \in r /\ \A e \in r : u <= e
      BY <1>4, <1>5, <2>2, LeastEvent
    <3>2. u \in Nat /\ u <= time
      BY <1>4, <3>1, EventsAre
    <3>3. QED
      BY <1>6, <1>7, <3>1, <3>2
  <2>3. QED
    BY <2>1, <2>2
<1>9. \A e \in Events : e > t => e \in r /\ u <= e
  <2>1. ASSUME NEW e \in Events, e > t PROVE e \in r
    BY <1>1, <1>2, <1>6, <2>1 DEF Upper
  <2>2. QED
    BY <1>8, <2>1
<1>10. ASSUME NEW m \in t .. time, m >= blurred, \A e \in r : m < e
       PROVE  acc.status = "down" <=> m \in DownAt
  <2>1. m \in Oldest .. time
    BY <1>6, Moments
  <2>2. ASSUME NEW e \in Events \ r PROVE e <= m
    <3>1. e \in Nat /\ ~(e > t)
      BY <1>9, EventsAre
    <3>2. QED
      BY <1>6, <3>1
  <2>3. QED
    BY <1>4, <1>10, <2>1, <2>2 DEF Counted, StatusKnown
<1>11. t >= blurred => (acc.status = "down" <=> t \in DownAt)
  BY <1>6, <1>7, <1>10, Moments
<1>12. ASSUME NEW m \in t .. u - 1, m >= blurred
       PROVE  acc.status = "down" <=> m \in wasDown
  <2>1. m \in t .. time /\ m \in 0 .. time - 1 /\ \A e \in r : m < e
    BY <1>6, <1>7, <1>8, Moments
  <2>2. QED
    BY <1>10, <1>12, <2>1, Moments
<1>13. QED
  BY <1>1, <1>2, <1>3, <1>7, <1>8, <1>9, <1>11, <1>12

LEMMA StatusBeforeIs ==
    ASSUME HistoryInv, unwritten = NoFlip,
           NEW s \in SUBSET Events, s # {}, Upper(s),
           NEW acc \in Account, Counted(acc, s \ {Min(s)})
    PROVE  StatusKnown(Piece(acc, Min(s)), s)
<1>1. PICK t \in s : t = Min(s) /\ \A e \in s : t <= e
  BY LeastEvent
<1>2. t \in Nat /\ t >= Oldest /\ t <= time
  BY <1>1, EventsAre
<1>3. PICK p : p = Piece(acc, t)
  OBVIOUS
<1>4. SUFFICES ASSUME NEW m \in Oldest .. time, m >= blurred, \A e \in s : m < e,
                      \A e \in Events \ s : e <= m
               PROVE  p.status = "down" <=> m \in DownAt
  BY <1>1, <1>3 DEF StatusKnown
<1>5. m \in Nat /\ m < t /\ t - 1 \in Nat /\ m <= t - 1 /\ t - 1 <= time
      /\ t \in 1 .. time /\ m >= time - PruneAge
  BY <1>1, <1>2, <1>4, Moments
<1>6. \A f \in Flips : ~(m < f.at /\ f.at <= t - 1)
  <2>1. SUFFICES ASSUME NEW f \in changes, m < f.at, f.at <= t - 1 PROVE FALSE
    BY EventsAre
  <2>2. f.at \in Nat /\ f.at >= Oldest
    BY <2>1, <1>5, Moments, FlipFields, EventsAre
  <2>3. f.at \in Events
    BY <2>2, EventsAre
  <2>4. QED
    BY <1>1, <1>4, <1>5, <2>1, <2>2, <2>3
<1>7. m \in DownAt <=> t - 1 \in DownAt
  BY <1>4, <1>5, <1>6, FlatBetween
<1>8. Reported(t)
  <2>1. Told(t)
    BY <1>2, <1>4, <1>5, Moments DEF Told
  <2>2. QED
    BY <1>5, <2>1 DEF HistoryInv, FlipsTell
<1>9. CASE t \in Range(Boundaries)
  <2>1. \A f \in Flips : f.at # t
    BY <1>9, EventsAre
  <2>2. t - 1 \in DownAt <=> t \in DownAt
    BY <1>8, <2>1 DEF Reported
  <2>3. t >= blurred
    BY <1>4, <1>5, Moments
  <2>4. acc.status = "down" <=> t \in DownAt
    BY <1>1, <2>3, StatusSince
  <2>5. p.status = acc.status
    BY <1>1, <1>3, <1>9, PieceIs
  <2>6. QED
    BY <1>7, <2>2, <2>4, <2>5
<1>10. CASE t \notin Range(Boundaries)
  <2>1. PICK f \in changes : f.at = t /\ p.status = f.old
    BY <1>1, <1>3, <1>10, PieceIs
  <2>2. f \in Flips
    BY EventsAre
  <2>3. f.old = "down" <=> t - 1 \in DownAt
    BY <1>8, <2>1, <2>2 DEF Reported
  <2>4. QED
    BY <1>7, <2>1, <2>3
<1>11. QED
  BY <1>9, <1>10

LEMMA PieceCounts ==
    ASSUME HistoryInv, unwritten = NoFlip,
           NEW s \in SUBSET Events, s # {}, Upper(s),
           NEW acc \in Account, Counted(acc, s \ {Min(s)})
    PROVE  CountedFor(Piece(acc, Min(s)), s)
<1>1. PICK t \in s : t = Min(s) /\ \A e \in s : t <= e
  BY LeastEvent
<1>2. t \in Nat /\ t >= Oldest /\ t <= time
  BY <1>1, EventsAre
<1>3. PICK r : r = s \ {t} /\ Counted(acc, r)
  BY <1>1
<1>4. PICK u : u = acc.dt
  OBVIOUS
<1>5. PICK p : p = Piece(acc, t)
  OBVIOUS
<1>6. SUFFICES ASSUME NEW i \in DOMAIN Boundaries, Boundaries[i] > blurred
               PROVE  /\ p.records[i].duration = Cardinality(DownSince(i, s))
                      /\ p.records[i].count = Cardinality(BeganIn(i, s))
  BY <1>1, <1>5 DEF CountedFor
<1>7. /\ acc.records[i].duration = Cardinality(DownSince(i, r))
      /\ acc.records[i].count = Cardinality(BeganIn(i, r))
  BY <1>3, <1>6 DEF Counted, CountedFor
<1>8. /\ u \in Nat /\ t <= u /\ u <= time
      /\ \A e \in Events : e > t => u <= e /\ e \in r
      /\ \A e \in r : t < e /\ u <= e
  BY <1>1, <1>3, <1>4, StatusSince
<1>9. /\ t >= blurred => (acc.status = "down" <=> t \in DownAt)
      /\ \A m \in t .. u - 1 : m >= blurred => (acc.status = "down" <=> m \in wasDown)
  BY <1>1, <1>3, <1>4, StatusSince
<1>10. s \in SUBSET Nat /\ r \in SUBSET Nat /\ t \notin r /\ s = r \union {t} /\ r \in SUBSET Events
  BY <1>1, <1>3, EventsAre
<1>11. \A j \in DOMAIN Boundaries : Boundaries[j] \in Nat /\ Boundaries[j] \in Events
  BY BoundariesAre, EventsAre
<1>12. i \in Nat /\ (i > 1 => i - 1 \in DOMAIN Boundaries)
  BY BoundariesAre
<1>13. /\ IsFiniteSet(DownSince(i, r)) /\ IsFiniteSet(BeganIn(i, r))
       /\ Cardinality(DownSince(i, r)) \in Nat /\ Cardinality(BeganIn(i, r)) \in Nat
  <2>1. IsFiniteSet(wasDown)
    <3>1. wasDown \in SUBSET Nat /\ time \in Nat /\ \A n \in wasDown : n <= time
      BY Moments
    <3>2. QED
      BY <3>1, FS_BoundedSetOfNaturals
  <2>2. IsFiniteSet(r)
    BY <1>10, EventsAre, FS_Subset
  <2>3. DownSince(i, r) \in SUBSET wasDown /\ BeganIn(i, r) \in SUBSET r
    BY DEF DownSince, BeganIn
  <2>4. QED
    BY <2>1, <2>2, <2>3, FS_Subset, FS_CardinalityType
<1>14. wasDown \in SUBSET (0 .. time - 1) /\ time \in Nat /\ blurred \in Int
  BY Moments
<1>15. CASE ~InRecord(i, t)
  <2>1. p.records[i] = acc.records[i]
    BY <1>1, <1>2, <1>5, <1>15, PieceIs, RecordIs
  <2>2. BeganIn(i, s) = BeganIn(i, r)
    BY <1>10, <1>15 DEF BeganIn
  <2>3. ASSUME NEW n \in wasDown, InRecord(i, n), t <= n PROVE \E e \in r : e <= n
    <3>1. n \in Nat
      BY <1>14
    <3>2. CASE t < Boundaries[i]
      BY <1>8, <1>11, <2>3, <3>2 DEF InRecord
    <3>3. CASE ~(t < Boundaries[i])
      <4>1. i > 1 /\ ~(t < Boundaries[i - 1])
        BY <1>2, <1>11, <1>15, <3>3 DEF InRecord
      <4>2. n < Boundaries[i - 1] /\ Boundaries[i - 1] \in Nat
        BY <1>11, <1>12, <2>3, <4>1 DEF InRecord
      <4>3. QED
        BY <1>2, <2>3, <3>1, <4>1, <4>2
    <3>4. QED
      BY <3>2, <3>3
  <2>4. DownSince(i, s) = DownSince(i, r)
    BY <1>10, <2>3 DEF DownSince
  <2>5. QED
    BY <1>7, <2>1, <2>2, <2>4
<1>16. CASE InRecord(i, t)
  <2>1. i = RecordOf(t) /\ t > blurred
    <3>1. i = RecordOf(t)
      BY <1>2, <1>16, RecordIs
    <3>2. t >= Boundaries[i]
      BY <1>16 DEF InRecord
    <3>3. QED
      BY <1>2, <1>6, <1>11, <1>14, <3>1, <3>2
  <2>2. \A n \in t .. u - 1 : InRecord(i, n)
    <3>1. SUFFICES ASSUME NEW n \in t .. u - 1 PROVE InRecord(i, n)
      OBVIOUS
    <3>2. Boundaries[i] <= n
      BY <1>2, <1>8, <1>11, <1>16 DEF InRecord
    <3>3. ASSUME i > 1 PROVE n < Boundaries[i - 1]
      <4>1. t < Boundaries[i - 1] /\ Boundaries[i - 1] \in Events /\ Boundaries[i - 1] \in Nat
        BY <1>11, <1>12, <1>16, <3>3 DEF InRecord
      <4>2. u <= Boundaries[i - 1]
        BY <1>2, <1>8, <4>1
      <4>3. QED
        BY <1>2, <1>8, <4>1, <4>2
    <3>4. QED
      BY <3>2, <3>3 DEF InRecord
  <2>3. \A n \in wasDown : t <= n /\ ~(\E e \in r : e <= n) => n \in t .. u - 1
    <3>1. SUFFICES ASSUME NEW n \in wasDown, t <= n, ~(n < u) PROVE \E e \in r : e <= n
      BY <1>2, <1>8, <1>14
    <3>2. u # time
      BY <1>8, <1>14, <3>1
    <3>3. u \in r
      <4>1. r # {} /\ u = Min(r)
        BY <1>3, <1>4, <3>2 DEF Counted
      <4>2. QED
        BY <1>10, <4>1, LeastEvent
    <3>4. QED
      BY <1>8, <1>14, <3>1, <3>3
  <2>4. \A n \in t .. u - 1 : ~(\E e \in r : e <= n)
    BY <1>2, <1>8, <1>10
  <2>5. DownSince(i, s) = DownSince(i, r) \union (wasDown \intersect (t .. u - 1))
    BY <1>2, <1>8, <1>10, <2>2, <2>3 DEF DownSince
  <2>6. CASE acc.status = "down"
    <3>1. t .. u - 1 \in SUBSET wasDown
      BY <1>2, <1>8, <1>9, <1>14, <2>1, <2>6
    <3>2. DownSince(i, s) = DownSince(i, r) \union (t .. u - 1)
      BY <2>5, <3>1
    <3>3. DownSince(i, r) \intersect (t .. u - 1) = {}
      BY <2>4 DEF DownSince
    <3>4. IsFiniteSet(t .. u - 1) /\ Cardinality(t .. u - 1) = u - t
      <4>1. Cardinality(t .. u - 1) = IF t > u - 1 THEN 0 ELSE (u - 1) - t + 1
        BY <1>2, <1>8, FS_Interval
      <4>2. QED
        BY <1>2, <1>8, <4>1, FS_Interval
    <3>5. Cardinality(DownSince(i, s)) = Cardinality(DownSince(i, r)) + (u - t)
      <4>1. Cardinality(DownSince(i, r) \union (t .. u - 1)) =
               Cardinality(DownSince(i, r)) + Cardinality(t .. u - 1) - Cardinality({})
        <5>1. PICK N : N = t .. u - 1
          OBVIOUS
        <5>2. IsFiniteSet(N) /\ DownSince(i, r) \intersect N = {}
          BY <3>3, <3>4, <5>1
        <5>3. Cardinality(DownSince(i, r) \union N) =
                 Cardinality(DownSince(i, r)) + Cardinality(N)
                   - Cardinality(DownSince(i, r) \intersect N)
          BY <1>13, <5>2, FS_Union
        <5>4. QED
          BY <5>1, <5>2, <5>3
      <4>2. QED
        BY <1>2, <1>8, <1>13, <3>2, <3>4, <4>1, FS_EmptySet
    <3>6. BeganIn(i, s) = BeganIn(i, r) \union {t}
      <4>1. t \in DownAt
        BY <1>2, <1>9, <1>14, <2>1, <2>6
      <4>2. QED
        BY <1>10, <1>16, <4>1 DEF BeganIn
    <3>7. Cardinality(BeganIn(i, s)) = Cardinality(BeganIn(i, r)) + 1
      <4>1. t \notin BeganIn(i, r)
        BY <1>10 DEF BeganIn
      <4>2. QED
        BY <1>13, <3>6, <4>1, FS_AddElement
    <3>8. /\ p.records[i].duration = acc.records[i].duration + (u - t)
          /\ p.records[i].count = acc.records[i].count + 1
      BY <1>1, <1>4, <1>5, <2>1, <2>6, PieceIs
    <3>9. QED
      BY <1>7, <3>5, <3>7, <3>8
  <2>7. CASE acc.status # "down"
    <3>1. wasDown \intersect (t .. u - 1) = {}
      BY <1>2, <1>8, <1>9, <1>14, <2>1, <2>7
    <3>2. t \notin DownAt
      BY <1>2, <1>9, <1>14, <2>1, <2>7
    <3>3. DownSince(i, s) = DownSince(i, r) /\ BeganIn(i, s) = BeganIn(i, r)
      BY <1>10, <2>5, <3>1, <3>2 DEF BeganIn
    <3>4. p.records[i] = acc.records[i]
      BY <1>1, <1>5, <2>7, PieceIs
    <3>5. QED
      BY <1>7, <3>3, <3>4
  <2>8. QED
    BY <2>6, <2>7
<1>17. QED
  BY <1>15, <1>16

LEMMA AllCounted ==
    ASSUME HistoryInv, unwritten = NoFlip
    PROVE  \E acc \in Account :
              downtimes_by_boundary = acc.records /\ CountedFor(acc, Events)
<1>1. PICK f : DowntimeLoop(f) /\ \A s \in SUBSET Events : f[s] \in Account
  BY DowntimeFold
<1> DEFINE P == {s \in SUBSET Events : Upper(s) => Counted(f[s], s)}
           first == [s \in SUBSET Events |-> Min(s)]
<1>2. {} \in P
  BY <1>1, NothingCounted DEF DowntimeLoop
<1>3. Picks(first, Events)
  BY LeastEvent DEF Picks
<1>4. ASSUME NEW s \in SUBSET Events, s # {}, s \ {first[s]} \in P PROVE s \in P
  <2>1. SUFFICES ASSUME Upper(s) PROVE Counted(f[s], s)
    BY <1>4
  <2>2. PICK r \in SUBSET Events : r = s \ {Min(s)}
    OBVIOUS
  <2>3. Upper(r)
    <3>1. Min(s) \in s /\ (\A e \in s : Min(s) <= e) /\ s \in SUBSET Nat
      BY <1>4, LeastEvent, EventsAre
    <3>2. SUFFICES ASSUME NEW t \in r, NEW e \in Events, e > t PROVE e \in r
      BY DEF Upper
    <3>3. e \in s /\ e # Min(s)
      <4>1. t \in s /\ t # Min(s) /\ t \in Nat /\ Min(s) \in Nat /\ Min(s) <= t /\ e \in Nat
        BY <2>2, <3>1, EventsAre
      <4>2. QED
        BY <2>1, <3>2, <4>1 DEF Upper
    <3>4. QED
      BY <2>2, <3>3
  <2>4. Counted(f[r], r) /\ f[r] \in Account
    BY <1>1, <1>4, <2>2, <2>3
  <2>5. f[s] = Piece(f[r], Min(s))
    BY <1>1, <1>4, <2>2 DEF DowntimeLoop
  <2>6. PICK acc \in Account : acc = f[r] /\ Counted(acc, s \ {Min(s)})
    BY <2>2, <2>4
  <2>7. StatusKnown(Piece(acc, Min(s)), s)
    BY <1>4, <2>1, <2>6, StatusBeforeIs
  <2>8. CountedFor(Piece(acc, Min(s)), s)
    BY <1>4, <2>1, <2>6, PieceCounts
  <2>9. Piece(acc, Min(s)).dt = Min(s)
    BY <1>4, <2>6, LeastEvent, PieceIs
  <2>10. QED
    BY <1>4, <2>5, <2>6, <2>7, <2>8, <2>9 DEF Counted
<1>5. Events \in P
  <2>1. IsFiniteSet(Events)
    BY EventsAre
  <2> HIDE DEF P, first
  <2>2. QED
    BY <1>2, <1>3, <1>4, <2>1, FoldInduction
<1>6. Upper(Events)
  BY DEF Upper
<1>7. f[Events] \in Account /\ Counted(f[Events], Events)
  BY <1>1, <1>5, <1>6
<1>8. QED
  BY <1>1, <1>7 DEF DowntimeLoop, Counted

\* What has been counted when all events have been seen is all there is.
LEMMA AllIsThere ==
    ASSUME HistoryInv, unwritten = NoFlip, NEW i \in DOMAIN Boundaries,
           Boundaries[i] > blurred
    PROVE  /\ DownSince(i, Events) = DownIn(i)
           /\ BeganIn(i, Events) =
                 OutagesIn(i) \union {n \in {time} : /\ i = 1 /\ condition = "down"
                                                     /\ changed = time}
<1>1. PICK k \in 1 .. 3 :
          /\ DOMAIN Boundaries = 1 .. k
          /\ \A j \in 1 .. k : /\ Boundaries[j] \in Nat /\ Boundaries[j] < time
                               /\ Boundaries[j] >= Oldest
  BY BoundariesAre
<1>2. PICK from \in Nat : from = Boundaries[i] /\ from \in Events /\ from > blurred
                          /\ from >= Oldest /\ from < time
  BY <1>1, EventsAre
<1>3. time \in Nat \ {0} /\ wasDown \in SUBSET (0 .. time - 1) /\ Oldest \in Nat
      /\ DownAt \in SUBSET (0 .. time) /\ blurred \in Int
  BY Moments
<1>4. \A n \in 0 .. time - 1 : InRecord(i, n) <=> n \in from .. EndOf(i) - 1
  <2>1. CASE i = 1
    BY <1>2, <1>3, <2>1 DEF InRecord, EndOf
  <2>2. CASE i # 1
    <3>1. i > 1 /\ i - 1 \in 1 .. k /\ Boundaries[i - 1] \in Nat
      BY <1>1, <2>2
    <3>2. QED
      BY <1>2, <1>3, <2>2, <3>1 DEF InRecord, EndOf
  <2>3. QED
    BY <2>1, <2>2
<1>5. DownSince(i, Events) = DownIn(i)
  <2>1. \A n \in wasDown : InRecord(i, n) => from <= n
    BY <1>2 DEF InRecord
  <2>2. QED
    BY <1>2, <1>3, <1>4, <2>1 DEF DownSince, DownIn
<1>6. ASSUME NEW n \in 1 .. time, n >= from PROVE Reported(n)
  <2>1. Told(n)
    BY <1>2, <1>3, <1>6, Moments DEF Told
  <2>2. QED
    BY <2>1 DEF HistoryInv, FlipsTell
<1>7. ASSUME NEW n \in 0 .. time - 1 PROVE n \in BeganIn(i, Events) <=> n \in OutagesIn(i)
  <2>1. n \in DownAt <=> n \in wasDown
    BY Moments
  <2>2. n \in DownIn(i) <=> n \in wasDown /\ InRecord(i, n)
    BY <1>2, <1>4 DEF DownIn
  <2>3. SUFFICES ASSUME n \in wasDown, InRecord(i, n)
                 PROVE  n \in Events <=> n = from \/ n - 1 \notin wasDown
    BY <1>2, <2>1, <2>2 DEF BeganIn, OutagesIn
  <2>4. n >= from /\ n >= Oldest /\ n \in Nat /\ n < time
    BY <1>2, <1>3, <1>4, <2>3
  <2>5. CASE n = from
    BY <1>2, <2>5
  <2>6. CASE n # from
    <3>1. n > from /\ n \in 1 .. time /\ n - 1 \in 0 .. time - 1
      BY <1>2, <1>3, <2>4, <2>6
    <3>2. Reported(n)
      BY <1>6, <2>4, <3>1
    <3>3. n - 1 \in DownAt <=> n - 1 \in wasDown
      BY <3>1, Moments
    <3>4. n \notin Range(Boundaries)
      <4>1. SUFFICES ASSUME NEW j \in 1 .. k, n = Boundaries[j] PROVE FALSE
        BY <1>1 DEF Range
      <4>2. InRecord(j, n)
        <5>1. j > 1 => j - 1 \in 1 .. k /\ j - 1 < j
          BY <1>1
        <5>2. \A a, b \in 1 .. k : a < b => Boundaries[b] < Boundaries[a]
          BY <1>1, BoundariesAre
        <5>3. Boundaries[j] <= n
          BY <1>1, <2>4, <4>1
        <5>4. QED
          BY <4>1, <5>1, <5>2, <5>3 DEF InRecord
      <4>3. i = j
        BY <1>1, <2>3, <2>4, <4>2, RecordIs
      <4>4. QED
        BY <1>2, <2>6, <4>1, <4>3
    <3>5. ASSUME n \in Events PROVE n - 1 \notin wasDown
      <4>1. PICK f \in changes : f.at = n
        BY <3>4, <3>5, EventsAre
      <4>2. f \in Flips /\ f.old # f.new
        BY EventsAre, FlipFields
      <4>3. (f.old = "down" <=> n - 1 \in DownAt) /\ (f.new = "down" <=> n \in DownAt)
        BY <3>2, <4>1, <4>2 DEF Reported
      <4>4. QED
        BY <2>1, <2>3, <3>3, <4>2, <4>3
    <3>6. ASSUME n - 1 \notin wasDown PROVE n \in Events
      <4>1. \E f \in Flips : f.at = n
        BY <2>1, <2>3, <3>2, <3>3, <3>6 DEF Reported
      <4>2. QED
        BY <2>4, <4>1, EventsAre
    <3>7. QED
      BY <2>6, <3>5, <3>6
  <2>7. QED
    BY <2>5, <2>6
<1>8. time \in BeganIn(i, Events) <=> (i = 1 /\ condition = "down" /\ changed = time)
  <2>1. InRecord(i, time) <=> i = 1
    <3>1. CASE i = 1
      BY <1>2, <1>3, <3>1 DEF InRecord
    <3>2. CASE i # 1
      <4>1. i > 1 /\ i - 1 \in 1 .. k /\ Boundaries[i - 1] < time /\ Boundaries[i - 1] \in Nat
        BY <1>1, <3>2
      <4>2. QED
        BY <1>3, <3>2, <4>1 DEF InRecord
    <3>3. QED
      BY <3>1, <3>2
  <2>2. time \in DownAt <=> condition = "down"
    BY Moments
  <2>3. time \notin Range(Boundaries)
    BY <1>1, <1>3 DEF Range
  <2>4. time \in Events <=> changed = time
    <3>1. ASSUME time \in Events PROVE changed = time
      <4>1. PICK f \in changes : f.at = time
        BY <2>3, <3>1, EventsAre
      <4>2. f.at <= changed /\ changed <= time /\ changed \in Nat
        BY <4>1, EventsAre, FlipFields DEF HistoryInv, FlipsTyped
      <4>3. QED
        BY <1>3, <4>1, <4>2
    <3>2. ASSUME changed = time PROVE time \in Events
      <4>1. blurred < time
        BY <1>2, <1>3
      <4>2. \E f \in Flips : f.at = time
        BY <3>2, <4>1 DEF HistoryInv, FlipsTell
      <4>3. QED
        BY <1>3, <4>2, EventsAre, Moments
    <3>3. QED
      BY <3>1, <3>2
  <2>5. QED
    BY <2>1, <2>2, <2>4 DEF BeganIn
<1>9. BeganIn(i, Events) \in SUBSET (0 .. time) /\ OutagesIn(i) \in SUBSET (0 .. time - 1)
  BY <1>3 DEF BeganIn, OutagesIn, DownIn
<1>10. BeganIn(i, Events) =
          OutagesIn(i) \union {n \in {time} : /\ i = 1 /\ condition = "down"
                                              /\ changed = time}
  <2>1. \A n \in 0 .. time : n \in 0 .. time - 1 \/ n = time
    BY <1>3
  <2>2. time \notin 0 .. time - 1
    BY <1>3
  <2>3. QED
    BY <1>7, <1>8, <1>9, <2>1, <2>2
<1>11. QED
  BY <1>5, <1>10

LEMMA MonthsAreTrue ==
    ASSUME HistoryInv, unwritten = NoFlip, NEW i \in DOMAIN Boundaries,
           Boundaries[i] > blurred
    PROVE  /\ downtimes_by_boundary[i].duration = Cardinality(DownIn(i))
           /\ downtimes_by_boundary[i].count =
                 Cardinality(OutagesIn(i))
                   + (IF i = 1 /\ condition = "down" /\ changed = time THEN 1 ELSE 0)
<1>1. PICK acc \in Account :
          downtimes_by_boundary = acc.records /\ CountedFor(acc, Events)
  BY AllCounted
<1>2. /\ acc.records[i].duration = Cardinality(DownIn(i))
      /\ acc.records[i].count = Cardinality(BeganIn(i, Events))
  BY <1>1, AllIsThere DEF CountedFor
<1>3. IsFiniteSet(OutagesIn(i)) /\ time \notin OutagesIn(i)
  <2>1. OutagesIn(i) \in SUBSET Nat /\ time \in Nat /\ \A n \in OutagesIn(i) : n < time /\ n <= time
    BY Moments DEF OutagesIn, DownIn
  <2>2. IsFiniteSet(OutagesIn(i))
    <3>1. PICK N : N = OutagesIn(i)
      OBVIOUS
    <3>2. N \in SUBSET Nat /\ time \in Nat /\ \A n \in N : n <= time
      BY <2>1, <3>1
    <3>3. IsFiniteSet(N)
      BY <3>2, FS_BoundedSetOfNaturals
    <3>4. QED
      BY <3>1, <3>3
  <2>3. QED
    BY <2>1, <2>2
<1>4. Cardinality(OutagesIn(i)) \in Nat
  BY <1>3, FS_CardinalityType
<1>5. CASE i = 1 /\ condition = "down" /\ changed = time
  <2>1. BeganIn(i, Events) = OutagesIn(i) \union {time}
    BY <1>5, AllIsThere
  <2>2. Cardinality(BeganIn(i, Events)) = Cardinality(OutagesIn(i)) + 1
    BY <1>3, <2>1, FS_AddElement
  <2>3. QED
    BY <1>1, <1>2, <1>5, <2>2
<1>6. CASE ~(i = 1 /\ condition = "down" /\ changed = time)
  <2>1. BeganIn(i, Events) = OutagesIn(i)
    BY <1>6, AllIsThere
  <2>2. QED
    BY <1>1, <1>2, <1>4, <1>6, <2>1
<1>7. QED
  BY <1>5, <1>6

LEMMA OutageIsTrue ==
    ASSUME HistoryInv, unwritten = NoFlip, NEW f \in changes, f.old = "down",
           blurred < f.at - DownDuration(f)
    PROVE  /\ (f.at - DownDuration(f)) .. (f.at - 1) \subseteq wasDown
           /\ DownDuration(f) > 0 => f.at - DownDuration(f) - 1 \notin wasDown
<1> DEFINE before == {g \in changes : g.at < f.at}
<1>1. \A g \in changes : g \in Flips /\ g.at \in Nat \ {0} /\ g.at <= time /\ g.old # g.new
  BY EventsAre, FlipFields
<1>2. CASE ~(\E g \in before : g.new = "down" /\ \A h \in before : h.at <= g.at)
  <2>1. DownDuration(f) = 0
    BY <1>2 DEF DownDuration
  <2>2. QED
    BY <1>1, <2>1
<1>3. CASE \E g \in before : g.new = "down" /\ \A h \in before : h.at <= g.at
  <2>1. PICK g \in before : g.new = "down" /\ \A h \in before : h.at <= g.at
    BY <1>3
  <2>2. g \in changes /\ g.at < f.at
    OBVIOUS
  <2>3. DownDuration(f) = f.at - g.at
    <3>1. DownDuration(f) = f.at - Max({h.at : h \in before})
      BY <1>3 DEF DownDuration
    <3>2. PICK T : T = {h.at : h \in before}
      OBVIOUS
    <3>3. T \in SUBSET Nat /\ g.at \in T /\ g.at \in Nat /\ \A y \in T : y <= g.at
      BY <1>1, <2>1, <3>2
    <3>4. Max(T) \in T /\ \A y \in T : y <= Max(T)
      BY <3>3, GreatestIs
    <3>5. Max(T) = g.at
      <4>1. PICK m \in T : m = Max(T) /\ \A y \in T : y <= m
        BY <3>4
      <4>2. m \in Nat /\ m <= g.at /\ g.at <= m
        BY <3>3, <4>1
      <4>3. QED
        BY <3>3, <4>1, <4>2
    <3>6. QED
      BY <3>1, <3>2, <3>5
  <2>4. /\ f.at \in Nat /\ g.at \in Nat \ {0} /\ f.at <= time /\ g.at < f.at
        /\ blurred < g.at /\ f.at - DownDuration(f) = g.at
    BY <1>1, <2>2, <2>3
  <2>5. time \in Nat /\ blurred \in Int
    BY Moments
  <2>6. Reported(f.at) /\ Reported(g.at)
    <3>1. Told(f.at) /\ Told(g.at) /\ f.at \in 1 .. time /\ g.at \in 1 .. time
      BY <1>1, <2>2, <2>4, <2>5 DEF Told
    <3>2. QED
      BY <3>1 DEF HistoryInv, FlipsTell
  <2>7. f.at - 1 \in DownAt
    BY <1>1, <2>6 DEF Reported
  <2>8. \A h \in Flips : ~(g.at < h.at /\ h.at <= f.at - 1)
    <3>1. SUFFICES ASSUME NEW h \in changes, g.at < h.at, h.at <= f.at - 1 PROVE FALSE
      BY EventsAre
    <3>2. h.at \in Nat /\ h \in before
      BY <1>1, <2>4, <3>1
    <3>3. QED
      BY <2>1, <2>4, <3>1, <3>2
  <2>9. \A n \in g.at .. f.at - 1 : n \in DownAt
    <3>1. g.at \in Nat /\ f.at - 1 \in Nat /\ f.at - 1 <= time /\ g.at >= blurred
          /\ \E h \in Flips : h.at <= g.at
      BY <1>1, <2>2, <2>4, <2>5
    <3>2. \A n \in g.at .. f.at - 1 : n \in DownAt <=> f.at - 1 \in DownAt
      BY <2>8, <3>1, FlatBetween
    <3>3. QED
      BY <2>7, <3>2
  <2>10. g.at .. f.at - 1 \subseteq wasDown
    <3>1. \A n \in g.at .. f.at - 1 : n \in 0 .. time - 1
      BY <2>4, <2>5
    <3>2. QED
      BY <2>9, <3>1, Moments
  <2>11. g.at - 1 \notin wasDown
    <3>1. g.old # "down"
      BY <1>1, <2>1, <2>2
    <3>2. g.at - 1 \notin DownAt
      BY <1>1, <2>2, <2>6, <3>1 DEF Reported
    <3>3. QED
      BY <3>2 DEF DownAt
  <2>12. QED
    BY <2>4, <2>10, <2>11
<1>4. QED
  BY <1>2, <1>3

\* The months that pages and reports show, and the length of an outage that a
\* message gives, are those there were, whenever months begin, however often the
\* status changes and flips are pruned, dated back and lost: what
\* downtimes_by_boundary and Flip.down_duration calculate back from the flips
\* there still are is what has happened.
THEOREM DowntimesAreTrue == DowntimesSpec => []DowntimesTrue
<1>1. HistoryInv => DowntimesTrue
  <2>1. SUFFICES ASSUME HistoryInv, unwritten = NoFlip PROVE DowntimesTrue
    BY DEF DowntimesTrue
  <2>2. \A i \in DOMAIN Boundaries : Boundaries[i] > blurred =>
          /\ downtimes_by_boundary[i].duration = Cardinality(DownIn(i))
          /\ downtimes_by_boundary[i].count = Cardinality(OutagesIn(i))
               + (IF i = 1 /\ condition = "down" /\ changed = time THEN 1 ELSE 0)
    BY <2>1, MonthsAreTrue
  <2>3. \A f \in changes : f.old = "down" /\ blurred < f.at - DownDuration(f) =>
          /\ (f.at - DownDuration(f)) .. (f.at - 1) \subseteq wasDown
          /\ DownDuration(f) > 0 => f.at - DownDuration(f) - 1 \notin wasDown
    BY <2>1, OutageIsTrue
  <2>4. QED
    BY <2>2, <2>3 DEF DowntimesTrue
<1>2. QED
  BY <1>1, HistoryKept, PTL
=============================================================================
