----------------------------- MODULE SiteProofs -----------------------------
(***************************************************************************)
(* What accounts, projects, the views that add channels, and the log       *)
(* promise, for any users, browsers, requests, projects and handlers.      *)
(*                                                                         *)
(* Requests hold copies of rows in the writes they have left.  What makes  *)
(* a copy safe to save late is a fact that is never taken back: the        *)
(* addresses proven, the tokens stored, the users asked.  Where there is   *)
(* none, as for the project of a check, what is said of a statement that   *)
(* is left holds while nobody else moves what it is about.                 *)
(***************************************************************************)
EXTENDS SignIn, Projects, Integrations, PingBodies, SequenceTheorems,
        FiniteSetTheorems, WellFoundedInduction, TLAPS

(***************************************************************************)
(* Signing in: the writes that requests have left.                         *)
(***************************************************************************)

Account == [email : Addresses, password : Passwords \union {Nothing}]
ProfileRow == [token : Nat \union {Nothing}, totp : BOOLEAN]
Link == [user : Users, token : Nat, email : Addresses \union {Nothing}]
Session ==
    [user : Users \union {Nothing}, password : Passwords \union {Nothing},
     pending : [user : Users, email : Addresses] \union {Nothing},
     sudo : {"off", "active"}]

\* The address of a row that is saved has been proven.
UserWrites ==
    {w \in [op : {"user"}, user : Users, row : Account] :
        w.row.email \in provenBy[w.user]}

\* Of a copy of a profile: it has a token that was stored before, unless it is
\* saved for a new one, and TOTP when it is saved for that.
ProfileWrites ==
    {w \in [op : {"profile"}, user : Users,
            why : {"link", "used", "password", "add", "remove", "settings"},
            row : ProfileRow] :
        /\ w.why # "link" => w.row.token \in stored[w.user] \union {Nothing}
        /\ w.why = "link" => w.row.token \in Nat
        /\ w.why \in {"used", "password"} => w.row.token = Nothing
        /\ w.why = "add" => w.row.totp}

MailWrites == [op : {"mail"}, link : Link]

InsertWrites == [op : {"insert"}, user : Users, email : Addresses]

\* Who had TOTP, and signs in without, lost it to the save of an old profile.
SignInWrites ==
    {w \in [op : {"signIn"}, user : Users, totp : BOOLEAN,
            factors : SUBSET {"key", "totp"}] :
        "totp" \in w.factors /\ ~w.totp => w.user \in forgone}

HashWrites == [op : {"hash"}, password : Passwords]

GoodWrites ==
    UserWrites \union ProfileWrites \union MailWrites \union InsertWrites
        \union SignInWrites \union HashWrites

IsLinkWrite(w) == w.op = "profile" /\ w.why = "link"

SignInTyped ==
    /\ account \in [Users -> Account \union {Nothing}]
    /\ profile \in [Users -> ProfileRow]
    /\ session \in [Browsers -> Session]
    /\ links \subseteq Link
    /\ issued \in Nat
    /\ provenBy \in [Users -> SUBSET Addresses]
    /\ stored \in [Users -> SUBSET (1 .. issued)]
    /\ enabled \subseteq Users

WritesGood == todo \in [Browsers -> Seq(GoodWrites)]

\* A token is of one account, and dead only after it has been stored.
TokensStored ==
    /\ \A u \in Users : profile[u].token \in stored[u] \union {Nothing}
    /\ \A u, v \in Users : u # v => stored[u] \intersect stored[v] = {}
    /\ dead \subseteq UNION {stored[u] : u \in Users}

\* A token that is not saved yet is saved by one write, for the first time.
FreshLinks ==
    \A b \in Browsers : \A n \in DOMAIN todo[b] :
        IsLinkWrite(todo[b][n]) =>
            /\ todo[b][n].row.token \in 1 .. issued
            /\ \A u \in Users : todo[b][n].row.token \notin stored[u]
            /\ \A c \in Browsers : \A m \in DOMAIN todo[c] :
                  IsLinkWrite(todo[c][m])
                    /\ todo[c][m].row.token = todo[b][n].row.token
                  => c = b /\ m = n

TotpKept == \A u \in enabled : ~profile[u].totp => u \in forgone

SignInInv ==
    /\ SignInTyped /\ WritesGood /\ TokensStored /\ FreshLinks /\ TotpKept
    /\ DeadLinksStayDead /\ SecondFactorAsked /\ EmailProven

\* History that only grows.
HistoryGrows ==
    /\ \A u \in Users : provenBy[u] \subseteq provenBy'[u]
    /\ \A u \in Users : stored[u] \subseteq stored'[u]
    /\ forgone \subseteq forgone'

LEMMA WritesGrow ==
    ASSUME HistoryGrows
    PROVE  GoodWrites \subseteq GoodWrites'
<1>1. UserWrites \subseteq UserWrites'
  BY DEF HistoryGrows, UserWrites
<1>2. ProfileWrites \subseteq ProfileWrites'
  BY DEF HistoryGrows, ProfileWrites
<1>3. SignInWrites \subseteq SignInWrites'
  BY DEF HistoryGrows, SignInWrites
<1>4. QED
  BY <1>1, <1>2, <1>3 DEF GoodWrites, MailWrites, InsertWrites, HashWrites

LEMMA SeqOfMore ==
    ASSUME NEW S, NEW T, S \subseteq T
    PROVE  Seq(S) \subseteq Seq(T)
OBVIOUS

LEMMA TailOf ==
    ASSUME NEW S, NEW s \in Seq(S), s # <<>>, NEW n \in DOMAIN Tail(s)
    PROVE  /\ n \in Nat \ {0} /\ n + 1 \in DOMAIN s
           /\ Tail(s)[n] = s[n + 1]
<1>1. DOMAIN s = 1 .. Len(s) /\ Len(s) \in Nat
  BY LenProperties
<1>2. Tail(s) \in Seq(S) /\ Len(Tail(s)) = Len(s) - 1
  BY HeadTailProperties
<1>3. DOMAIN Tail(s) = 1 .. Len(s) - 1
  BY <1>2, LenProperties
<1>4. n \in 1 .. Len(s) - 1
  BY <1>3
<1>5. Tail(s)[n] = s[n + 1]
  BY <1>4, HeadTailProperties
<1>6. QED
  BY <1>1, <1>4, <1>5

LEMMA SequenceOfSet ==
    ASSUME NEW S, IsFiniteSet(S)
    PROVE  SetToSeq(S) \in [1 .. Cardinality(S) -> S]
<1>1. \E f \in [1 .. Cardinality(S) -> S] : IsInjective(f)
  BY FS_CardinalityType DEF ExistsBijection, Bijection, Injection, IsInjective
<1>2. QED
  BY <1>1 DEF SetToSeq

LEMMA Joined ==
    ASSUME NEW x, NEW y, NEW z
    PROVE  <<x>> \o <<y, z>> = <<x, y, z>>
<1> DEFINE S == {x, y, z}
           one == <<x>>
           two == <<y, z>>
           three == <<x, y, z>>
<1>1. one \in Seq(S) /\ two \in Seq(S) /\ three \in Seq(S)
  OBVIOUS
<1>2. Len(one) = 1 /\ Len(two) = 2 /\ Len(three) = 3
  OBVIOUS
<1>3. one[1] = x /\ two[1] = y /\ two[2] = z
        /\ three[1] = x /\ three[2] = y /\ three[3] = z
  OBVIOUS
<1> HIDE DEF one, two, three, S
<1>4. /\ one \o two \in Seq(S)
      /\ Len(one \o two) = Len(one) + Len(two)
      /\ \A n \in 1 .. Len(one) + Len(two) : (one \o two)[n] =
            IF n <= Len(one) THEN one[n] ELSE two[n - Len(one)]
  BY <1>1, ConcatProperties
<1>5. Len(one \o two) = 3
  BY <1>2, <1>4
<1>6. (one \o two)[1] = x /\ (one \o two)[2] = y /\ (one \o two)[3] = z
  BY <1>2, <1>3, <1>4
<1>7. \A n \in 1 .. 3 : (one \o two)[n] = three[n]
  <2>1. SUFFICES ASSUME NEW n \in 1 .. 3 PROVE (one \o two)[n] = three[n]
    OBVIOUS
  <2>2. n = 1 \/ n = 2 \/ n = 3
    OBVIOUS
  <2>3. QED
    BY <1>3, <1>6, <2>2, Zenon
<1>8. one \o two = three
  BY <1>1, <1>2, <1>4, <1>5, <1>7, SeqEqual
<1>9. QED
  BY <1>8 DEF one, two, three

LEMMA JoinedTwo ==
    ASSUME NEW x, NEW y
    PROVE  <<x>> \o <<y>> = <<x, y>>
<1> DEFINE S == {x, y}
           one == <<x>>
           other == <<y>>
           two == <<x, y>>
<1>1. one \in Seq(S) /\ other \in Seq(S) /\ two \in Seq(S)
  OBVIOUS
<1>2. /\ Len(one) = 1 /\ Len(other) = 1 /\ Len(two) = 2
      /\ one[1] = x /\ other[1] = y /\ two[1] = x /\ two[2] = y
  OBVIOUS
<1> HIDE DEF one, other, two, S
<1>3. /\ one \o other \in Seq(S)
      /\ Len(one \o other) = Len(one) + Len(other)
      /\ \A n \in 1 .. Len(one) + Len(other) : (one \o other)[n] =
            IF n <= Len(one) THEN one[n] ELSE other[n - Len(one)]
  BY <1>1, ConcatProperties
<1>4. Len(one \o other) = 2 /\ (one \o other)[1] = x /\ (one \o other)[2] = y
  BY <1>2, <1>3
<1>5. \A n \in 1 .. 2 : (one \o other)[n] = two[n]
  <2>1. SUFFICES ASSUME NEW n \in 1 .. 2 PROVE (one \o other)[n] = two[n]
    OBVIOUS
  <2>2. n = 1 \/ n = 2
    OBVIOUS
  <2>3. QED
    BY <1>2, <1>4, <2>2, Zenon
<1>6. one \o other = two
  BY <1>1, <1>2, <1>3, <1>4, <1>5, SeqEqual
<1>7. QED
  BY <1>6 DEF one, other, two

LEMMA SignInStarts == SignInInit => SignInInv
<1> SUFFICES ASSUME SignInInit PROVE SignInInv
  OBVIOUS
<1> USE SignInAssumption
<1>1. account \in [Users -> Account \union {Nothing}]
  BY DEF SignInInit, Account
<1>2. SignInTyped
  <2>1. provenBy \in [Users -> SUBSET Addresses]
    BY <1>1 DEF SignInInit, Account
  <2>2. session \in [Browsers -> Session]
    BY DEF SignInInit, NoSession, Session
  <2>3. profile \in [Users -> ProfileRow] /\ stored \in [Users -> SUBSET (1 .. issued)]
    BY DEF SignInInit, ProfileRow
  <2>4. QED
    BY <1>1, <2>1, <2>2, <2>3 DEF SignInInit, SignInTyped
<1>3. WritesGood
  BY DEF SignInInit, WritesGood
<1>4. TokensStored
  BY DEF SignInInit, TokensStored
<1>5. FreshLinks
  BY DEF SignInInit, FreshLinks
<1>6. TotpKept /\ DeadLinksStayDead /\ SecondFactorAsked
  BY DEF SignInInit, TotpKept, DeadLinksStayDead, SecondFactorAsked
<1>7. EmailProven
  BY DEF SignInInit, EmailProven, Registered
<1>8. QED
  BY <1>2, <1>3, <1>4, <1>5, <1>6, <1>7 DEF SignInInv

(***************************************************************************)
(* What the writes that are left become.                                   *)
(***************************************************************************)

LEMMA BegunGood ==
    ASSUME SignInInv, HistoryGrows, NEW b \in Browsers,
           NEW writes \in Seq(GoodWrites'), Begin(b, writes)
    PROVE  WritesGood'
<1>1. Seq(GoodWrites) \subseteq Seq(GoodWrites')
  BY WritesGrow, SeqOfMore
<1>2. \A c \in Browsers : todo[c] \in Seq(GoodWrites')
  BY <1>1 DEF SignInInv, WritesGood
<1>3. todo' \in [Browsers -> Seq(GoodWrites')]
  BY <1>2 DEF Begin, SignInInv, WritesGood
<1>4. QED
  BY <1>3 DEF WritesGood

LEMMA KeptGood ==
    ASSUME SignInInv, HistoryGrows, UNCHANGED todo
    PROVE  WritesGood'
<1>1. Seq(GoodWrites) \subseteq Seq(GoodWrites')
  BY WritesGrow, SeqOfMore
<1>2. QED
  BY <1>1 DEF SignInInv, WritesGood

LEMMA ExecutedGood ==
    ASSUME SignInInv, HistoryGrows, NEW b \in Browsers, ~AtRest(b),
           todo' = [todo EXCEPT ![b] = Tail(@)]
    PROVE  WritesGood'
<1>1. Seq(GoodWrites) \subseteq Seq(GoodWrites')
  BY WritesGrow, SeqOfMore
<1>2. Tail(todo[b]) \in Seq(GoodWrites)
  BY DEF SignInInv, WritesGood, AtRest
<1>3. \A c \in Browsers : todo'[c] \in Seq(GoodWrites')
  BY <1>1, <1>2 DEF SignInInv, WritesGood
<1>4. todo' \in [Browsers -> Seq(GoodWrites')]
  BY <1>3 DEF SignInInv, WritesGood
<1>5. QED
  BY <1>4 DEF WritesGood

LEMMA NextWriteGood ==
    ASSUME SignInInv, NEW b \in Browsers, ~AtRest(b)
    PROVE  /\ Head(todo[b]) \in GoodWrites
           /\ Head(todo[b]) = todo[b][1]
           /\ 1 \in DOMAIN todo[b]
BY DEF SignInInv, WritesGood, AtRest

\* A request that begins makes at most one new token, and a new one.
LEMMA BegunFresh ==
    ASSUME SignInInv, NEW b \in Browsers, NEW writes, Begin(b, writes), AtRest(b),
           \A n \in DOMAIN writes : IsLinkWrite(writes[n]) =>
               writes[n].row.token = issued + 1 /\ issued' = issued + 1,
           \A n, m \in DOMAIN writes :
               IsLinkWrite(writes[n]) /\ IsLinkWrite(writes[m]) => n = m,
           issued' \in {issued, issued + 1}, UNCHANGED stored
    PROVE  FreshLinks'
<1>1. \A c \in Browsers : todo'[c] = IF c = b THEN writes ELSE todo[c]
  BY DEF Begin, SignInInv, WritesGood
<1>2. issued \in Nat /\ \A u \in Users : stored[u] \subseteq 1 .. issued
  BY DEF SignInInv, SignInTyped
<1>3. ASSUME NEW c \in Browsers, NEW n \in DOMAIN todo'[c], IsLinkWrite(todo'[c][n])
      PROVE  /\ todo'[c][n].row.token \in 1 .. issued'
             /\ \A u \in Users : todo'[c][n].row.token \notin stored'[u]
             /\ c = b => todo'[c][n].row.token = issued + 1
             /\ c # b => todo'[c][n].row.token <= issued
  <2>1. CASE c = b
    BY <1>1, <1>2, <1>3, <2>1
  <2>2. CASE c # b
    <3>1. todo'[c] = todo[c]
      BY <1>1, <2>2
    <3>2. todo[c][n].row.token \in 1 .. issued
      BY <1>3, <3>1 DEF SignInInv, FreshLinks
    <3>3. \A u \in Users : todo[c][n].row.token \notin stored[u]
      BY <1>3, <3>1 DEF SignInInv, FreshLinks
    <3>4. QED
      BY <1>2, <2>2, <3>1, <3>2, <3>3
  <2>3. QED
    BY <2>1, <2>2
<1>4. ASSUME NEW c \in Browsers, NEW n \in DOMAIN todo'[c], IsLinkWrite(todo'[c][n]),
             NEW d \in Browsers, NEW m \in DOMAIN todo'[d], IsLinkWrite(todo'[d][m]),
             todo'[d][m].row.token = todo'[c][n].row.token
      PROVE  d = c /\ m = n
  <2>1. (c = b) <=> (d = b)
    BY <1>2, <1>3, <1>4
  <2>2. CASE c = b
    BY <1>1, <1>4, <2>1, <2>2
  <2>3. CASE c # b
    <3>1. todo'[c] = todo[c] /\ todo'[d] = todo[d]
      BY <1>1, <2>1, <2>3
    <3>2. QED
      BY <1>4, <3>1 DEF SignInInv, FreshLinks
  <2>4. QED
    BY <2>2, <2>3
<1>5. QED
  BY <1>3, <1>4 DEF FreshLinks

\* A write that is done stores at most the token it made.
LEMMA ExecutedFresh ==
    ASSUME SignInInv, NEW b \in Browsers, ~AtRest(b),
           todo' = [todo EXCEPT ![b] = Tail(@)], UNCHANGED issued,
           \A u \in Users : \A t \in stored'[u] :
               \/ t \in stored[u]
               \/ IsLinkWrite(Head(todo[b])) /\ t = Head(todo[b]).row.token
    PROVE  FreshLinks'
<1> DEFINE Old(c, n) == IF c = b THEN n + 1 ELSE n
<1>1. ASSUME NEW c \in Browsers, NEW n \in DOMAIN todo'[c]
      PROVE  /\ Old(c, n) \in DOMAIN todo[c]
             /\ todo'[c][n] = todo[c][Old(c, n)]
             /\ c = b => Old(c, n) # 1
             /\ n \in Nat
  <2>1. todo[c] \in Seq(GoodWrites) /\ todo[b] \in Seq(GoodWrites) /\ todo[b] # <<>>
    BY DEF SignInInv, WritesGood, AtRest
  <2>2. todo'[c] = IF c = b THEN Tail(todo[b]) ELSE todo[c]
    BY DEF SignInInv, WritesGood
  <2>3. CASE c = b
    <3>1. todo'[c] = Tail(todo[b])
      BY <2>2, <2>3
    <3>2. n \in DOMAIN Tail(todo[b])
      BY <3>1
    <3>3. /\ n \in Nat \ {0} /\ n + 1 \in DOMAIN todo[b]
          /\ Tail(todo[b])[n] = todo[b][n + 1]
      BY <2>1, <3>2, TailOf
    <3>4. todo'[c][n] = todo[c][n + 1] /\ n + 1 \in DOMAIN todo[c]
      BY <2>3, <3>1, <3>3
    <3>5. n + 1 # 1
      BY <3>3
    <3>6. QED
      BY <2>3, <3>3, <3>4, <3>5
  <2>4. CASE c # b
    BY <2>1, <2>2, <2>4
  <2>5. QED
    BY <2>3, <2>4
<1>2. 1 \in DOMAIN todo[b] /\ Head(todo[b]) = todo[b][1]
  BY NextWriteGood
<1>3. ASSUME NEW c \in Browsers, NEW n \in DOMAIN todo'[c], IsLinkWrite(todo'[c][n])
      PROVE  /\ todo'[c][n].row.token \in 1 .. issued'
             /\ \A u \in Users : todo'[c][n].row.token \notin stored'[u]
  <2> DEFINE k == Old(c, n)
  <2>1. k \in DOMAIN todo[c] /\ todo'[c][n] = todo[c][k] /\ (c = b => k # 1)
    BY <1>1
  <2> HIDE DEF k, Old
  <2>2. todo[c][k].row.token \in 1 .. issued
    BY <1>3, <2>1 DEF SignInInv, FreshLinks
  <2>3. \A u \in Users : todo[c][k].row.token \notin stored[u]
    BY <1>3, <2>1 DEF SignInInv, FreshLinks
  <2>4. IsLinkWrite(todo[b][1]) => todo[b][1].row.token # todo[c][k].row.token
    BY <1>2, <1>3, <2>1 DEF SignInInv, FreshLinks
  <2>5. QED
    BY <1>2, <2>1, <2>2, <2>3, <2>4
<1>4. ASSUME NEW c \in Browsers, NEW n \in DOMAIN todo'[c], IsLinkWrite(todo'[c][n]),
             NEW d \in Browsers, NEW m \in DOMAIN todo'[d], IsLinkWrite(todo'[d][m]),
             todo'[d][m].row.token = todo'[c][n].row.token
      PROVE  d = c /\ m = n
  <2>1. /\ Old(c, n) \in DOMAIN todo[c] /\ todo'[c][n] = todo[c][Old(c, n)]
        /\ Old(d, m) \in DOMAIN todo[d] /\ todo'[d][m] = todo[d][Old(d, m)]
    BY <1>1
  <2> HIDE DEF Old
  <2> DEFINE k == Old(c, n)
             l == Old(d, m)
  <2>2. /\ k \in DOMAIN todo[c] /\ IsLinkWrite(todo[c][k])
        /\ l \in DOMAIN todo[d] /\ IsLinkWrite(todo[d][l])
        /\ todo[d][l].row.token = todo[c][k].row.token
    BY <1>4, <2>1
  <2>3. d = c /\ l = k
    <3> HIDE DEF k, l
    <3>1. FreshLinks
      BY DEF SignInInv
    <3>2. QED
      BY <2>2, <3>1 DEF FreshLinks
  <2>4. n \in Nat /\ m \in Nat
    BY <1>1
  <2>5. QED
    BY <2>3, <2>4 DEF Old
<1>5. QED
  BY <1>3, <1>4 DEF FreshLinks

LEMMA KeptFresh ==
    ASSUME SignInInv, UNCHANGED <<todo, issued, stored>>
    PROVE  FreshLinks'
BY DEF SignInInv, FreshLinks

(***************************************************************************)
(* Steps that leave the accounts and profiles as they are.                 *)
(***************************************************************************)

LEMMA QuietStep ==
    ASSUME SignInInv,
           UNCHANGED <<account, profile, stored, dead, restored, enabled, forgone,
                       bypassed>>,
           issued' \in {issued, issued + 1}, links' \subseteq Link,
           session' \in [Browsers -> Session],
           provenBy' \in [Users -> SUBSET Addresses],
           \A u \in Users : provenBy[u] \subseteq provenBy'[u],
           WritesGood', FreshLinks'
    PROVE  SignInInv'
<1>1. SignInTyped'
  <2>1. issued \in Nat /\ issued' \in Nat /\ 1 .. issued \subseteq 1 .. issued'
    BY DEF SignInInv, SignInTyped
  <2>2. stored' \in [Users -> SUBSET (1 .. issued')]
    BY <2>1 DEF SignInInv, SignInTyped
  <2>3. QED
    BY <2>1, <2>2 DEF SignInInv, SignInTyped
<1>2. TokensStored' /\ TotpKept' /\ DeadLinksStayDead' /\ SecondFactorAsked'
  BY DEF SignInInv, TokensStored, TotpKept, DeadLinksStayDead, SecondFactorAsked
<1>3. EmailProven'
  BY DEF SignInInv, EmailProven, Registered
<1>4. QED
  BY <1>1, <1>2, <1>3 DEF SignInInv

\* A request that only begins: what it has left to do is good.
LEMMA BeginStep ==
    ASSUME SignInInv, NEW b \in Browsers, NEW writes \in Seq(GoodWrites'),
           Begin(b, writes), AtRest(b),
           \A n \in DOMAIN writes : IsLinkWrite(writes[n]) =>
               writes[n].row.token = issued + 1 /\ issued' = issued + 1,
           \A n, m \in DOMAIN writes :
               IsLinkWrite(writes[n]) /\ IsLinkWrite(writes[m]) => n = m,
           UNCHANGED <<account, profile, links, stored, dead, restored, enabled,
                       forgone, bypassed>>,
           issued' \in {issued, issued + 1}, session' \in [Browsers -> Session],
           provenBy' \in [Users -> SUBSET Addresses],
           \A u \in Users : provenBy[u] \subseteq provenBy'[u]
    PROVE  SignInInv'
<1>1. HistoryGrows
  BY DEF HistoryGrows
<1>2. WritesGood'
  BY <1>1, BegunGood
<1>3. FreshLinks'
  BY BegunFresh
<1>4. links' \subseteq Link
  BY DEF SignInInv, SignInTyped
<1>5. QED
  BY <1>2, <1>3, <1>4, QuietStep

\* A request that does all it does at once, without a write.
LEMMA AtOnce ==
    ASSUME SignInInv, session' \in [Browsers -> Session],
           UNCHANGED <<account, profile, links, issued, todo, history>>
    PROVE  SignInInv'
<1>1. WritesGood'
  BY KeptGood DEF HistoryGrows, history
<1>2. FreshLinks'
  BY KeptFresh DEF history
<1>3. QED
  BY <1>1, <1>2, QuietStep DEF history, SignInInv, SignInTyped

LEMMA CopySaved ==
    ASSUME SignInInv, NEW u \in Users, NEW row \in ProfileRow,
           NEW why \in {"used", "password", "add", "remove", "settings"},
           row.token \in {profile[u].token, Nothing},
           why \in {"used", "password"} => row.token = Nothing,
           why = "add" => row.totp
    PROVE  SaveProfile(u, why, row) \in GoodWrites /\ ~IsLinkWrite(SaveProfile(u, why, row))
<1>1. row.token \in stored[u] \union {Nothing}
  BY DEF SignInInv, TokensStored
<1>2. SaveProfile(u, why, row) \in ProfileWrites
  BY <1>1 DEF SaveProfile, ProfileWrites
<1>3. QED
  BY <1>2 DEF GoodWrites, IsLinkWrite, SaveProfile

\* The writes of SendLink.
LEMMA LinkSent ==
    ASSUME SignInInv, NEW u \in Users, NEW email \in Addresses \union {Nothing}
    PROVE  LET w == SaveProfile(u, "link", [profile[u] EXCEPT !.token = issued + 1])
               m == Mail(u, issued + 1, email)
           IN
           /\ w \in GoodWrites /\ m \in GoodWrites
           /\ w.row.token = issued + 1 /\ ~IsLinkWrite(m)
           /\ SendLink(u, profile[u], email) = <<w, m>>
<1> DEFINE row == [profile[u] EXCEPT !.token = issued + 1]
<1>1. row \in ProfileRow /\ row.token = issued + 1 /\ row.token \in Nat
  BY DEF SignInInv, SignInTyped, ProfileRow
<1>2. SendLink(u, profile[u], email)
        = <<SaveProfile(u, "link", row), Mail(u, issued + 1, email)>>
  BY DEF SendLink
<1> HIDE DEF row
<1>3. SaveProfile(u, "link", row) \in ProfileWrites
  BY <1>1 DEF SaveProfile, ProfileWrites
<1>4. Mail(u, issued + 1, email) \in MailWrites
  BY DEF Mail, MailWrites, Link, SignInInv, SignInTyped
<1>5. SaveProfile(u, "link", row).row = row
  BY DEF SaveProfile
<1>6. ~IsLinkWrite(Mail(u, issued + 1, email))
  BY DEF IsLinkWrite, Mail
<1>7. QED
  BY <1>1, <1>2, <1>3, <1>4, <1>5, <1>6 DEF GoodWrites, row

LEMMA SecondFactorLookedUp ==
    ASSUME SignInInv, NEW u \in Users
    PROVE  /\ Check2FA(u, profile[u].totp) \in GoodWrites
           /\ ~IsLinkWrite(Check2FA(u, profile[u].totp))
<1>1. profile[u].totp \in BOOLEAN
  BY DEF SignInInv, SignInTyped, ProfileRow
<1>2. "totp" \in Factors(u) /\ ~profile[u].totp => u \in forgone
  BY DEF Factors, SignInInv, TotpKept
<1>3. Factors(u) \subseteq {"key", "totp"}
  BY DEF Factors
<1>4. Check2FA(u, profile[u].totp) \in SignInWrites
  BY <1>1, <1>2, <1>3 DEF Check2FA, SignInWrites
<1>5. QED
  BY <1>4 DEF GoodWrites, IsLinkWrite, Check2FA

(***************************************************************************)
(* The requests that begin.                                                *)
(***************************************************************************)

\* A request that leaves one write, of no link.
LEMMA OneWrite ==
    ASSUME SignInInv, NEW b \in Browsers, NEW w \in GoodWrites, ~IsLinkWrite(w),
           Begin(b, <<w>>), AtRest(b), UNCHANGED <<tables, session, history>>
    PROVE  SignInInv'
<1>1. HistoryGrows
  BY DEF HistoryGrows, history
<1>2. <<w>> \in Seq(GoodWrites')
  BY <1>1, WritesGrow
<1>3. \A n \in DOMAIN <<w>> : ~IsLinkWrite(<<w>>[n])
  OBVIOUS
<1>4. QED
  BY <1>2, <1>3, BeginStep DEF tables, history, SignInInv, SignInTyped

LEMMA PasswordLoginStep ==
    ASSUME SignInInv, NEW b \in Browsers, NEW u \in Users, PasswordLogin(b, u)
    PROVE  SignInInv'
BY SecondFactorLookedUp, OneWrite DEF PasswordLogin

\* A browser that is signed in is signed in to an account.
LEMMA MeIsUser ==
    ASSUME SignInInv, NEW b \in Browsers, Authenticated(b)
    PROVE  /\ Me(b) \in Users /\ account[Me(b)] \in Account
           /\ account[Me(b)].email \in provenBy[Me(b)]
           /\ profile[Me(b)] \in ProfileRow
<1>1. Me(b) \in Users /\ Registered(Me(b))
  BY DEF Authenticated, Me, SignInInv, SignInTyped, Session
<1>2. QED
  BY <1>1 DEF SignInInv, SignInTyped, EmailProven, Registered

LEMMA SettingsStep ==
    ASSUME SignInInv, NEW b \in Browsers, NEW u \in Users, AtRest(b),
           Begin(b, <<SaveProfile(u, "settings", profile[u])>>),
           UNCHANGED <<tables, session, history>>
    PROVE  SignInInv'
<1>1. profile[u] \in ProfileRow
  BY DEF SignInInv, SignInTyped
<1>2. QED
  BY <1>1, CopySaved, OneWrite

LEMMA AddTotpStep ==
    ASSUME SignInInv, NEW b \in Browsers, AddTotp(b)
    PROVE  SignInInv'
<1> DEFINE row == [profile[Me(b)] EXCEPT !.totp = TRUE]
<1>1. Me(b) \in Users /\ profile[Me(b)] \in ProfileRow
  BY MeIsUser DEF AddTotp, InSudo
<1>2. row \in ProfileRow /\ row.token = profile[Me(b)].token /\ row.totp
  BY <1>1 DEF ProfileRow
<1>3. Begin(b, <<SaveProfile(Me(b), "add", row)>>) /\ AtRest(b)
        /\ UNCHANGED <<tables, session, history>>
  BY DEF AddTotp, InSudo
<1> HIDE DEF row
<1>4. QED
  BY <1>1, <1>2, <1>3, CopySaved, OneWrite

LEMMA RemoveTotpStep ==
    ASSUME SignInInv, NEW b \in Browsers, RemoveTotp(b)
    PROVE  SignInInv'
<1> DEFINE row == [profile[Me(b)] EXCEPT !.totp = FALSE]
<1>1. Me(b) \in Users /\ profile[Me(b)] \in ProfileRow
  BY MeIsUser DEF RemoveTotp, InSudo
<1>2. row \in ProfileRow /\ row.token = profile[Me(b)].token
  BY <1>1 DEF ProfileRow
<1>3. Begin(b, <<SaveProfile(Me(b), "remove", row)>>) /\ AtRest(b)
        /\ UNCHANGED <<tables, session, history>>
  BY DEF RemoveTotp, InSudo
<1> HIDE DEF row
<1>4. QED
  BY <1>1, <1>2, <1>3, CopySaved, OneWrite

\* EmailLogin, and ChangeEmail: a link is made.
LEMMA SendLinkStep ==
    ASSUME SignInInv, NEW b \in Browsers, NEW u \in Users, AtRest(b),
           NEW email \in Addresses \union {Nothing},
           Begin(b, SendLink(u, profile[u], email)), issued' = issued + 1,
           UNCHANGED <<account, profile, links, session, history>>
    PROVE  SignInInv'
<1>1. PICK w, m : /\ w \in GoodWrites /\ m \in GoodWrites
                  /\ w.row.token = issued + 1 /\ ~IsLinkWrite(m)
                  /\ SendLink(u, profile[u], email) = <<w, m>>
  BY LinkSent
<1>2. HistoryGrows
  BY DEF HistoryGrows, history
<1>3. <<w, m>> \in Seq(GoodWrites')
  BY <1>1, <1>2, WritesGrow
<1>4. \A n \in DOMAIN <<w, m>> : n \in {1, 2}
  OBVIOUS
<1>5. \A n \in DOMAIN <<w, m>> : IsLinkWrite(<<w, m>>[n]) => n = 1
  BY <1>1, <1>4
<1>6. Begin(b, <<w, m>>)
  BY <1>1
<1>7. \A n \in DOMAIN <<w, m>> : IsLinkWrite(<<w, m>>[n]) =>
          <<w, m>>[n].row.token = issued + 1 /\ issued' = issued + 1
  BY <1>1, <1>5
<1>8. \A n, k \in DOMAIN <<w, m>> :
          IsLinkWrite(<<w, m>>[n]) /\ IsLinkWrite(<<w, m>>[k]) => n = k
  BY <1>5
<1>9. UNCHANGED <<stored, dead, restored, enabled, forgone, bypassed, provenBy>>
  BY DEF history
<1>10. session' \in [Browsers -> Session] /\ provenBy' \in [Users -> SUBSET Addresses]
  BY <1>9 DEF SignInInv, SignInTyped
<1>11. QED
  BY <1>3, <1>6, <1>7, <1>8, <1>9, <1>10, BeginStep

LEMMA SignUpStep ==
    ASSUME SignInInv, NEW b \in Browsers, NEW u \in Users,
           NEW email \in Addresses, SignUp(b, u, email)
    PROVE  SignInInv'
<1> DEFINE i == [op |-> "insert", user |-> u, email |-> email]
<1>1. PICK w, m : /\ w \in GoodWrites /\ m \in GoodWrites
                  /\ w.row.token = issued + 1 /\ ~IsLinkWrite(m)
                  /\ SendLink(u, profile[u], Nothing) = <<w, m>>
  BY LinkSent
<1>2. i \in GoodWrites /\ ~IsLinkWrite(i)
  BY DEF GoodWrites, InsertWrites, IsLinkWrite
<1>3. Begin(b, <<i>> \o <<w, m>>) /\ AtRest(b) /\ issued' = issued + 1
        /\ UNCHANGED <<account, profile, links, session, history>>
  BY <1>1 DEF SignUp
<1> HIDE DEF i
<1>4. HistoryGrows
  BY <1>3 DEF HistoryGrows, history
<1>5. Begin(b, <<i, w, m>>)
  BY <1>3, Joined
<1>6. <<i, w, m>> \in Seq(GoodWrites')
  BY <1>1, <1>2, <1>4, WritesGrow
<1>7. \A n \in DOMAIN <<i, w, m>> : n \in {1, 2, 3}
  OBVIOUS
<1>8. \A n \in DOMAIN <<i, w, m>> : IsLinkWrite(<<i, w, m>>[n]) => n = 2
  BY <1>1, <1>2, <1>7
<1>9. \A n \in DOMAIN <<i, w, m>> : IsLinkWrite(<<i, w, m>>[n]) =>
          <<i, w, m>>[n].row.token = issued + 1 /\ issued' = issued + 1
  BY <1>1, <1>3, <1>8
<1>10. \A n, k \in DOMAIN <<i, w, m>> :
          IsLinkWrite(<<i, w, m>>[n]) /\ IsLinkWrite(<<i, w, m>>[k]) => n = k
  BY <1>8
<1>11. UNCHANGED <<stored, dead, restored, enabled, forgone, bypassed, provenBy>>
  BY <1>3 DEF history
<1>12. session' \in [Browsers -> Session] /\ provenBy' \in [Users -> SUBSET Addresses]
  BY <1>3, <1>11 DEF SignInInv, SignInTyped
<1>13. QED
  BY <1>3, <1>5, <1>6, <1>9, <1>10, <1>11, <1>12, BeginStep

LEMMA SetPasswordStep ==
    ASSUME SignInInv, NEW b \in Browsers, NEW password \in Passwords,
           SetPassword(b, password)
    PROVE  SignInInv'
<1> DEFINE u == Me(b)
           account1 == [account[u] EXCEPT !.password = password]
           profile1 == [profile[u] EXCEPT !.token = Nothing]
           x == SaveUser(u, account1)
           y == SaveProfile(u, "password", profile1)
           z == [op |-> "hash", password |-> password]
<1>1. /\ u \in Users /\ account[u] \in Account
      /\ account[u].email \in provenBy[u] /\ profile[u] \in ProfileRow
  BY MeIsUser DEF SetPassword, InSudo
<1>2. account1 \in Account /\ account1.email \in provenBy[u]
  BY <1>1 DEF Account
<1>3. profile1 \in ProfileRow /\ profile1.token = Nothing
  BY <1>1 DEF ProfileRow
<1>4. Begin(b, <<x, y, z>>) /\ AtRest(b) /\ UNCHANGED <<tables, session, history>>
  BY DEF SetPassword, InSudo
<1> HIDE DEF account1, profile1, u
<1>5. x \in GoodWrites /\ ~IsLinkWrite(x)
  BY <1>1, <1>2 DEF SaveUser, GoodWrites, UserWrites, IsLinkWrite
<1>6. y \in GoodWrites /\ ~IsLinkWrite(y)
  BY <1>1, <1>3, CopySaved
<1>7. z \in GoodWrites /\ ~IsLinkWrite(z)
  BY DEF GoodWrites, HashWrites, IsLinkWrite
<1> HIDE DEF x, y, z
<1>8. HistoryGrows
  BY <1>4 DEF HistoryGrows, history
<1>9. <<x, y, z>> \in Seq(GoodWrites')
  BY <1>5, <1>6, <1>7, <1>8, WritesGrow
<1>10. \A n \in DOMAIN <<x, y, z>> : n \in {1, 2, 3}
  OBVIOUS
<1>11. \A n \in DOMAIN <<x, y, z>> : ~IsLinkWrite(<<x, y, z>>[n])
  BY <1>5, <1>6, <1>7, <1>10
<1>12. QED
  BY <1>4, <1>9, <1>11, BeginStep DEF tables, history, SignInInv, SignInTyped

LEMMA CheckTokenStep ==
    ASSUME SignInInv, NEW b \in Browsers, NEW link \in links, CheckToken(b, link)
    PROVE  SignInInv'
<1> DEFINE u == link.user
           account1 == [account[u] EXCEPT !.email = link.email]
           profile1 == [profile[u] EXCEPT !.token = Nothing]
           x == SaveUser(u, account1)
           y == SaveProfile(u, "used", profile1)
           z == Check2FA(u, profile[u].totp)
           more == IF link.email = Nothing THEN <<>> ELSE <<x>>
<1>1. u \in Users /\ link.email \in Addresses \union {Nothing}
  BY DEF SignInInv, SignInTyped, Link
<1>2. account[u] \in Account /\ profile[u] \in ProfileRow
  BY <1>1 DEF SignInInv, SignInTyped, CheckToken, Registered
<1>3. /\ provenBy' = [provenBy EXCEPT ![u] = @ \union ({link.email} \ {Nothing})]
      /\ session' = [session EXCEPT ![b] = NoSession]
      /\ AtRest(b) /\ Begin(b, more \o <<y, z>>)
      /\ UNCHANGED <<tables, stored, dead, restored, enabled, forgone, bypassed>>
  BY DEF CheckToken
<1>4. /\ provenBy' \in [Users -> SUBSET Addresses]
      /\ \A v \in Users : provenBy[v] \subseteq provenBy'[v]
      /\ link.email # Nothing => link.email \in provenBy'[u]
  BY <1>1, <1>3 DEF SignInInv, SignInTyped
<1>5. session' \in [Browsers -> Session]
  <2>1. NoSession \in Session
    BY DEF NoSession, Session
  <2>2. QED
    BY <1>3, <2>1 DEF SignInInv, SignInTyped
<1>6. HistoryGrows
  BY <1>3, <1>4 DEF HistoryGrows
<1>7. profile1 \in ProfileRow /\ profile1.token = Nothing
  BY <1>2 DEF ProfileRow
<1>8. ASSUME link.email # Nothing
      PROVE  x \in GoodWrites' /\ ~IsLinkWrite(x)
  <2>1. account1 \in Account /\ account1.email = link.email
    BY <1>1, <1>2, <1>8 DEF Account
  <2> HIDE DEF account1
  <2>2. x \in UserWrites'
    BY <1>1, <1>4, <1>8, <2>1 DEF SaveUser, UserWrites
  <2>3. QED
    BY <2>2 DEF GoodWrites, SaveUser, IsLinkWrite
<1> HIDE DEF account1, profile1
<1>9. y \in GoodWrites' /\ ~IsLinkWrite(y)
  BY <1>1, <1>6, <1>7, CopySaved, WritesGrow
<1>10. z \in GoodWrites' /\ ~IsLinkWrite(z)
  BY <1>1, <1>6, SecondFactorLookedUp, WritesGrow
<1> HIDE DEF x, y, z
<1>11. PICK writes \in Seq(GoodWrites') :
         /\ Begin(b, writes)
         /\ \A n \in DOMAIN writes : ~IsLinkWrite(writes[n])
  <2>1. CASE link.email = Nothing
    <3>1. <<y, z>> \in Seq(GoodWrites')
      BY <1>9, <1>10
    <3>2. <<>> \o <<y, z>> = <<y, z>>
      BY <3>1, ConcatEmptySeq
    <3>3. Begin(b, <<y, z>>)
      BY <1>3, <2>1, <3>2
    <3>4. \A n \in DOMAIN <<y, z>> : n \in {1, 2}
      OBVIOUS
    <3>5. \A n \in DOMAIN <<y, z>> : ~IsLinkWrite(<<y, z>>[n])
      BY <1>9, <1>10, <3>4
    <3>6. QED
      BY <3>1, <3>3, <3>5
  <2>2. CASE link.email # Nothing
    <3>1. <<x, y, z>> \in Seq(GoodWrites')
      BY <1>8, <1>9, <1>10, <2>2
    <3>2. Begin(b, <<x, y, z>>)
      BY <1>3, <2>2, Joined
    <3>3. \A n \in DOMAIN <<x, y, z>> : n \in {1, 2, 3}
      OBVIOUS
    <3>4. \A n \in DOMAIN <<x, y, z>> : ~IsLinkWrite(<<x, y, z>>[n])
      BY <1>8, <1>9, <1>10, <2>2, <3>3
    <3>5. QED
      BY <3>1, <3>2, <3>4
  <2>3. QED
    BY <2>1, <2>2
<1>12. QED
  BY <1>3, <1>4, <1>5, <1>11, BeginStep DEF tables, SignInInv, SignInTyped

\* Sessions change, or the keys, and nothing else.
LEMMA SessionStep ==
    ASSUME SignInInv, NEW b \in Browsers,
           \/ LoginTotp(b) \/ LoginWebauthn(b) \/ Logout(b) \/ RequireSudo(b)
           \/ SudoExpires(b) \/ AddWebauthn(b) \/ RemoveCredential(b)
    PROVE  SignInInv'
<1>1. UNCHANGED <<account, profile, links, issued, todo, history>>
  BY DEF LoginTotp, LoginWebauthn, Logout, RequireSudo, SudoExpires, AddWebauthn,
         RemoveCredential, tables
<1>2. session \in [Browsers -> Session] /\ session[b] \in Session
  BY DEF SignInInv, SignInTyped
<1>3. CASE LoginTotp(b) \/ LoginWebauthn(b)
  <2> DEFINE u == session[b].pending.user
             s == [NoSession EXCEPT !.user = u, !.password = account[u].password]
  <2>1. u \in Users /\ account[u] \in Account
    BY <1>2, <1>3 DEF LoginTotp, LoginWebauthn, SecondStep, Registered, Session,
       SignInInv, SignInTyped
  <2>2. s \in Session
    BY <2>1 DEF NoSession, Session, Account
  <2>3. session' = [session EXCEPT ![b] = s]
    BY <1>3 DEF LoginTotp, LoginWebauthn, SignedIn
  <2> HIDE DEF s
  <2>4. QED
    BY <1>1, <1>2, <2>2, <2>3, AtOnce
<1>4. CASE Logout(b)
  <2>1. NoSession \in Session
    BY DEF NoSession, Session
  <2>2. QED
    BY <1>1, <1>2, <1>4, <2>1, AtOnce DEF Logout
<1>5. CASE RequireSudo(b) \/ SudoExpires(b)
  <2>1. PICK sudo \in {"off", "active"} : session' = [session EXCEPT ![b].sudo = sudo]
    BY <1>5 DEF RequireSudo, SudoExpires
  <2>2. [session[b] EXCEPT !.sudo = sudo] \in Session
    BY <1>2 DEF Session
  <2>3. session' = [session EXCEPT ![b] = [session[b] EXCEPT !.sudo = sudo]]
    BY <2>1
  <2>4. session' \in [Browsers -> Session]
    BY <1>2, <2>2, <2>3
  <2>5. QED
    BY <1>1, <2>4, AtOnce
<1>6. CASE AddWebauthn(b) \/ RemoveCredential(b)
  BY <1>1, <1>2, <1>6, AtOnce DEF AddWebauthn, RemoveCredential
<1>7. QED
  BY <1>3, <1>4, <1>5, <1>6

LEMMA CloseStep ==
    ASSUME SignInInv, NEW b \in Browsers, Close(b)
    PROVE  SignInInv'
<1> DEFINE u == Me(b)
           empty == [token |-> Nothing, totp |-> FALSE]
<1>1. u \in Users
  BY MeIsUser DEF Close, InSudo
<1>2. /\ account' = [account EXCEPT ![u] = Nothing]
      /\ profile' = [profile EXCEPT ![u] = empty]
      /\ enabled' = enabled \ {u}
      /\ session' = [session EXCEPT ![b] = NoSession]
      /\ UNCHANGED <<links, issued, todo, stored, dead, restored, forgone, bypassed,
                     provenBy>>
  BY DEF Close
<1>3. empty \in ProfileRow /\ empty.token = Nothing
  BY DEF ProfileRow
<1> HIDE DEF u, empty
<1>4. WritesGood' /\ FreshLinks'
  BY <1>2, KeptGood, KeptFresh DEF HistoryGrows
<1>5. SignInTyped'
  <2>1. NoSession \in Session
    BY DEF NoSession, Session
  <2>2. QED
    BY <1>1, <1>2, <1>3, <2>1 DEF SignInInv, SignInTyped
<1>6. TokensStored' /\ TotpKept'
  BY <1>1, <1>2, <1>3 DEF SignInInv, SignInTyped, TokensStored, TotpKept
<1>7. DeadLinksStayDead'
  <2>1. Nothing \notin dead
    BY SignInAssumption DEF SignInInv, SignInTyped, TokensStored
  <2>2. QED
    BY <1>1, <1>2, <1>3, <2>1 DEF SignInInv, SignInTyped, DeadLinksStayDead
<1>8. SecondFactorAsked' /\ EmailProven'
  BY <1>1, <1>2 DEF SignInInv, SignInTyped, SecondFactorAsked, EmailProven, Registered
<1>9. QED
  BY <1>4, <1>5, <1>6, <1>7, <1>8 DEF SignInInv

LEMMA FailStep ==
    ASSUME SignInInv, NEW b \in Browsers, Fail(b)
    PROVE  SignInInv'
<1>1. todo' = [todo EXCEPT ![b] = <<>>] /\ UNCHANGED <<tables, session, history>>
  BY DEF Fail, Begin
<1>2. \A c \in Browsers : todo'[c] = IF c = b THEN <<>> ELSE todo[c]
  BY <1>1 DEF SignInInv, WritesGood
<1>3. WritesGood'
  <2>1. <<>> \in Seq(GoodWrites') /\ Begin(b, <<>>)
    BY <1>1 DEF Begin
  <2>2. HistoryGrows
    BY <1>1 DEF HistoryGrows, history
  <2>3. QED
    BY <2>1, <2>2, BegunGood
<1>4. FreshLinks'
  <2>1. SUFFICES ASSUME NEW c \in Browsers, NEW n \in DOMAIN todo'[c],
                        IsLinkWrite(todo'[c][n])
                 PROVE  /\ todo'[c][n].row.token \in 1 .. issued
                        /\ \A u \in Users : todo'[c][n].row.token \notin stored[u]
                        /\ \A d \in Browsers : \A m \in DOMAIN todo'[d] :
                              IsLinkWrite(todo'[d][m])
                                /\ todo'[d][m].row.token = todo'[c][n].row.token
                              => d = c /\ m = n
    BY <1>1 DEF FreshLinks, tables, history
  <2>2. c # b /\ todo'[c] = todo[c]
    BY <1>2, <2>1
  <2>3. QED
    BY <1>2, <2>1, <2>2 DEF SignInInv, FreshLinks
<1>5. QED
  BY <1>1, <1>3, <1>4, QuietStep DEF tables, history, SignInInv, SignInTyped

(***************************************************************************)
(* The writes, when they are done.                                         *)
(***************************************************************************)

LEMMA WritesByOp ==
    ASSUME NEW w \in GoodWrites
    PROVE  /\ w.op = "user"    => w \in UserWrites
           /\ w.op = "profile" => w \in ProfileWrites
           /\ w.op = "mail"    => w \in MailWrites
           /\ w.op = "insert"  => w \in InsertWrites
           /\ w.op = "signIn"  => w \in SignInWrites
           /\ w.op = "hash"    => w \in HashWrites
BY DEF GoodWrites, UserWrites, ProfileWrites, MailWrites, InsertWrites, SignInWrites,
       HashWrites

\* A write that is no link leaves what is left to do good.
LEMMA ExecutedRest ==
    ASSUME SignInInv, HistoryGrows, NEW b \in Browsers, ~AtRest(b),
           todo' = [todo EXCEPT ![b] = Tail(@)], UNCHANGED <<issued, stored>>
    PROVE  WritesGood' /\ FreshLinks'
BY ExecutedGood, ExecutedFresh

LEMMA ExecUserStep ==
    ASSUME SignInInv, NEW b \in Browsers, ~AtRest(b), NEW w \in UserWrites,
           ExecUser(b, w), todo' = [todo EXCEPT ![b] = Tail(@)]
    PROVE  SignInInv'
<1>1. w.user \in Users /\ w.row \in Account /\ w.row.email \in provenBy[w.user]
  BY DEF UserWrites
<1>2. /\ account' = [account EXCEPT ![w.user] = w.row]
      /\ UNCHANGED <<profile, session, links, issued, history>>
  BY DEF ExecUser
<1>3. WritesGood' /\ FreshLinks'
  BY <1>2, ExecutedRest DEF HistoryGrows, history
<1>4. SignInTyped'
  BY <1>1, <1>2 DEF SignInInv, SignInTyped, history
<1>5. TokensStored' /\ TotpKept' /\ DeadLinksStayDead' /\ SecondFactorAsked'
  BY <1>2 DEF SignInInv, TokensStored, TotpKept, DeadLinksStayDead, SecondFactorAsked,
     history
<1>6. EmailProven'
  BY <1>1, <1>2 DEF SignInInv, SignInTyped, EmailProven, Registered, history
<1>7. QED
  BY <1>3, <1>4, <1>5, <1>6 DEF SignInInv

LEMMA ExecInsertStep ==
    ASSUME SignInInv, NEW b \in Browsers, ~AtRest(b), NEW w \in InsertWrites,
           ExecInsert(b, w), todo' = [todo EXCEPT ![b] = Tail(@)]
    PROVE  SignInInv'
<1> DEFINE row == [email |-> w.email, password |-> Nothing]
<1>1. w.user \in Users /\ w.email \in Addresses
  BY DEF InsertWrites
<1>2. /\ account' = [account EXCEPT ![w.user] = row]
      /\ provenBy' = [provenBy EXCEPT ![w.user] = @ \union {w.email}]
      /\ UNCHANGED <<profile, session, links, issued, stored, dead, restored, enabled,
                     forgone, bypassed>>
  BY DEF ExecInsert
<1>3. row \in Account /\ row.email = w.email
  BY <1>1 DEF Account
<1> HIDE DEF row
<1>4. /\ provenBy' \in [Users -> SUBSET Addresses]
      /\ \A u \in Users : provenBy[u] \subseteq provenBy'[u]
      /\ w.email \in provenBy'[w.user]
  BY <1>1, <1>2 DEF SignInInv, SignInTyped
<1>5. WritesGood' /\ FreshLinks'
  BY <1>2, <1>4, ExecutedRest DEF HistoryGrows
<1>6. SignInTyped'
  BY <1>1, <1>2, <1>3, <1>4 DEF SignInInv, SignInTyped
<1>7. TokensStored' /\ TotpKept' /\ DeadLinksStayDead' /\ SecondFactorAsked'
  BY <1>2 DEF SignInInv, TokensStored, TotpKept, DeadLinksStayDead, SecondFactorAsked
<1>8. EmailProven'
  BY <1>1, <1>2, <1>3, <1>4 DEF SignInInv, SignInTyped, EmailProven, Registered
<1>9. QED
  BY <1>5, <1>6, <1>7, <1>8 DEF SignInInv

LEMMA ExecMailStep ==
    ASSUME SignInInv, NEW b \in Browsers, ~AtRest(b), NEW w \in MailWrites,
           ExecMail(b, w), todo' = [todo EXCEPT ![b] = Tail(@)]
    PROVE  SignInInv'
<1>1. /\ links' = links \union {w.link} /\ w.link \in Link
      /\ UNCHANGED <<account, profile, session, issued, history>>
  BY DEF ExecMail, MailWrites
<1>2. WritesGood' /\ FreshLinks'
  BY <1>1, ExecutedRest DEF HistoryGrows, history
<1>3. QED
  BY <1>1, <1>2, QuietStep DEF history, SignInInv, SignInTyped

LEMMA ExecHashStep ==
    ASSUME SignInInv, NEW b \in Browsers, ~AtRest(b), NEW w \in HashWrites,
           ExecHash(b, w), todo' = [todo EXCEPT ![b] = Tail(@)]
    PROVE  SignInInv'
<1>1. /\ session' = [session EXCEPT ![b].password = w.password]
      /\ w.password \in Passwords
      /\ UNCHANGED <<account, profile, links, issued, history>>
  BY DEF ExecHash, HashWrites, tables
<1>2. session \in [Browsers -> Session] /\ session[b] \in Session
  BY DEF SignInInv, SignInTyped
<1>3. [session[b] EXCEPT !.password = w.password] \in Session
  BY <1>1, <1>2 DEF Session
<1>4. session' \in [Browsers -> Session]
  BY <1>1, <1>2, <1>3
<1>5. WritesGood' /\ FreshLinks'
  BY <1>1, ExecutedRest DEF HistoryGrows, history
<1>6. QED
  BY <1>1, <1>4, <1>5, QuietStep DEF history, SignInInv, SignInTyped

\* Who is signed in without the second factor that was there all along has lost it.
LEMMA ExecSignInStep ==
    ASSUME SignInInv, NEW b \in Browsers, ~AtRest(b), NEW w \in SignInWrites,
           ExecSignIn(b, w), todo' = [todo EXCEPT ![b] = Tail(@)]
    PROVE  SignInInv'
<1>1. w.user \in Users /\ account[w.user] \in Account
  BY DEF SignInWrites, ExecSignIn, Registered, SignInInv, SignInTyped
<1>2. UNCHANGED <<account, profile, links, issued, stored, dead, restored, enabled,
                  forgone, provenBy>>
  BY DEF ExecSignIn, tables
<1>3. session \in [Browsers -> Session] /\ session[b] \in Session
  BY DEF SignInInv, SignInTyped
<1>4. session' \in [Browsers -> Session]
  <2> DEFINE pending == [user |-> w.user, email |-> account[w.user].email]
             s == [session[b] EXCEPT !.pending = pending]
             t == [NoSession EXCEPT !.user = w.user, !.password = account[w.user].password]
  <2>1. pending \in [user : Users, email : Addresses]
    BY <1>1 DEF Account
  <2> HIDE DEF pending
  <2>2. s \in Session
    BY <1>3, <2>1 DEF Session
  <2>3. t \in Session
    BY <1>1 DEF NoSession, Session, Account
  <2>4. session' = [session EXCEPT ![b] = s] \/ session' = [session EXCEPT ![b] = t]
    BY DEF ExecSignIn, SignedIn, pending
  <2> HIDE DEF s, t
  <2>5. QED
    BY <1>3, <2>2, <2>3, <2>4
<1>5. WritesGood' /\ FreshLinks'
  BY <1>2, ExecutedRest DEF HistoryGrows
<1>6. SecondFactorAsked'
  <2>1. bypassed' \subseteq bypassed \union {w.user}
    BY DEF ExecSignIn
  <2>2. CASE w.user \in forgone
    BY <1>2, <2>1, <2>2 DEF SignInInv, SecondFactorAsked
  <2>3. CASE w.user \notin forgone
    <3>1. "totp" \in w.factors => w.totp
      BY <2>3 DEF SignInWrites
    <3>2. w.factors \subseteq {"key", "totp"}
      BY DEF SignInWrites
    <3>3. w.user \notin keys => w.factors \intersect Factors(w.user) \subseteq {"totp"}
      BY <3>2 DEF Factors
    <3>4. bypassed' = bypassed
      BY <3>1, <3>3 DEF ExecSignIn
    <3>5. QED
      BY <1>2, <3>4 DEF SignInInv, SecondFactorAsked
  <2>4. QED
    BY <2>2, <2>3
<1>7. TokensStored' /\ TotpKept' /\ DeadLinksStayDead' /\ EmailProven'
  BY <1>2 DEF SignInInv, TokensStored, TotpKept, DeadLinksStayDead, EmailProven,
     Registered
<1>8. SignInTyped'
  BY <1>2, <1>4 DEF SignInInv, SignInTyped
<1>9. QED
  BY <1>5, <1>6, <1>7, <1>8 DEF SignInInv

\* A save of a profile: its token is a new one, one stored before, or none.
LEMMA ExecProfileStep ==
    ASSUME SignInInv, NEW b \in Browsers, ~AtRest(b), NEW w \in ProfileWrites,
           w = Head(todo[b]), ExecProfile(b, w), todo' = [todo EXCEPT ![b] = Tail(@)]
    PROVE  SignInInv'
<1> DEFINE u == w.user
           was == profile[u]
           token == w.row.token
<1>1. /\ u \in Users /\ w.row \in ProfileRow
      /\ w.op = "profile"
      /\ w.why # "link" => token \in stored[u] \union {Nothing}
      /\ w.why = "link" => token \in Nat
      /\ w.why \in {"used", "password"} => token = Nothing
      /\ w.why = "add" => w.row.totp
  BY DEF ProfileWrites
<1>2. /\ profile' = [profile EXCEPT ![u] = w.row]
      /\ stored' = [stored EXCEPT ![u] = @ \union ({token} \ {Nothing})]
      /\ dead' = IF w.why \in {"link", "used", "password"}
                 THEN dead \union stored[u] ELSE dead
      /\ restored' = IF w.why = "link" \/ token = was.token
                     THEN restored ELSE restored \union {token}
      /\ enabled' = CASE w.why = "add"    -> enabled \union {u}
                      [] w.why = "remove" -> enabled \ {u}
                      [] OTHER            -> enabled
      /\ forgone' = IF w.why # "remove" /\ was.totp /\ ~w.row.totp
                    THEN forgone \union {u} ELSE forgone
      /\ UNCHANGED <<account, session, links, issued, bypassed, provenBy>>
  BY DEF ExecProfile
<1>3. /\ IsLinkWrite(w) <=> w.why = "link"
      /\ w = todo[b][1] /\ 1 \in DOMAIN todo[b]
  BY <1>1, NextWriteGood DEF IsLinkWrite
<1>4. w.why = "link" => token \in 1 .. issued /\ \A v \in Users : token \notin stored[v]
  BY <1>3 DEF SignInInv, FreshLinks
<1>5. \A v \in Users : stored[v] \subseteq 1 .. issued
  BY DEF SignInInv, SignInTyped
<1>6. Nothing \notin 1 .. issued
  BY SignInAssumption DEF SignInInv, SignInTyped
<1>7. token # Nothing => token \in 1 .. issued
  BY <1>1, <1>4, <1>5
<1> HIDE DEF u, was, token
<1>8. /\ \A v \in Users : stored[v] \subseteq stored'[v]
      /\ \A v \in Users : stored'[v] = IF v = u THEN stored[u] \union ({token} \ {Nothing})
                                       ELSE stored[v]
  BY <1>1, <1>2 DEF SignInInv, SignInTyped
<1>9. HistoryGrows
  BY <1>2, <1>8 DEF HistoryGrows
<1>10. WritesGood'
  BY <1>9, ExecutedGood
<1>11. FreshLinks'
  <2>1. \A v \in Users : \A t \in stored'[v] :
           t \in stored[v] \/ (IsLinkWrite(w) /\ t = w.row.token)
    BY <1>1, <1>3, <1>8 DEF token
  <2>2. QED
    BY <1>2, <2>1, ExecutedFresh
<1>12. SignInTyped'
  <2>1. stored' \in [Users -> SUBSET (1 .. issued)]
    BY <1>1, <1>2, <1>7 DEF SignInInv, SignInTyped
  <2>2. enabled' \subseteq Users
    BY <1>1, <1>2 DEF SignInInv, SignInTyped
  <2>3. profile' \in [Users -> ProfileRow]
    BY <1>1, <1>2 DEF SignInInv, SignInTyped
  <2>4. QED
    BY <1>2, <2>1, <2>2, <2>3 DEF SignInInv, SignInTyped
<1>13. \A v \in Users : profile'[v] = IF v = u THEN w.row ELSE profile[v]
  BY <1>1, <1>2 DEF SignInInv, SignInTyped
<1>14. \A x, y \in Users : x # y => stored'[x] \intersect stored'[y] = {}
  <2>1. SUFFICES ASSUME NEW x \in Users, NEW y \in Users, x # y,
                        NEW t \in stored'[x], t \in stored'[y]
                 PROVE  FALSE
    OBVIOUS
  <2>2. ~(t \in stored[x] /\ t \in stored[y])
    BY <2>1 DEF SignInInv, TokensStored
  <2>3. t = token /\ t # Nothing /\ (x = u \/ y = u)
    BY <1>8, <2>1, <2>2
  <2>4. CASE w.why = "link"
    BY <1>4, <1>8, <2>1, <2>3, <2>4
  <2>5. CASE w.why # "link"
    <3>1. token \in stored[u]
      BY <1>1, <2>3, <2>5 DEF token, u
    <3>2. QED
      BY <1>8, <2>1, <2>2, <2>3, <3>1
  <2>6. QED
    BY <2>4, <2>5
<1>15. TokensStored'
  <2>1. \A v \in Users : profile'[v].token \in stored'[v] \union {Nothing}
    BY <1>8, <1>13 DEF token, SignInInv, TokensStored
  <2>2. dead' \subseteq UNION {stored'[v] : v \in Users}
    BY <1>1, <1>2, <1>8 DEF SignInInv, TokensStored
  <2>3. QED
    BY <1>14, <2>1, <2>2 DEF TokensStored
<1>16. TotpKept'
  BY <1>1, <1>2, <1>13 DEF was, SignInInv, TotpKept
<1>17. DeadLinksStayDead'
  <2>1. SUFFICES ASSUME NEW v \in Users, profile'[v].token \in dead',
                        profile'[v].token \notin restored'
                 PROVE  FALSE
    BY DEF DeadLinksStayDead
  <2>2. restored \subseteq restored'
    BY <1>2
  <2>3. Nothing \notin dead'
    BY <1>2, <1>5, <1>6, <1>1 DEF SignInInv, TokensStored
  <2>4. dead' \subseteq dead \union stored[u]
    BY <1>2
  <2>5. CASE v # u
    <3>1. profile'[v].token = profile[v].token /\ profile[v].token \notin stored[u]
      BY <1>1, <1>13, <2>1, <2>3, <2>5 DEF SignInInv, TokensStored
    <3>2. QED
      BY <2>1, <2>2, <2>4, <3>1 DEF SignInInv, DeadLinksStayDead
  <2>6. CASE v = u
    <3>1. profile'[v].token = token
      BY <1>13, <2>6 DEF token
    <3>2. CASE w.why = "link"
      <4>1. \A x \in Users : token \notin stored[x]
        BY <1>4, <3>2 DEF token
      <4>2. QED
        BY <1>1, <2>1, <2>4, <3>1, <4>1 DEF SignInInv, TokensStored
    <3>3. CASE w.why \in {"used", "password"}
      BY <1>1, <2>1, <2>3, <3>1, <3>3 DEF token
    <3>4. CASE w.why \notin {"link", "used", "password"}
      <4>1. dead' = dead /\ token = was.token
        BY <1>2, <2>1, <3>1, <3>4
      <4>2. was.token \in dead /\ was.token \notin restored
        BY <2>1, <2>2, <3>1, <4>1
      <4>3. QED
        BY <1>1, <4>2 DEF was, SignInInv, DeadLinksStayDead
    <3>5. QED
      BY <3>2, <3>3, <3>4
  <2>7. QED
    BY <2>5, <2>6
<1>18. SecondFactorAsked' /\ EmailProven'
  BY <1>2 DEF SignInInv, SecondFactorAsked, EmailProven, Registered
<1>19. QED
  BY <1>10, <1>11, <1>12, <1>15, <1>16, <1>17, <1>18 DEF SignInInv

LEMMA ExecStep ==
    ASSUME SignInInv, NEW b \in Browsers, Exec(b)
    PROVE  SignInInv'
<1> DEFINE w == Head(todo[b])
<1>1. /\ ~AtRest(b) /\ todo' = [todo EXCEPT ![b] = Tail(@)]
      /\ \/ w.op = "user"    /\ ExecUser(b, w)
         \/ w.op = "profile" /\ ExecProfile(b, w)
         \/ w.op = "mail"    /\ ExecMail(b, w)
         \/ w.op = "insert"  /\ ExecInsert(b, w)
         \/ w.op = "signIn"  /\ ExecSignIn(b, w)
         \/ w.op = "hash"    /\ ExecHash(b, w)
  BY DEF Exec
<1>2. w \in GoodWrites
  BY <1>1, NextWriteGood
<1> HIDE DEF w
<1>3. CASE w.op = "user" /\ ExecUser(b, w)
  BY <1>1, <1>2, <1>3, WritesByOp, ExecUserStep
<1>4. CASE w.op = "profile" /\ ExecProfile(b, w)
  <2>1. w = Head(todo[b])
    BY DEF w
  <2>2. QED
    BY <1>1, <1>2, <1>4, <2>1, WritesByOp, ExecProfileStep
<1>5. CASE w.op = "mail" /\ ExecMail(b, w)
  BY <1>1, <1>2, <1>5, WritesByOp, ExecMailStep
<1>6. CASE w.op = "insert" /\ ExecInsert(b, w)
  BY <1>1, <1>2, <1>6, WritesByOp, ExecInsertStep
<1>7. CASE w.op = "signIn" /\ ExecSignIn(b, w)
  BY <1>1, <1>2, <1>7, WritesByOp, ExecSignInStep
<1>8. CASE w.op = "hash" /\ ExecHash(b, w)
  BY <1>1, <1>2, <1>8, WritesByOp, ExecHashStep
<1>9. QED
  BY <1>1, <1>3, <1>4, <1>5, <1>6, <1>7, <1>8

LEMMA PageRequestStep ==
    ASSUME SignInInv, NEW b \in Browsers, PageRequest(b)
    PROVE  SignInInv'
<1>1. ASSUME NEW u \in Users, PasswordLogin(b, u) PROVE SignInInv'
  BY <1>1, PasswordLoginStep
<1>2. ASSUME NEW u \in Users, EmailLogin(b, u) PROVE SignInInv'
  <2>1. Nothing \in Addresses \union {Nothing}
    OBVIOUS
  <2>2. QED
    BY <1>2, <2>1, SendLinkStep DEF EmailLogin
<1>3. ASSUME NEW u \in Users, UnsubscribeReports(b, u) PROVE SignInInv'
  BY <1>3, SettingsStep DEF UnsubscribeReports
<1>4. ASSUME NEW u \in Users, NEW email \in Addresses, SignUp(b, u, email)
      PROVE SignInInv'
  BY <1>4, SignUpStep
<1>5. ASSUME NEW link \in links, CheckToken(b, link) PROVE SignInInv'
  BY <1>5, CheckTokenStep
<1>6. ASSUME NEW password \in Passwords, SetPassword(b, password) PROVE SignInInv'
  BY <1>6, SetPasswordStep
<1>7. ASSUME NEW email \in Addresses, ChangeEmail(b, email) PROVE SignInInv'
  <2>1. Me(b) \in Users /\ email \in Addresses \union {Nothing}
    BY <1>7, MeIsUser DEF ChangeEmail, InSudo
  <2>2. QED
    BY <1>7, <2>1, SendLinkStep DEF ChangeEmail, InSudo
<1>8. CASE Appearance(b)
  <2>1. Me(b) \in Users
    BY <1>8, MeIsUser DEF Appearance
  <2>2. QED
    BY <1>8, <2>1, SettingsStep DEF Appearance
<1>9. CASE AddTotp(b) \/ RemoveTotp(b)
  BY <1>9, AddTotpStep, RemoveTotpStep
<1>10. CASE Close(b)
  BY <1>10, CloseStep
<1>11. CASE \/ LoginTotp(b) \/ LoginWebauthn(b) \/ Logout(b) \/ RequireSudo(b)
            \/ AddWebauthn(b) \/ RemoveCredential(b)
  BY <1>11, SessionStep
<1>12. QED
  BY <1>1, <1>2, <1>3, <1>4, <1>5, <1>6, <1>7, <1>8, <1>9, <1>10, <1>11
     DEF PageRequest

LEMMA SignInStep ==
    ASSUME SignInInv, [SignInNext]_signInVars
    PROVE  SignInInv'
<1>1. ASSUME NEW b \in Browsers, Exec(b) \/ Fail(b) \/ SudoExpires(b) \/ PageRequest(b)
      PROVE  SignInInv'
  BY <1>1, ExecStep, FailStep, SessionStep, PageRequestStep
<1>2. CASE UNCHANGED signInVars
  BY <1>2, AtOnce DEF signInVars, history, SignInInv, SignInTyped
<1>3. QED
  BY <1>1, <1>2 DEF SignInNext

THEOREM SignInKept == SignInSpec => []SignInInv
<1>1. SignInInit => SignInInv
  BY SignInStarts
<1>2. SignInInv /\ [SignInNext]_signInVars => SignInInv'
  BY SignInStep
<1>3. QED
  BY <1>1, <1>2, PTL DEF SignInSpec

\* A link that was used, or replaced, or mailed before the password changed, signs
\* nobody in, unless the save of a profile read before puts it back (check_token,
\* prepare_token, set_password).
THEOREM LinksStayDead == SignInSpec => []DeadLinksStayDead
<1>1. SignInInv => DeadLinksStayDead
  BY DEF SignInInv
<1>2. QED
  BY <1>1, SignInKept, PTL

\* Nobody signs in without a second factor the account had from the look at it to
\* the end, unless the save of an old profile took it away (_check_2fa).
THEOREM SecondFactorIsAsked == SignInSpec => []SecondFactorAsked
<1>1. SignInInv => SecondFactorAsked
  BY DEF SignInInv
<1>2. QED
  BY <1>1, SignInKept, PTL

\* An account has the address it signed up with, or one a link was followed from,
\* also after an old row of it was saved (change_email, check_token, set_password).
THEOREM EmailIsProven == SignInSpec => []EmailProven
<1>1. SignInInv => EmailProven
  BY DEF SignInInv
<1>2. QED
  BY <1>1, SignInKept, PTL

(***************************************************************************)
(* Projects: the statements that requests have left.                       *)
(***************************************************************************)

\* The owner of a copy that is saved founded the project, or was asked.
ProjectSaves ==
    {w \in [do : {"saveProject"}, p : ProjectIds, row : ProjectRow] :
        w.row.owner \in founder[w.p] \union asked[w.p]}

Accepts ==
    {w \in [do : {"accept"}, i : MemberIds, p : ProjectIds, row : MemberRow,
            project : ProjectRow, used : Nat, count : Nat] :
        /\ w.project.owner \in asked[w.p]
        /\ w.row.project = w.p /\ ~w.row.asked
        /\ w.used + w.count <= CheckLimit}

MemberInserts == {w \in [do : {"insertMember"}, row : MemberRow] : ~w.row.asked}
MemberSaves == [do : {"saveMember"}, i : MemberIds, row : MemberRow]
MemberDeletes == [do : {"deleteMember"}, user : People, p : ProjectIds]
AskedClears == [do : {"clearAsked"}, p : ProjectIds]

\* There was room for the check when the request began.
CheckInserts ==
    {w \in [do : {"insertCheck"}, c : Checks, p : ProjectIds,
            limit : {CheckLimit, 2 * CheckLimit}, used : Nat, owner : People] :
        w.used < w.limit}
CheckMoves ==
    {w \in [do : {"moveCheck"}, c : Checks, p : ProjectIds, owner : People,
            from : People, used : Nat] :
        w.from # w.owner => w.used < CheckLimit}
CheckDeletes == [do : {"deleteCheck"}, c : Checks]
ProjectDeletes == [do : {"deleteProject"}, p : ProjectIds]

Assignments == [do : {"assign"}, c : Checks, channels : SUBSET Hooks, add : BOOLEAN]
AssignmentsOfAll == [do : {"assignAll"}, c : Checks, p : ProjectIds]
Switches == [do : {"switch"}, c : Checks, h : Hooks, on : BOOLEAN]
CheckAssignments ==
    [do : {"assignChecks"}, h : Hooks, p : ProjectIds, checks : SUBSET Checks,
     add : BOOLEAN]
ChannelInserts == [do : {"insertChannel"}, h : Hooks, p : ProjectIds]

GoodSteps ==
    ProjectSaves \union Accepts \union MemberInserts \union MemberSaves
        \union MemberDeletes \union AskedClears \union CheckInserts
        \union CheckMoves \union CheckDeletes \union ProjectDeletes
        \union Assignments \union AssignmentsOfAll \union Switches
        \union CheckAssignments \union ChannelInserts

ProjectsTyped ==
    /\ project \in [ProjectIds -> ProjectRow \union {Gone}]
    /\ member \in [MemberIds -> MemberRow \union {Gone}]
    /\ home \in [Checks -> ProjectIds \union {Gone}]
    /\ place \in [Hooks -> ProjectIds \union {Gone}]
    /\ wired \subseteq Checks \X Hooks
    /\ keysMade \in Nat
    /\ asked \in [ProjectIds -> SUBSET People]
    /\ founder \in [ProjectIds -> SUBSET People]

StepsGood == steps \in [Slots -> Seq(GoodSteps)]

\* A member is of a project that exists, and was asked when the row says so.
MembersKept ==
    \A i \in MemberIds : member[i] # Gone =>
        /\ Live(member[i].project)
        /\ member[i].asked => member[i].user \in asked[member[i].project]

OwnerInv == ProjectsTyped /\ StepsGood /\ MembersKept /\ OwnerWasAsked

LEMMA ProjectsStart == ProjectsInit => OwnerInv
<1> SUFFICES ASSUME ProjectsInit PROVE OwnerInv
  OBVIOUS
<1> USE ProjectsAssumption
<1>1. project \in [ProjectIds -> ProjectRow \union {Gone}]
  <2>1. \A p \in DOMAIN FirstOwner : [owner |-> FirstOwner[p], key |-> NoKey] \in ProjectRow
    BY DEF ProjectRow, NoKey
  <2>2. QED
    BY <2>1 DEF ProjectsInit
<1>2. \A p \in DOMAIN FirstOwner : Live(p)
  <2>1. \A p \in DOMAIN FirstOwner : [owner |-> FirstOwner[p], key |-> NoKey] \in ProjectRow
    BY DEF ProjectRow, NoKey
  <2>2. QED
    BY <2>1 DEF ProjectsInit, Live
<1>3. /\ member \in [MemberIds -> MemberRow \union {Gone}]
      /\ \A i \in MemberIds : member[i] # Gone =>
            Live(member[i].project) /\ ~member[i].asked
  <2>1. PICK m \in FirstMembers :
          member = [i \in MemberIds |-> IF i \in DOMAIN m
                      THEN [user |-> m[i].user, project |-> m[i].project,
                            role |-> m[i].role, asked |-> FALSE] ELSE Gone]
    BY DEF ProjectsInit
  <2>2. ASSUME NEW i \in DOMAIN m
        PROVE  /\ [user |-> m[i].user, project |-> m[i].project,
                   role |-> m[i].role, asked |-> FALSE] \in MemberRow
               /\ Live(m[i].project)
    BY <1>2, <2>2 DEF MemberRow
  <2>3. QED
    BY <2>1, <2>2
<1>4. /\ home \in [Checks -> ProjectIds \union {Gone}]
      /\ place \in [Hooks -> ProjectIds \union {Gone}]
      /\ founder \in [ProjectIds -> SUBSET People]
  BY <1>1 DEF ProjectsInit, ProjectRow
<1>5. ProjectsTyped
  BY <1>1, <1>3, <1>4 DEF ProjectsInit, ProjectsTyped
<1>6. StepsGood /\ OwnerWasAsked
  BY DEF ProjectsInit, StepsGood, OwnerWasAsked, Live
<1>7. MembersKept
  BY <1>3 DEF MembersKept
<1>8. QED
  BY <1>5, <1>6, <1>7 DEF OwnerInv

\* Who founded a project, or was asked, has done so for ever.
AskedGrows ==
    \A p \in ProjectIds : founder[p] \subseteq founder'[p] /\ asked[p] \subseteq asked'[p]

LEMMA StepsGrow ==
    ASSUME AskedGrows
    PROVE  GoodSteps \subseteq GoodSteps'
<1>1. ProjectSaves \subseteq ProjectSaves'
  BY DEF AskedGrows, ProjectSaves
<1>2. Accepts \subseteq Accepts'
  BY DEF AskedGrows, Accepts
<1>3. QED
  BY <1>1, <1>2 DEF GoodSteps, MemberInserts, MemberSaves, MemberDeletes, AskedClears,
     CheckInserts, CheckMoves, CheckDeletes, ProjectDeletes, Assignments,
     AssignmentsOfAll, Switches, CheckAssignments, ChannelInserts

LEMMA StepsLeft ==
    ASSUME OwnerInv, AskedGrows, NEW q \in Slots, NEW left \in Seq(GoodSteps'),
           steps' = [steps EXCEPT ![q] = left]
    PROVE  StepsGood'
<1>1. Seq(GoodSteps) \subseteq Seq(GoodSteps')
  BY StepsGrow, SeqOfMore
<1>2. \A r \in Slots : steps'[r] \in Seq(GoodSteps')
  BY <1>1 DEF OwnerInv, StepsGood
<1>3. steps' \in [Slots -> Seq(GoodSteps')]
  BY <1>2 DEF OwnerInv, StepsGood
<1>4. QED
  BY <1>3 DEF StepsGood

LEMMA StepDone ==
    ASSUME OwnerInv, AskedGrows, NEW q \in Slots, steps[q] # <<>>,
           steps' = [steps EXCEPT ![q] = Tail(@)]
    PROVE  StepsGood'
<1>1. Tail(steps[q]) \in Seq(GoodSteps)
  BY DEF OwnerInv, StepsGood
<1>2. Tail(steps[q]) \in Seq(GoodSteps')
  BY <1>1, StepsGrow, SeqOfMore
<1>3. steps' = [steps EXCEPT ![q] = Tail(steps[q])]
  OBVIOUS
<1>4. QED
  BY <1>2, <1>3, StepsLeft

\* A request that starts changes no row.
LEMMA StartStep ==
    ASSUME OwnerInv, NEW q \in Slots, NEW left \in Seq(GoodSteps'),
           steps' = [steps EXCEPT ![q] = left], UNCHANGED <<rows, asked>>,
           keysMade' \in Nat, founder' \in [ProjectIds -> SUBSET People],
           \A p \in ProjectIds : founder[p] \subseteq founder'[p]
    PROVE  OwnerInv'
<1>1. AskedGrows
  BY DEF AskedGrows
<1>2. StepsGood'
  BY <1>1, StepsLeft
<1>3. ProjectsTyped' /\ MembersKept' /\ OwnerWasAsked'
  BY DEF OwnerInv, ProjectsTyped, MembersKept, OwnerWasAsked, Live, rows
<1>4. QED
  BY <1>2, <1>3 DEF OwnerInv

\* The same, when nothing but what is left to do changes.
LEMMA PlainStart ==
    ASSUME OwnerInv, NEW q \in Slots, NEW left \in Seq(GoodSteps),
           steps' = [steps EXCEPT ![q] = left],
           UNCHANGED <<rows, asked, founder>>, keysMade' \in Nat
    PROVE  OwnerInv'
<1>1. AskedGrows
  BY DEF AskedGrows
<1>2. left \in Seq(GoodSteps')
  BY <1>1, StepsGrow, SeqOfMore
<1>3. founder' \in [ProjectIds -> SUBSET People]
  BY DEF OwnerInv, ProjectsTyped
<1>4. QED
  BY <1>2, <1>3, StartStep

LEMMA OneStatement ==
    ASSUME OwnerInv, NEW q \in Slots, NEW w \in GoodSteps, Starts(q, <<w>>),
           UNCHANGED <<rows, claims>>, keysMade' \in Nat
    PROVE  OwnerInv'
<1>1. <<w>> \in Seq(GoodSteps)
  OBVIOUS
<1>2. QED
  BY <1>1, PlainStart DEF Starts, claims

LEMMA TwoStatements ==
    ASSUME OwnerInv, NEW q \in Slots, NEW w \in GoodSteps, NEW x \in GoodSteps,
           Starts(q, <<w, x>>), UNCHANGED <<rows, asked, founder, keysMade>>
    PROVE  OwnerInv'
<1>1. <<w, x>> \in Seq(GoodSteps)
  OBVIOUS
<1>2. QED
  BY <1>1, PlainStart DEF Starts, OwnerInv, ProjectsTyped

(***************************************************************************)
(* The requests about a project.                                           *)
(***************************************************************************)

LEMMA LiveRow ==
    ASSUME OwnerInv, NEW p \in ProjectIds, Live(p)
    PROVE  /\ project[p] \in ProjectRow /\ project[p].owner \in People
           /\ project[p].owner \in founder[p] \union asked[p]
<1>1. project[p] \in ProjectRow
  BY DEF OwnerInv, ProjectsTyped, Live
<1>2. QED
  BY <1>1 DEF OwnerInv, OwnerWasAsked, ProjectRow

LEMMA MemberRowOf ==
    ASSUME OwnerInv, NEW p \in ProjectIds, NEW i \in Rows(p)
    PROVE  /\ i \in MemberIds /\ member[i] \in MemberRow /\ member[i].project = p
           /\ Live(p) /\ (member[i].asked => member[i].user \in asked[p])
<1>1. i \in MemberIds /\ member[i] # Gone /\ member[i].project = p
  BY DEF Rows
<1>2. QED
  BY <1>1 DEF OwnerInv, ProjectsTyped, MembersKept

LEMMA NumbersOfChecks ==
    /\ \A p : IsFiniteSet(ChecksIn(p)) /\ Cardinality(ChecksIn(p)) \in Nat
    /\ \A u : Used(u) \in Nat
<1>1. \A S \in SUBSET Checks : IsFiniteSet(S) /\ Cardinality(S) \in Nat
  BY ProjectsAssumption, FS_Subset, FS_CardinalityType
<1>2. \A p : ChecksIn(p) \in SUBSET Checks
  BY DEF ChecksIn
<1>3. \A u : {c \in Checks : home[c] # Gone /\ Live(home[c])
                /\ project[home[c]].owner = u} \in SUBSET Checks
  OBVIOUS
<1>4. QED
  BY <1>1, <1>2, <1>3 DEF Used

LEMMA RightsAreLive ==
    ASSUME NEW u, NEW p, Rw(u, p) \/ Manages(u, p) \/ IsOwner(u, p) \/ ApiKey(p)
    PROVE  Live(p)
BY DEF Rw, Manages, IsOwner, HasRole, ApiKey

LEMMA AddProjectStep ==
    ASSUME OwnerInv, NEW q \in Slots, NEW u \in People, NEW p \in ProjectIds,
           AddProject(q, u, p)
    PROVE  OwnerInv'
<1> DEFINE w == SavesProject(p, [owner |-> u, key |-> NoKey])
<1>1. /\ founder[p] = {} /\ founder' = [founder EXCEPT ![p] = {u}]
      /\ steps' = [steps EXCEPT ![q] = <<w>>]
      /\ UNCHANGED <<rows, asked, keysMade>>
  BY DEF AddProject, Starts
<1>2. /\ founder' \in [ProjectIds -> SUBSET People]
      /\ \A x \in ProjectIds : founder[x] \subseteq founder'[x]
      /\ u \in founder'[p]
  BY <1>1 DEF OwnerInv, ProjectsTyped
<1>3. w \in ProjectSaves'
  BY <1>2 DEF SavesProject, ProjectSaves, ProjectRow, NoKey
<1> HIDE DEF w
<1>4. <<w>> \in Seq(GoodSteps')
  BY <1>3 DEF GoodSteps
<1>5. keysMade' \in Nat
  BY <1>1 DEF OwnerInv, ProjectsTyped
<1>6. QED
  BY <1>1, <1>2, <1>4, <1>5, StartStep

\* A copy of a project is saved, with another key perhaps.
LEMMA CopySaveStep ==
    ASSUME OwnerInv, NEW q \in Slots, NEW p \in ProjectIds, NEW row \in ProjectRow,
           Live(p), row.owner = project[p].owner,
           Starts(q, <<SavesProject(p, row)>>), UNCHANGED <<rows, claims>>,
           keysMade' \in Nat
    PROVE  OwnerInv'
<1>1. SavesProject(p, row) \in ProjectSaves
  BY LiveRow DEF SavesProject, ProjectSaves
<1>2. SavesProject(p, row) \in GoodSteps
  BY <1>1 DEF GoodSteps
<1>3. QED
  BY <1>2, OneStatement

LEMMA KeyStep ==
    ASSUME OwnerInv, NEW q \in Slots, NEW u \in People, NEW p \in ProjectIds,
           CreateKey(q, u, p) \/ RevokeKey(q, u, p) \/ ShowSlugs(q, u, p)
    PROVE  OwnerInv'
<1>1. Live(p)
  BY RightsAreLive DEF CreateKey, RevokeKey, ShowSlugs
<1>2. project[p] \in ProjectRow /\ keysMade \in Nat
  BY <1>1, LiveRow DEF OwnerInv, ProjectsTyped
<1>3. CASE CreateKey(q, u, p)
  <2> DEFINE row == [project[p] EXCEPT !.key = keysMade + 1]
  <2>1. row \in ProjectRow /\ row.owner = project[p].owner
    BY <1>2 DEF ProjectRow
  <2>2. Starts(q, <<SavesProject(p, row)>>) /\ UNCHANGED <<rows, claims>>
          /\ keysMade' \in Nat
    BY <1>2, <1>3 DEF CreateKey
  <2> HIDE DEF row
  <2>3. QED
    BY <1>1, <2>1, <2>2, CopySaveStep
<1>4. CASE RevokeKey(q, u, p)
  <2> DEFINE row == [project[p] EXCEPT !.key = NoKey]
  <2>1. row \in ProjectRow /\ row.owner = project[p].owner
    BY <1>2 DEF ProjectRow, NoKey
  <2>2. Starts(q, <<SavesProject(p, row)>>) /\ UNCHANGED <<rows, claims>>
          /\ keysMade' \in Nat
    BY <1>2, <1>4 DEF RevokeKey
  <2> HIDE DEF row
  <2>3. QED
    BY <1>1, <2>1, <2>2, CopySaveStep
<1>5. CASE ShowSlugs(q, u, p)
  BY <1>1, <1>2, <1>5, CopySaveStep DEF ShowSlugs
<1>6. QED
  BY <1>3, <1>4, <1>5

LEMMA InviteStep ==
    ASSUME OwnerInv, NEW q \in Slots, NEW u \in People, NEW p \in ProjectIds,
           NEW v \in People, NEW role \in Roles, Invite(q, u, p, v, role)
    PROVE  OwnerInv'
<1> DEFINE row == [user |-> v, project |-> p, role |-> role, asked |-> FALSE]
           w == [do |-> "insertMember", row |-> row]
<1>1. row \in MemberRow /\ ~row.asked
  BY DEF MemberRow
<1>2. Starts(q, <<w>>) /\ UNCHANGED <<rows, claims, keysMade>>
  BY DEF Invite
<1> HIDE DEF row
<1>3. w \in GoodSteps
  BY <1>1 DEF GoodSteps, MemberInserts
<1> HIDE DEF w
<1>4. QED
  BY <1>2, <1>3, OneStatement DEF OwnerInv, ProjectsTyped

LEMMA LeaveStep ==
    ASSUME OwnerInv, NEW q \in Slots, NEW u \in People, NEW p \in ProjectIds,
           LeaveProject(q, u, p) \/ \E v \in People : RemoveTeamMember(q, u, p, v)
    PROVE  OwnerInv'
<1>1. PICK v \in People : /\ Starts(q, <<DeletesMember(v, p)>>)
                          /\ UNCHANGED <<rows, claims, keysMade>>
  BY DEF LeaveProject, RemoveTeamMember
<1>2. DeletesMember(v, p) \in GoodSteps
  BY DEF GoodSteps, MemberDeletes, DeletesMember
<1>3. QED
  BY <1>1, <1>2, OneStatement DEF OwnerInv, ProjectsTyped

LEMMA TransferStep ==
    ASSUME OwnerInv, NEW q \in Slots, NEW u \in People, NEW p \in ProjectIds,
           \/ CancelTransfer(q, u, p)
           \/ \E i \in MemberIds : TransferProject(q, u, p, i) \/ RejectTransfer(q, u, p, i)
    PROVE  OwnerInv'
<1>1. ClearsAsked(p) \in GoodSteps
  BY DEF GoodSteps, AskedClears, ClearsAsked
<1>2. ASSUME NEW i \in Rows(p), NEW is \in BOOLEAN
      PROVE  SavesMember(i, [member[i] EXCEPT !.asked = is]) \in GoodSteps
  <2> DEFINE row == [member[i] EXCEPT !.asked = is]
  <2>1. i \in MemberIds /\ row \in MemberRow
    BY MemberRowOf DEF MemberRow
  <2> HIDE DEF row
  <2>2. SavesMember(i, row) \in GoodSteps
    BY <2>1 DEF GoodSteps, MemberSaves, SavesMember
  <2>3. QED
    BY <2>2 DEF row
<1>3. CASE CancelTransfer(q, u, p)
  BY <1>1, <1>3, OneStatement DEF CancelTransfer, OwnerInv, ProjectsTyped
<1>4. ASSUME NEW i \in MemberIds, TransferProject(q, u, p, i) PROVE OwnerInv'
  BY <1>1, <1>2, <1>4, TwoStatements DEF TransferProject, claims
<1>5. ASSUME NEW i \in MemberIds, RejectTransfer(q, u, p, i) PROVE OwnerInv'
  <2>1. i \in Rows(p)
    BY <1>5 DEF RejectTransfer, TransferRequest, TransferRequests
  <2>2. QED
    BY <1>2, <1>5, <2>1, OneStatement DEF RejectTransfer, OwnerInv, ProjectsTyped
<1>6. QED
  BY <1>3, <1>4, <1>5

LEMMA AcceptStep ==
    ASSUME OwnerInv, NEW q \in Slots, NEW u \in People, NEW p \in ProjectIds,
           NEW i \in MemberIds, AcceptTransfer(q, u, p, i)
    PROVE  OwnerInv'
<1> DEFINE row == [member[i] EXCEPT !.user = project[p].owner, !.asked = FALSE,
                                    !.role = "regular"]
           own == [project[p] EXCEPT !.owner = u]
           w == [do |-> "accept", i |-> i, p |-> p, row |-> row, project |-> own,
                 used |-> Used(u), count |-> Cardinality(ChecksIn(p))]
<1>1. /\ i \in Rows(p) /\ member[i].asked /\ member[i].user = u
      /\ Starts(q, <<w>>) /\ UNCHANGED <<rows, claims, keysMade>>
  BY DEF AcceptTransfer, TransferRequest, TransferRequests
<1>2. member[i] \in MemberRow /\ member[i].project = p /\ Live(p) /\ u \in asked[p]
  BY <1>1, MemberRowOf
<1>3. project[p] \in ProjectRow /\ project[p].owner \in People
  BY <1>2, LiveRow
<1>4. own \in ProjectRow /\ own.owner = u
  BY <1>3 DEF ProjectRow
<1>5. row \in MemberRow /\ row.project = p /\ ~row.asked
  BY <1>2, <1>3 DEF MemberRow, Roles
<1>6. /\ Used(u) \in Nat /\ Cardinality(ChecksIn(p)) \in Nat
      /\ Used(u) + Cardinality(ChecksIn(p)) <= CheckLimit
  BY NumbersOfChecks DEF AcceptTransfer
<1> HIDE DEF own, row
<1>7. w \in Accepts
  BY <1>2, <1>4, <1>5, <1>6 DEF Accepts
<1>8. w \in GoodSteps
  BY <1>7 DEF GoodSteps
<1> HIDE DEF w
<1>9. QED
  BY <1>1, <1>8, OneStatement DEF OwnerInv, ProjectsTyped

\* The checks of the project, one after the other, and then the project.
LEMMA RemoveProjectStep ==
    ASSUME OwnerInv, NEW q \in Slots, NEW u \in People, NEW p \in ProjectIds,
           RemoveProject(q, u, p)
    PROVE  OwnerInv'
<1> DEFINE ids == SetToSeq(ChecksIn(p))
           each == [n \in 1 .. Cardinality(ChecksIn(p)) |-> DeletesCheck(ids[n])]
           last == <<[do |-> "deleteProject", p |-> p]>>
<1>1. ids \in [1 .. Cardinality(ChecksIn(p)) -> ChecksIn(p)]
  BY NumbersOfChecks, SequenceOfSet
<1>2. \A c \in Checks : DeletesCheck(c) \in GoodSteps
  BY DEF GoodSteps, CheckDeletes, DeletesCheck
<1>3. each \in Seq(GoodSteps)
  <2>1. \A n \in 1 .. Cardinality(ChecksIn(p)) : each[n] \in GoodSteps
    BY <1>1, <1>2 DEF ChecksIn
  <2>2. QED
    BY <2>1, NumbersOfChecks
<1>4. last \in Seq(GoodSteps)
  BY DEF GoodSteps, ProjectDeletes
<1>5. Starts(q, each \o last) /\ UNCHANGED <<rows, claims, keysMade>>
  BY DEF RemoveProject
<1> HIDE DEF each, last
<1>6. each \o last \in Seq(GoodSteps)
  BY <1>3, <1>4, ConcatProperties
<1>7. QED
  BY <1>5, <1>6, PlainStart DEF Starts, claims, OwnerInv, ProjectsTyped

LEMMA ProjectViewStep ==
    ASSUME OwnerInv, NEW q \in Slots, NEW u \in People, NEW p \in ProjectIds,
           ProjectView(q, u, p)
    PROVE  OwnerInv'
BY AddProjectStep, KeyStep, InviteStep, LeaveStep, TransferStep, AcceptStep,
   RemoveProjectStep DEF ProjectView

(***************************************************************************)
(* The requests about checks and channels.                                 *)
(***************************************************************************)

LEMMA CheckStatements ==
    ASSUME NEW c \in Checks, NEW p \in ProjectIds
    PROVE  /\ DeletesCheck(c) \in GoodSteps /\ AssignsAll(c, p) \in GoodSteps
           /\ \A channels \in SUBSET Hooks, add \in BOOLEAN :
                 Assigns(c, channels, add) \in GoodSteps
           /\ \A h \in Hooks, on \in BOOLEAN :
                 [do |-> "switch", c |-> c, h |-> h, on |-> on] \in GoodSteps
BY DEF GoodSteps, CheckDeletes, DeletesCheck, AssignmentsOfAll, AssignsAll,
   Assignments, Assigns, Switches

LEMMA ChannelStatements ==
    ASSUME NEW h \in Hooks, NEW p \in ProjectIds
    PROVE  /\ [do |-> "insertChannel", h |-> h, p |-> p] \in GoodSteps
           /\ \A checks \in SUBSET Checks, add \in BOOLEAN :
                 AssignsChecks(h, p, checks, add) \in GoodSteps
BY DEF GoodSteps, ChannelInserts, CheckAssignments, AssignsChecks

LEMMA CheckInserted ==
    ASSUME OwnerInv, NEW c \in Checks, NEW p \in ProjectIds, Live(p),
           NEW limit \in {CheckLimit, 2 * CheckLimit}, Used(project[p].owner) < limit
    PROVE  InsertsCheck(c, p, limit) \in GoodSteps
<1>1. project[p].owner \in People /\ Used(project[p].owner) \in Nat
  BY LiveRow, NumbersOfChecks
<1>2. InsertsCheck(c, p, limit) \in CheckInserts
  BY <1>1 DEF InsertsCheck, CheckInserts
<1>3. QED
  BY <1>2 DEF GoodSteps

LEMMA CheckViewStep ==
    ASSUME OwnerInv, NEW q \in Slots, NEW u \in People, NEW p \in ProjectIds,
           NEW c \in Checks, CheckView(q, u, p, c)
    PROVE  OwnerInv'
<1>1. CASE AddCheck(q, u, p, c)
  <2>1. Live(p) /\ Used(project[p].owner) < CheckLimit
    BY <1>1, RightsAreLive DEF AddCheck, Available
  <2>2. QED
    BY <1>1, <2>1, CheckInserted, CheckStatements, TwoStatements DEF AddCheck, claims
<1>2. CASE RemoveCheck(q, u, p, c)
  BY <1>2, CheckStatements, OneStatement DEF RemoveCheck, OwnerInv, ProjectsTyped
<1>3. ASSUME NEW from \in Checks, CopyCheck(q, u, p, from, c) PROVE OwnerInv'
  <2> DEFINE channels == {h \in Hooks : <<from, h>> \in wired}
  <2>1. Live(p) /\ Used(project[p].owner) < CheckLimit
    BY <1>3, RightsAreLive DEF CopyCheck, Available
  <2>2. Starts(q, <<InsertsCheck(c, p, CheckLimit), Assigns(c, channels, TRUE)>>)
          /\ UNCHANGED <<rows, asked, founder, keysMade>>
    BY <1>3 DEF CopyCheck
  <2>3. channels \in SUBSET Hooks
    OBVIOUS
  <2> HIDE DEF channels
  <2>4. QED
    BY <2>1, <2>2, <2>3, CheckInserted, CheckStatements, TwoStatements
<1>4. ASSUME NEW to \in ProjectIds, TransferCheck(q, u, c, p, to) PROVE OwnerInv'
  <2> DEFINE w == [do |-> "moveCheck", c |-> c, p |-> to, owner |-> project[to].owner,
                   from |-> project[p].owner, used |-> Used(project[to].owner)]
  <2>1. /\ Live(p) /\ Live(to)
        /\ project[p].owner # project[to].owner => Used(project[to].owner) < CheckLimit
    BY <1>4, RightsAreLive DEF TransferCheck, Available
  <2>2. w \in GoodSteps
    BY <2>1, LiveRow, NumbersOfChecks DEF GoodSteps, CheckMoves
  <2>3. Starts(q, <<w, AssignsAll(c, to)>>) /\ UNCHANGED <<rows, claims, keysMade>>
    BY <1>4 DEF TransferCheck
  <2> HIDE DEF w
  <2>4. QED
    BY <2>2, <2>3, CheckStatements, TwoStatements DEF claims
<1>5. QED
  BY <1>1, <1>2, <1>3, <1>4 DEF CheckView

LEMMA ChannelViewStep ==
    ASSUME OwnerInv, NEW q \in Slots, NEW u \in People, NEW h \in Hooks,
           ChannelView(q, u, h)
    PROVE  OwnerInv'
<1>1. ASSUME NEW c \in Checks, NEW on \in BOOLEAN, SwitchAssigned(q, u, c, h, on)
      PROVE  OwnerInv'
  <2>1. home[c] \in ProjectIds
    BY <1>1 DEF SwitchAssigned, OwnerInv, ProjectsTyped
  <2>2. QED
    BY <1>1, <2>1, CheckStatements, OneStatement DEF SwitchAssigned, OwnerInv,
       ProjectsTyped
<1>2. ASSUME NEW p \in ProjectIds, SetChecks(q, u, p, h) PROVE OwnerInv'
  <2>1. PICK s \in SUBSET ChecksIn(p) : Starts(q, <<AssignsChecks(h, p, s, FALSE)>>)
    BY <1>2 DEF SetChecks
  <2>2. s \in SUBSET Checks
    BY DEF ChecksIn
  <2>3. AssignsChecks(h, p, s, FALSE) \in GoodSteps
    BY <2>2, ChannelStatements
  <2>4. QED
    BY <1>2, <2>1, <2>3, OneStatement DEF SetChecks, OwnerInv, ProjectsTyped
<1>3. ASSUME NEW p \in ProjectIds, AddIntegration(q, u, p, h) PROVE OwnerInv'
  BY <1>3, ChannelStatements, TwoStatements DEF AddIntegration, claims
<1>4. QED
  BY <1>1, <1>2, <1>3 DEF ChannelView

LEMMA ApiViewStep ==
    ASSUME OwnerInv, NEW q \in Slots, NEW p \in ProjectIds, NEW c \in Checks,
           ApiView(q, p, c)
    PROVE  OwnerInv'
<1>1. SpecChannels(c, p) \subseteq Seq(GoodSteps)
  <2>1. <<>> \in Seq(GoodSteps) /\ <<AssignsAll(c, p)>> \in Seq(GoodSteps)
    BY CheckStatements
  <2>2. ASSUME NEW s \in SUBSET ChannelsIn(p)
        PROVE  <<Assigns(c, s, FALSE)>> \in Seq(GoodSteps)
    <3> DEFINE w == Assigns(c, s, FALSE)
    <3>1. s \in SUBSET Hooks
      BY DEF ChannelsIn
    <3>2. w \in GoodSteps
      BY <3>1, CheckStatements
    <3> HIDE DEF w
    <3>3. <<w>> \in Seq(GoodSteps)
      BY <3>2
    <3>4. QED
      BY <3>3 DEF w
  <2>3. QED
    BY <2>1, <2>2 DEF SpecChannels
<1>2. CASE CreateCheck(q, p, c)
  <2>1. Live(p) /\ Used(project[p].owner) < CheckLimit
    BY <1>2, RightsAreLive DEF CreateCheck, Available
  <2>2. InsertsCheck(c, p, CheckLimit) \in GoodSteps
    BY <2>1, CheckInserted
  <2>3. PICK more \in SpecChannels(c, p) :
          Starts(q, <<InsertsCheck(c, p, CheckLimit)>> \o more)
    BY <1>2 DEF CreateCheck
  <2>4. <<InsertsCheck(c, p, CheckLimit)>> \in Seq(GoodSteps)
    BY <2>2
  <2>5. <<InsertsCheck(c, p, CheckLimit)>> \o more \in Seq(GoodSteps)
    BY <1>1, <2>4, ConcatProperties
  <2>6. QED
    BY <1>2, <2>3, <2>5, PlainStart DEF CreateCheck, Starts, claims, OwnerInv,
       ProjectsTyped
<1>3. CASE UpdateCheck(q, p, c)
  <2>1. PICK more \in SpecChannels(c, p) : Starts(q, more)
    BY <1>3 DEF UpdateCheck
  <2>2. QED
    BY <1>1, <1>3, <2>1, PlainStart DEF UpdateCheck, Starts, claims, OwnerInv,
       ProjectsTyped
<1>4. CASE PingBySlug(q, p, c)
  <2>1. Live(p) /\ Used(project[p].owner) < 2 * CheckLimit
    BY <1>4, RightsAreLive DEF PingBySlug
  <2>2. QED
    BY <1>4, <2>1, CheckInserted, CheckStatements, TwoStatements DEF PingBySlug, claims
<1>5. QED
  BY <1>2, <1>3, <1>4 DEF ApiView

(***************************************************************************)
(* The statements, when they are executed.                                 *)
(***************************************************************************)

LEMMA StepsByDo ==
    ASSUME NEW w \in GoodSteps
    PROVE  /\ w.do = "saveProject"   => w \in ProjectSaves
           /\ w.do = "accept"        => w \in Accepts
           /\ w.do = "insertMember"  => w \in MemberInserts
           /\ w.do = "saveMember"    => w \in MemberSaves
           /\ w.do = "deleteMember"  => w \in MemberDeletes
           /\ w.do = "clearAsked"    => w \in AskedClears
           /\ w.do = "insertCheck"   => w \in CheckInserts
           /\ w.do = "moveCheck"     => w \in CheckMoves
           /\ w.do = "deleteCheck"   => w \in CheckDeletes
           /\ w.do = "deleteProject" => w \in ProjectDeletes
           /\ w.do = "assign"        => w \in Assignments
           /\ w.do = "assignAll"     => w \in AssignmentsOfAll
           /\ w.do = "switch"        => w \in Switches
           /\ w.do = "assignChecks"  => w \in CheckAssignments
           /\ w.do = "insertChannel" => w \in ChannelInserts
BY DEF GoodSteps, ProjectSaves, Accepts, MemberInserts, MemberSaves, MemberDeletes,
   AskedClears, CheckInserts, CheckMoves, CheckDeletes, ProjectDeletes, Assignments,
   AssignmentsOfAll, Switches, CheckAssignments, ChannelInserts

LEMMA NextStepGood ==
    ASSUME OwnerInv, NEW q \in Slots, steps[q] # <<>>
    PROVE  /\ Head(steps[q]) \in GoodSteps
           /\ Head(steps[q]) = steps[q][1]
           /\ 1 \in DOMAIN steps[q]
BY DEF OwnerInv, StepsGood

LEMMA SaveProjectDone ==
    ASSUME OwnerInv, NEW w \in ProjectSaves, DoSaveProject(w), UNCHANGED keysMade,
           StepsGood'
    PROVE  OwnerInv'
<1>1. /\ w.p \in ProjectIds /\ w.row \in ProjectRow /\ w.row # Gone
      /\ w.row.owner \in founder[w.p] \union asked[w.p]
  BY ProjectsAssumption DEF ProjectSaves
<1>2. project' = [project EXCEPT ![w.p] = w.row]
      /\ UNCHANGED <<member, home, place, wired, asked, founder>>
  BY DEF DoSaveProject
<1>3. ProjectsTyped'
  BY <1>1, <1>2 DEF OwnerInv, ProjectsTyped
<1>4. \A p \in ProjectIds : project'[p] = IF p = w.p THEN w.row ELSE project[p]
  BY <1>1, <1>2 DEF OwnerInv, ProjectsTyped
<1>5. MembersKept'
  <2>1. \A i \in MemberIds : member[i] # Gone => member[i].project \in ProjectIds
    BY DEF OwnerInv, ProjectsTyped, MemberRow
  <2>2. QED
    BY <1>1, <1>2, <1>4, <2>1 DEF OwnerInv, MembersKept, Live
<1>6. OwnerWasAsked'
  BY <1>1, <1>2, <1>4 DEF OwnerInv, OwnerWasAsked, Live
<1>7. QED
  BY <1>3, <1>5, <1>6 DEF OwnerInv

LEMMA AcceptDone ==
    ASSUME OwnerInv, NEW w \in Accepts, DoAccept(w), UNCHANGED keysMade, StepsGood'
    PROVE  OwnerInv'
<1>1. /\ w.p \in ProjectIds /\ w.project \in ProjectRow /\ w.project # Gone
      /\ w.project.owner \in asked[w.p]
      /\ w.i \in MemberIds /\ w.row \in MemberRow /\ w.row.project = w.p
      /\ ~w.row.asked
  BY ProjectsAssumption DEF Accepts
<1>2. /\ project' = [project EXCEPT ![w.p] = w.project]
      /\ member' = [member EXCEPT ![w.i] = w.row]
      /\ UNCHANGED <<home, place, wired, asked, founder>>
  BY DEF DoAccept
<1>3. ProjectsTyped'
  BY <1>1, <1>2 DEF OwnerInv, ProjectsTyped
<1>4. /\ \A p \in ProjectIds : project'[p] = IF p = w.p THEN w.project ELSE project[p]
      /\ \A i \in MemberIds : member'[i] = IF i = w.i THEN w.row ELSE member[i]
  BY <1>1, <1>2 DEF OwnerInv, ProjectsTyped
<1>5. MembersKept'
  <2>1. \A i \in MemberIds : member[i] # Gone => member[i].project \in ProjectIds
    BY DEF OwnerInv, ProjectsTyped, MemberRow
  <2>2. QED
    BY <1>1, <1>2, <1>4, <2>1 DEF OwnerInv, MembersKept, Live
<1>6. OwnerWasAsked'
  BY <1>1, <1>2, <1>4 DEF OwnerInv, OwnerWasAsked, Live
<1>7. QED
  BY <1>3, <1>5, <1>6 DEF OwnerInv

\* Members change, and who has been asked: each row stays good.
LEMMA MembersDone ==
    ASSUME OwnerInv, UNCHANGED <<project, home, place, wired, founder, keysMade>>,
           StepsGood',
           member' \in [MemberIds -> MemberRow \union {Gone}],
           asked' \in [ProjectIds -> SUBSET People],
           \A p \in ProjectIds : asked[p] \subseteq asked'[p],
           \A i \in MemberIds : member'[i] # Gone =>
              \/ /\ member[i] # Gone /\ member'[i].project = member[i].project
                 /\ member'[i].user = member[i].user
                 /\ member'[i].asked => member[i].asked
              \/ /\ Live(member'[i].project)
                 /\ member'[i].asked => member'[i].user \in asked'[member'[i].project]
    PROVE  OwnerInv'
<1>1. ProjectsTyped'
  BY DEF OwnerInv, ProjectsTyped
<1>2. \A i \in MemberIds : member[i] # Gone => member[i].project \in ProjectIds
  BY DEF OwnerInv, ProjectsTyped, MemberRow
<1>3. MembersKept'
  BY <1>2 DEF OwnerInv, MembersKept, Live
<1>4. OwnerWasAsked'
  BY DEF OwnerInv, OwnerWasAsked, Live
<1>5. QED
  BY <1>1, <1>3, <1>4 DEF OwnerInv

LEMMA MemberStepDone ==
    ASSUME OwnerInv, NEW w \in GoodSteps, DoMembers(w), Possible(w),
           w.do \in {"insertMember", "saveMember", "deleteMember", "clearAsked"},
           w.do = "insertMember" => NewMemberIds # {},
           UNCHANGED keysMade, StepsGood'
    PROVE  OwnerInv'
<1>1. /\ member \in [MemberIds -> MemberRow \union {Gone}]
      /\ asked \in [ProjectIds -> SUBSET People]
  BY DEF OwnerInv, ProjectsTyped
<1>2. UNCHANGED <<project, home, place, wired, founder>>
  BY DEF DoMembers
<1>3. CASE w.do = "insertMember"
  <2>1. w.row \in MemberRow /\ ~w.row.asked /\ Live(w.row.project)
    BY <1>3, StepsByDo DEF MemberInserts, Possible
  <2>2. PICK j \in MemberIds : member' = [member EXCEPT ![j] = w.row]
    BY <1>3 DEF DoMembers, NewMemberIds
  <2>3. asked' = asked
    BY <1>3 DEF DoMembers
  <2>4. QED
    BY <1>1, <1>2, <2>1, <2>2, <2>3, MembersDone
<1>4. CASE w.do = "saveMember"
  <2>1. w.i \in MemberIds /\ w.row \in MemberRow /\ Live(w.row.project)
    BY <1>4, StepsByDo DEF MemberSaves, Possible
  <2>2. member' = [member EXCEPT ![w.i] = w.row]
    BY <1>4 DEF DoMembers
  <2>3. asked' = IF w.row.asked
                 THEN [asked EXCEPT ![w.row.project] = @ \union {w.row.user}] ELSE asked
    BY <1>4 DEF DoMembers
  <2>4. w.row.project \in ProjectIds /\ w.row.user \in People
    BY <2>1 DEF MemberRow
  <2>5. /\ asked' \in [ProjectIds -> SUBSET People]
        /\ \A p \in ProjectIds : asked[p] \subseteq asked'[p]
        /\ w.row.asked => w.row.user \in asked'[w.row.project]
    BY <1>1, <2>3, <2>4
  <2>6. QED
    BY <1>1, <1>2, <2>1, <2>2, <2>5, MembersDone
<1>5. CASE w.do = "deleteMember"
  <2>1. member' = [i \in MemberIds |-> IF i \in Rows(w.p) /\ member[i].user = w.user
                                       THEN Gone ELSE member[i]]
    BY <1>5 DEF DoMembers
  <2>2. asked' = asked
    BY <1>5 DEF DoMembers
  <2>3. QED
    BY <1>1, <1>2, <2>1, <2>2, MembersDone
<1>6. CASE w.do = "clearAsked"
  <2>1. member' = [i \in MemberIds |-> IF i \in Rows(w.p)
                                       THEN [member[i] EXCEPT !.asked = FALSE]
                                       ELSE member[i]]
    BY <1>6 DEF DoMembers
  <2>2. asked' = asked
    BY <1>6 DEF DoMembers
  <2>3. ASSUME NEW i \in Rows(w.p)
        PROVE  LET row == [member[i] EXCEPT !.asked = FALSE] IN
               /\ row \in MemberRow /\ row.project = member[i].project
               /\ row.user = member[i].user /\ ~row.asked /\ member[i] # Gone
    BY <1>1 DEF Rows, MemberRow
  <2>4. QED
    BY <1>1, <1>2, <2>1, <2>2, <2>3, MembersDone
<1>7. QED
  BY <1>3, <1>4, <1>5, <1>6

\* Statements about checks and channels leave projects and members alone.
LEMMA OthersDone ==
    ASSUME OwnerInv, UNCHANGED <<project, member, asked, founder, keysMade>>,
           home' \in [Checks -> ProjectIds \union {Gone}],
           place' \in [Hooks -> ProjectIds \union {Gone}],
           wired' \subseteq Checks \X Hooks, StepsGood'
    PROVE  OwnerInv'
BY DEF OwnerInv, ProjectsTyped, MembersKept, OwnerWasAsked, Live

LEMMA CheckStepDone ==
    ASSUME OwnerInv, NEW q \in Slots, NEW w \in GoodSteps,
           \/ w.do = "insertCheck" /\ DoInsertCheck(w)
           \/ w.do = "moveCheck" /\ DoMoveCheck(q, w)
           \/ w.do = "insertChannel" /\ DoInsertChannel(w),
           UNCHANGED keysMade, StepsGood'
    PROVE  OwnerInv'
<1>1. /\ home \in [Checks -> ProjectIds \union {Gone}]
      /\ place \in [Hooks -> ProjectIds \union {Gone}]
      /\ wired \subseteq Checks \X Hooks
  BY DEF OwnerInv, ProjectsTyped
<1>2. CASE w.do = "insertCheck" /\ DoInsertCheck(w)
  <2>1. w.p \in ProjectIds /\ home' = [home EXCEPT ![w.c] = w.p]
          /\ UNCHANGED <<project, member, place, wired, asked, founder>>
    BY <1>2, StepsByDo DEF CheckInserts, DoInsertCheck
  <2>2. QED
    BY <1>1, <2>1, OthersDone
<1>3. CASE w.do = "moveCheck" /\ DoMoveCheck(q, w)
  <2>1. w.p \in ProjectIds /\ home' = [home EXCEPT ![w.c] = w.p]
          /\ UNCHANGED <<project, member, place, wired, asked, founder>>
    BY <1>3, StepsByDo DEF CheckMoves, DoMoveCheck
  <2>2. QED
    BY <1>1, <2>1, OthersDone
<1>4. CASE w.do = "insertChannel" /\ DoInsertChannel(w)
  <2>1. w.p \in ProjectIds /\ place' = [place EXCEPT ![w.h] = w.p]
          /\ UNCHANGED <<project, member, home, wired, asked, founder>>
    BY <1>4, StepsByDo DEF ChannelInserts, DoInsertChannel, claims
  <2>2. QED
    BY <1>1, <2>1, OthersDone
<1>5. QED
  BY <1>2, <1>3, <1>4

LEMMA WiredBy ==
    ASSUME OwnerInv, NEW w \in GoodSteps, DoWire(w),
           w.do \in {"assign", "assignAll", "switch", "assignChecks"}
    PROVE  wired' \subseteq Checks \X Hooks
<1>1. wired \subseteq Checks \X Hooks
  BY DEF OwnerInv, ProjectsTyped
<1>2. \A p : ChannelsIn(p) \subseteq Hooks /\ ChecksIn(p) \subseteq Checks
  BY DEF ChannelsIn, ChecksIn
<1>3. CASE w.do = "assignAll"
  <2>1. w.c \in Checks
    BY <1>3, StepsByDo DEF AssignmentsOfAll
  <2>2. QED
    BY <1>1, <1>2, <1>3, <2>1 DEF DoWire, Unwired
<1>4. CASE w.do = "assign"
  <2>1. w.c \in Checks /\ w.channels \subseteq Hooks
    BY <1>4, StepsByDo DEF Assignments
  <2>2. QED
    BY <1>1, <1>4, <2>1 DEF DoWire, Unwired
<1>5. CASE w.do = "switch"
  <2>1. w.c \in Checks /\ w.h \in Hooks
    BY <1>5, StepsByDo DEF Switches
  <2>2. QED
    BY <1>1, <1>5, <2>1 DEF DoWire
<1>6. CASE w.do = "assignChecks"
  <2>1. w.h \in Hooks /\ w.checks \subseteq Checks
    BY <1>6, StepsByDo DEF CheckAssignments
  <2>2. QED
    BY <1>1, <1>2, <1>6, <2>1 DEF DoWire
<1>7. QED
  BY <1>3, <1>4, <1>5, <1>6

LEMMA WireStepDone ==
    ASSUME OwnerInv, NEW w \in GoodSteps, DoWire(w),
           w.do \in {"assign", "assignAll", "switch", "assignChecks"},
           UNCHANGED keysMade, StepsGood'
    PROVE  OwnerInv'
<1>1. UNCHANGED <<project, member, home, place, asked, founder>>
  BY DEF DoWire, claims
<1>2. QED
  BY <1>1, WiredBy, OthersDone DEF OwnerInv, ProjectsTyped

LEMMA DeleteStepDone ==
    ASSUME OwnerInv, NEW w \in GoodSteps, DoDelete(w),
           w.do \in {"deleteCheck", "deleteProject"}, UNCHANGED keysMade, StepsGood'
    PROVE  OwnerInv'
<1>1. /\ home' \in [Checks -> ProjectIds \union {Gone}]
      /\ place' \in [Hooks -> ProjectIds \union {Gone}]
      /\ wired' \subseteq Checks \X Hooks
  BY DEF DoDelete, OwnerInv, ProjectsTyped
<1>2. UNCHANGED <<asked, founder>>
  BY DEF DoDelete, claims
<1>3. CASE w.do = "deleteCheck"
  BY <1>1, <1>2, <1>3, OthersDone DEF DoDelete
<1>4. CASE w.do = "deleteProject"
  <2>1. w.p \in ProjectIds
    BY <1>4, StepsByDo DEF ProjectDeletes
  <2>2. /\ project' = [project EXCEPT ![w.p] = Gone]
        /\ member' = [i \in MemberIds |-> IF i \in Rows(w.p) THEN Gone ELSE member[i]]
    BY <1>4 DEF DoDelete
  <2>3. ProjectsTyped'
    BY <1>1, <1>2, <2>1, <2>2 DEF OwnerInv, ProjectsTyped
  <2>4. \A p \in ProjectIds : project'[p] = IF p = w.p THEN Gone ELSE project[p]
    BY <2>1, <2>2 DEF OwnerInv, ProjectsTyped
  <2>5. MembersKept'
    <3>1. SUFFICES ASSUME NEW i \in MemberIds, member'[i] # Gone
                   PROVE  /\ project'[member'[i].project] # Gone
                          /\ member'[i].asked =>
                                member'[i].user \in asked'[member'[i].project]
      BY DEF MembersKept, Live
    <3>2. member'[i] = member[i] /\ i \notin Rows(w.p) /\ member[i] # Gone
      BY <2>2, <3>1
    <3>3. member[i].project # w.p /\ member[i].project \in ProjectIds
      BY <3>2 DEF Rows, OwnerInv, ProjectsTyped, MemberRow
    <3>4. QED
      BY <1>2, <2>4, <3>2, <3>3 DEF OwnerInv, MembersKept, Live
  <2>6. OwnerWasAsked'
    BY <1>2, <2>4 DEF OwnerInv, OwnerWasAsked, Live
  <2>7. QED
    BY <2>3, <2>5, <2>6 DEF OwnerInv
<1>5. QED
  BY <1>3, <1>4

LEMMA PerformStep ==
    ASSUME OwnerInv, NEW q \in Slots, Perform(q)
    PROVE  OwnerInv'
<1> DEFINE w == Head(steps[q])
<1>1. /\ steps[q] # <<>> /\ Possible(w)
      /\ w.do = "insertMember" => NewMemberIds # {}
      /\ \/ w.do = "saveProject" /\ DoSaveProject(w)
         \/ w.do \in {"insertMember", "saveMember", "deleteMember",
                      "clearAsked"} /\ DoMembers(w)
         \/ w.do = "accept" /\ DoAccept(w)
         \/ w.do = "insertCheck" /\ DoInsertCheck(w)
         \/ w.do = "moveCheck" /\ DoMoveCheck(q, w)
         \/ w.do \in {"assign", "assignAll", "switch", "assignChecks"}
               /\ DoWire(w)
         \/ w.do = "insertChannel" /\ DoInsertChannel(w)
         \/ w.do \in {"deleteCheck", "deleteProject"} /\ DoDelete(w)
      /\ steps' = [steps EXCEPT ![q] = Tail(@)]
      /\ UNCHANGED keysMade
  BY DEF Perform
<1>2. w \in GoodSteps
  BY <1>1, NextStepGood
<1> HIDE DEF w
<1>3. AskedGrows
  <2>1. asked \in [ProjectIds -> SUBSET People]
    BY DEF OwnerInv, ProjectsTyped
  <2>2. founder' = founder
    BY <1>1 DEF DoSaveProject, DoMembers, DoAccept, DoInsertCheck, DoMoveCheck, DoWire,
       DoInsertChannel, DoDelete, claims
  <2>3. asked' = asked \/ asked' = [asked EXCEPT ![w.row.project] = @ \union {w.row.user}]
    BY <1>1 DEF DoSaveProject, DoMembers, DoAccept, DoInsertCheck, DoMoveCheck, DoWire,
       DoInsertChannel, DoDelete, claims
  <2>4. QED
    BY <2>1, <2>2, <2>3 DEF AskedGrows
<1>4. StepsGood'
  BY <1>1, <1>3, StepDone
<1>5. CASE w.do = "saveProject" /\ DoSaveProject(w)
  BY <1>1, <1>2, <1>4, <1>5, StepsByDo, SaveProjectDone
<1>6. CASE w.do \in {"insertMember", "saveMember", "deleteMember", "clearAsked"}
           /\ DoMembers(w)
  BY <1>1, <1>2, <1>4, <1>6, MemberStepDone
<1>7. CASE w.do = "accept" /\ DoAccept(w)
  BY <1>1, <1>2, <1>4, <1>7, StepsByDo, AcceptDone
<1>8. CASE \/ w.do = "insertCheck" /\ DoInsertCheck(w)
           \/ w.do = "moveCheck" /\ DoMoveCheck(q, w)
           \/ w.do = "insertChannel" /\ DoInsertChannel(w)
  BY <1>1, <1>2, <1>4, <1>8, CheckStepDone
<1>9. CASE w.do \in {"assign", "assignAll", "switch", "assignChecks"} /\ DoWire(w)
  BY <1>1, <1>2, <1>4, <1>9, WireStepDone
<1>10. CASE w.do \in {"deleteCheck", "deleteProject"} /\ DoDelete(w)
  BY <1>1, <1>2, <1>4, <1>10, DeleteStepDone
<1>11. QED
  BY <1>1, <1>5, <1>6, <1>7, <1>8, <1>9, <1>10

LEMMA BreakStep ==
    ASSUME OwnerInv, NEW q \in Slots, Break(q)
    PROVE  OwnerInv'
<1>1. <<>> \in Seq(GoodSteps)
  OBVIOUS
<1>2. QED
  BY <1>1, PlainStart DEF Break, claims, OwnerInv, ProjectsTyped

LEMMA ProjectsStep ==
    ASSUME OwnerInv, [ProjectsNext]_projectsVars
    PROVE  OwnerInv'
<1>1. ASSUME NEW q \in Slots, NEW u \in People, NEW p \in ProjectIds,
             ProjectView(q, u, p) \/ \E c \in Checks : CheckView(q, u, p, c)
      PROVE  OwnerInv'
  BY <1>1, ProjectViewStep, CheckViewStep
<1>2. ASSUME NEW q \in Slots,
             \/ Perform(q) \/ Break(q)
             \/ \E u \in People, h \in Hooks : ChannelView(q, u, h)
             \/ \E p \in ProjectIds, c \in Checks : ApiView(q, p, c)
      PROVE  OwnerInv'
  BY <1>2, PerformStep, BreakStep, ChannelViewStep, ApiViewStep
<1>3. CASE UNCHANGED projectsVars
  <2>1. UNCHANGED <<project, member, home, place, wired, steps, keysMade, asked, founder>>
    BY <1>3 DEF projectsVars
  <2>2. GoodSteps' = GoodSteps
    BY <2>1 DEF GoodSteps, ProjectSaves, Accepts, MemberInserts, MemberSaves,
       MemberDeletes, AskedClears, CheckInserts, CheckMoves, CheckDeletes,
       ProjectDeletes, Assignments, AssignmentsOfAll, Switches, CheckAssignments,
       ChannelInserts
  <2>3. StepsGood'
    BY <2>1, <2>2 DEF OwnerInv, StepsGood
  <2>4. QED
    BY <2>1, <2>3, OthersDone DEF OwnerInv, ProjectsTyped
<1>4. QED
  BY <1>1, <1>2, <1>3 DEF ProjectsNext

THEOREM OwnersKept == ProjectsSpec => []OwnerInv
<1>1. ProjectsInit => OwnerInv
  BY ProjectsStart
<1>2. OwnerInv /\ [ProjectsNext]_projectsVars => OwnerInv'
  BY ProjectsStep
<1>3. QED
  BY <1>1, <1>2, PTL DEF ProjectsSpec

\* A project belongs to who created it, or to somebody its owner asked, whatever
\* old copies are saved and whichever request for a transfer is repeated, cancelled
\* or answered late (transfer_project, accept_transfer).
THEOREM OwnersWereAsked == ProjectsSpec => []OwnerWasAsked
<1>1. OwnerInv => OwnerWasAsked
  BY DEF OwnerInv
<1>2. QED
  BY <1>1, OwnersKept, PTL

(***************************************************************************)
(* Channels of one project: where the checks and channels of a statement   *)
(* are, or are going to be.                                                *)
(***************************************************************************)

RefersToCheck(w, c) ==
    \/ w.do \in {"insertCheck", "moveCheck", "deleteCheck", "assign", "assignAll",
                 "switch"} /\ w.c = c
    \/ w.do = "assignChecks" /\ c \in w.checks

RefersToChannel(w, h) ==
    \/ w.do \in {"switch", "assignChecks", "insertChannel"} /\ w.h = h
    \/ w.do = "assign" /\ h \in w.channels

CheckIn(c, p) == c \in torn \/ home[c] \in {p, Gone}

ChannelIn(h, p) == place[h] \in {p, Gone}

\* What holds of the statement that comes next.
NextPlaced(w) ==
    /\ w.do = "insertCheck"   => home[w.c] = Gone
    /\ w.do = "insertChannel" => place[w.h] = Gone
    /\ w.do = "assignAll"     => CheckIn(w.c, w.p)
    /\ w.do = "assign" =>
         \/ w.c \in torn
         \/ \E p \in ProjectIds :
               CheckIn(w.c, p) /\ \A h \in w.channels : ChannelIn(h, p)
    /\ w.do = "switch" =>
         w.c \in torn \/ home[w.c] = Gone \/ place[w.h] \in {home[w.c], Gone}
    /\ w.do = "assignChecks" =>
         /\ ChannelIn(w.h, w.p)
         /\ ~w.add => \A c \in w.checks : CheckIn(c, w.p)

\* What holds of a later one, w, and the next one, v.
LaterPlaced(v, w, n) ==
    /\ w.do \notin {"insertCheck", "insertChannel", "moveCheck", "switch"}
    /\ w.do \in {"assignAll", "assign", "assignChecks"} => n = 2
    /\ w.do = "assignAll" =>
         v.do \in {"insertCheck", "moveCheck"} /\ v.c = w.c /\ v.p = w.p
    /\ w.do = "assign" =>
         /\ v.do = "insertCheck" /\ v.c = w.c
         /\ w.c \in torn \/ \A h \in w.channels : ChannelIn(h, v.p)
    /\ w.do = "assignChecks" =>
         v.do = "insertChannel" /\ v.h = w.h /\ v.p = w.p /\ w.add

\* A check that is moved is then reassigned.
Placed(s) ==
    /\ s # <<>> => NextPlaced(s[1])
    /\ \A n \in DOMAIN s : n # 1 => LaterPlaced(s[1], s[n], n)
    /\ s # <<>> /\ s[1].do = "moveCheck" =>
         2 \in DOMAIN s /\ s[2].do = "assignAll" /\ s[2].c = s[1].c

StepsPlaced == \A q \in Slots : Placed(steps[q])

\* Only the request that inserts a row knows its id.
IdsReserved ==
    \A q, r \in Slots : q # r =>
        \A n \in DOMAIN steps[q] : \A m \in DOMAIN steps[r] :
            LET w == steps[q][n] IN
            /\ w.do = "insertCheck" => ~RefersToCheck(steps[r][m], w.c)
            /\ w.do = "insertChannel" => ~RefersToChannel(steps[r][m], w.h)

Reassigned(c) ==
    \E q \in Slots : steps[q] # <<>> /\ steps[q][1].do = "assignAll" /\ steps[q][1].c = c

WiredPlaced ==
    \A x \in wired :
        /\ home[x[1]] # Gone /\ place[x[2]] # Gone
        /\ home[x[1]] = place[x[2]] \/ x[1] \in torn \/ Reassigned(x[1])

PlacesKept == StepsPlaced /\ IdsReserved /\ WiredPlaced

\* Statements that rely on where a check is.
RelyOnCheck(w, c) ==
    \/ w.do \in {"insertCheck", "assign", "assignAll", "switch"} /\ w.c = c
    \/ w.do = "assignChecks" /\ c \in w.checks

LEMMA StepTypes ==
    ASSUME NEW w \in GoodSteps
    PROVE  /\ w.do \in {"insertCheck", "moveCheck", "assignAll"} =>
                 w.c \in Checks /\ w.p \in ProjectIds
           /\ w.do = "deleteCheck" => w.c \in Checks
           /\ w.do = "assign" => w.c \in Checks /\ w.channels \subseteq Hooks
           /\ w.do = "switch" => w.c \in Checks /\ w.h \in Hooks
           /\ w.do = "assignChecks" =>
                 w.h \in Hooks /\ w.p \in ProjectIds /\ w.checks \subseteq Checks
           /\ w.do = "insertChannel" => w.h \in Hooks /\ w.p \in ProjectIds
BY StepsByDo DEF CheckInserts, CheckMoves, CheckDeletes, Assignments, AssignmentsOfAll,
   Switches, CheckAssignments, ChannelInserts

\* What is placed stays so, while the checks and channels it refers to stay, go, or
\* count as torn.
LEMMA NextStaysPlaced ==
    ASSUME NEW w \in GoodSteps, NextPlaced(w), torn \subseteq torn',
           \A c \in Checks : RelyOnCheck(w, c) =>
               home'[c] \in {home[c], Gone} \/ (c \in torn' /\ home[c] # Gone),
           \A h \in Hooks : RefersToChannel(w, h) => place'[h] \in {place[h], Gone}
    PROVE  NextPlaced(w)'
<1>1. ASSUME NEW c \in Checks, RelyOnCheck(w, c), NEW p, CheckIn(c, p)
      PROVE  CheckIn(c, p)'
  BY <1>1 DEF CheckIn
<1>2. ASSUME NEW h \in Hooks, RefersToChannel(w, h), NEW p, ChannelIn(h, p)
      PROVE  ChannelIn(h, p)'
  BY <1>2 DEF ChannelIn
<1>3. CASE w.do = "insertCheck"
  <2>1. w.c \in Checks /\ RelyOnCheck(w, w.c) /\ home[w.c] = Gone
    BY <1>3, StepTypes DEF RelyOnCheck, NextPlaced
  <2>2. QED
    BY <1>3, <2>1 DEF NextPlaced
<1>4. CASE w.do = "insertChannel"
  <2>1. w.h \in Hooks /\ RefersToChannel(w, w.h) /\ place[w.h] = Gone
    BY <1>4, StepTypes DEF RefersToChannel, NextPlaced
  <2>2. QED
    BY <1>4, <2>1 DEF NextPlaced
<1>5. CASE w.do = "assignAll"
  <2>1. w.c \in Checks /\ RelyOnCheck(w, w.c) /\ CheckIn(w.c, w.p)
    BY <1>5, StepTypes DEF RelyOnCheck, NextPlaced
  <2>2. CheckIn(w.c, w.p)'
    BY <1>1, <2>1
  <2>3. QED
    BY <1>5, <2>2 DEF NextPlaced
<1>6. CASE w.do = "assign"
  <2>1. w.c \in Checks /\ RelyOnCheck(w, w.c) /\ w.channels \subseteq Hooks
    BY <1>6, StepTypes DEF RelyOnCheck
  <2>2. \A h \in w.channels : RefersToChannel(w, h)
    BY <1>6 DEF RefersToChannel
  <2>3. CASE w.c \in torn
    BY <1>6, <2>3 DEF NextPlaced
  <2>4. CASE w.c \notin torn
    <3>1. PICK p \in ProjectIds :
            CheckIn(w.c, p) /\ \A h \in w.channels : ChannelIn(h, p)
      BY <1>6, <2>4 DEF NextPlaced
    <3>2. CheckIn(w.c, p)' /\ \A h \in w.channels : ChannelIn(h, p)'
      BY <1>1, <1>2, <2>1, <2>2, <3>1
    <3>3. QED
      BY <1>6, <3>2 DEF NextPlaced
  <2>5. QED
    BY <2>3, <2>4
<1>7. CASE w.do = "switch"
  <2>1. w.c \in Checks /\ RelyOnCheck(w, w.c) /\ w.h \in Hooks /\ RefersToChannel(w, w.h)
    BY <1>7, StepTypes DEF RelyOnCheck, RefersToChannel
  <2>2. QED
    BY <1>7, <2>1 DEF NextPlaced
<1>8. CASE w.do = "assignChecks"
  <2>1. w.h \in Hooks /\ RefersToChannel(w, w.h) /\ w.checks \subseteq Checks
          /\ \A c \in w.checks : RelyOnCheck(w, c)
    BY <1>8, StepTypes DEF RelyOnCheck, RefersToChannel
  <2>2. ChannelIn(w.h, w.p)'
    BY <1>2, <1>8, <2>1 DEF NextPlaced
  <2>3. ~w.add => \A c \in w.checks : CheckIn(c, w.p)'
    BY <1>1, <1>8, <2>1 DEF NextPlaced
  <2>4. QED
    BY <1>8, <2>2, <2>3 DEF NextPlaced
<1>9. QED
  BY <1>3, <1>4, <1>5, <1>6, <1>7, <1>8 DEF NextPlaced

LEMMA LaterStaysPlaced ==
    ASSUME NEW v, NEW w \in GoodSteps, NEW n, LaterPlaced(v, w, n), torn \subseteq torn',
           \A h \in Hooks : RefersToChannel(w, h) => place'[h] \in {place[h], Gone}
    PROVE  LaterPlaced(v, w, n)'
<1>1. w.do = "assign" => \A h \in w.channels : h \in Hooks /\ RefersToChannel(w, h)
  BY StepTypes DEF RefersToChannel
<1>2. w.do = "assign" =>
        w.c \in torn' \/ \A h \in w.channels : ChannelIn(h, v.p)'
  BY <1>1 DEF LaterPlaced, ChannelIn
<1>3. QED
  BY <1>2 DEF LaterPlaced

LEMMA StaysPlaced ==
    ASSUME NEW s \in Seq(GoodSteps), Placed(s), torn \subseteq torn',
           \A n \in DOMAIN s : \A c \in Checks : RelyOnCheck(s[n], c) =>
               home'[c] \in {home[c], Gone} \/ (c \in torn' /\ home[c] # Gone),
           \A n \in DOMAIN s : \A h \in Hooks :
               RefersToChannel(s[n], h) => place'[h] \in {place[h], Gone}
    PROVE  Placed(s)'
<1>1. ASSUME s # <<>> PROVE NextPlaced(s[1])'
  <2>1. 1 \in DOMAIN s /\ s[1] \in GoodSteps /\ NextPlaced(s[1])
    BY <1>1 DEF Placed
  <2>2. QED
    BY <2>1, NextStaysPlaced
<1>2. ASSUME NEW n \in DOMAIN s, n # 1 PROVE LaterPlaced(s[1], s[n], n)'
  <2>1. s[n] \in GoodSteps /\ LaterPlaced(s[1], s[n], n)
    BY <1>2 DEF Placed
  <2>2. QED
    BY <2>1, LaterStaysPlaced
<1>3. QED
  BY <1>1, <1>2 DEF Placed

(***************************************************************************)
(* Requests that start, and where their checks and channels are.           *)
(***************************************************************************)

LEMMA NewIdsUnknown ==
    ASSUME OwnerInv, NEW r \in Slots, NEW m \in DOMAIN steps[r]
    PROVE  /\ \A c \in NewCheckIds : ~RefersToCheck(steps[r][m], c)
           /\ \A h \in NewChannelIds : ~RefersToChannel(steps[r][m], h)
<1> DEFINE w == steps[r][m]
<1>1. w \in GoodSteps
  BY DEF OwnerInv, StepsGood
<1>2. w \in Left
  BY DEF Left
<1> HIDE DEF w
<1>3. /\ w.do \in {"insertCheck", "moveCheck", "deleteCheck", "assign", "assignAll",
                   "switch"} => "c" \in DOMAIN w
      /\ w.do = "assignChecks" => "checks" \in DOMAIN w /\ "h" \in DOMAIN w
      /\ w.do \in {"switch", "insertChannel"} => "h" \in DOMAIN w
      /\ w.do = "assign" => "channels" \in DOMAIN w
  BY <1>1, StepsByDo DEF CheckInserts, CheckMoves, CheckDeletes, Assignments,
     AssignmentsOfAll, Switches, CheckAssignments, ChannelInserts
<1>4. \A c \in NewCheckIds : ~RefersToCheck(w, c)
  BY <1>2, <1>3 DEF NewCheckIds, RefersToCheck
<1>5. \A h \in NewChannelIds : ~RefersToChannel(w, h)
  BY <1>2, <1>3 DEF NewChannelIds, RefersToChannel
<1>6. QED
  BY <1>4, <1>5 DEF w

\* A statement refers to rows that exist, or to an id nobody knows.
KnownIds(w) ==
    /\ \A c \in Checks : RefersToCheck(w, c) => home[c] # Gone \/ c \in NewCheckIds
    /\ \A h \in Hooks : RefersToChannel(w, h) => place[h] # Gone \/ h \in NewChannelIds
    /\ w.do = "insertCheck" => w.c \in NewCheckIds
    /\ w.do = "insertChannel" => w.h \in NewChannelIds

LEMMA StartReserved ==
    ASSUME OwnerInv, StepsPlaced, IdsReserved, NEW q \in Slots, NEW left,
           steps' = [steps EXCEPT ![q] = left],
           \A n \in DOMAIN left : KnownIds(left[n])
    PROVE  IdsReserved'
<1>1. \A r \in Slots : steps'[r] = IF r = q THEN left ELSE steps[r]
  BY DEF OwnerInv, StepsGood
<1>2. SUFFICES ASSUME NEW x \in Slots, NEW y \in Slots, x # y,
                      NEW n \in DOMAIN steps'[x], NEW m \in DOMAIN steps'[y]
               PROVE  /\ steps'[x][n].do = "insertCheck" =>
                            ~RefersToCheck(steps'[y][m], steps'[x][n].c)
                      /\ steps'[x][n].do = "insertChannel" =>
                            ~RefersToChannel(steps'[y][m], steps'[x][n].h)
  BY DEF IdsReserved, RefersToCheck, RefersToChannel
<1>3. CASE x # q /\ y # q
  BY <1>1, <1>2, <1>3 DEF IdsReserved
<1>4. CASE x = q
  <2>1. KnownIds(steps'[x][n]) /\ steps'[y] = steps[y]
    BY <1>1, <1>2, <1>4
  <2>2. QED
    BY <2>1, NewIdsUnknown DEF KnownIds
<1>5. CASE y = q
  <2> DEFINE w == steps[x][n]
  <2>1. steps'[x] = steps[x] /\ n \in DOMAIN steps[x] /\ KnownIds(steps'[y][m])
    BY <1>1, <1>2, <1>5
  <2>2. w \in GoodSteps /\ steps[x] # <<>>
    BY <2>1 DEF OwnerInv, StepsGood
  <2>3. w.do \in {"insertCheck", "insertChannel"} => n = 1 /\ NextPlaced(w)
    BY <2>1, <2>2 DEF StepsPlaced, Placed, LaterPlaced
  <2>4. CASE w.do = "insertCheck"
    <3>1. w.c \in Checks /\ home[w.c] = Gone /\ RefersToCheck(w, w.c)
      BY <2>2, <2>3, <2>4, StepTypes DEF NextPlaced, RefersToCheck
    <3>2. w.c \notin NewCheckIds
      BY <2>1, <3>1, NewIdsUnknown
    <3>3. QED
      BY <2>1, <2>4, <3>1, <3>2 DEF KnownIds
  <2>5. CASE w.do = "insertChannel"
    <3>1. w.h \in Hooks /\ place[w.h] = Gone /\ RefersToChannel(w, w.h)
      BY <2>2, <2>3, <2>5, StepTypes DEF NextPlaced, RefersToChannel
    <3>2. w.h \notin NewChannelIds
      BY <2>1, <3>1, NewIdsUnknown
    <3>3. QED
      BY <2>1, <2>5, <3>1, <3>2 DEF KnownIds
  <2>6. QED
    BY <2>1, <2>4, <2>5
<1>6. QED
  BY <1>3, <1>4, <1>5

LEMMA StartPlaced ==
    ASSUME OwnerInv, PlacesKept, NEW q \in Slots, NEW left,
           Starts(q, left), UNCHANGED rows, torn \subseteq torn',
           \A n \in DOMAIN left : KnownIds(left[n]), Placed(left)'
    PROVE  PlacesKept'
<1>1. /\ \A r \in Slots : steps'[r] = IF r = q THEN left ELSE steps[r]
      /\ steps[q] = <<>> /\ steps' = [steps EXCEPT ![q] = left]
      /\ UNCHANGED <<home, place, wired>>
  BY DEF Starts, OwnerInv, StepsGood, rows
<1>2. StepsPlaced'
  <2>1. ASSUME NEW r \in Slots, r # q PROVE Placed(steps[r])'
    <3>1. PICK s : s = steps[r]
      OBVIOUS
    <3>2. s \in Seq(GoodSteps) /\ Placed(s)
      BY <3>1 DEF PlacesKept, StepsPlaced, OwnerInv, StepsGood
    <3>3. \A n \in DOMAIN s : \A c \in Checks : RelyOnCheck(s[n], c) =>
              home'[c] \in {home[c], Gone} \/ (c \in torn' /\ home[c] # Gone)
      BY <1>1
    <3>4. \A n \in DOMAIN s : \A h \in Hooks :
              RefersToChannel(s[n], h) => place'[h] \in {place[h], Gone}
      BY <1>1
    <3>5. Placed(s)'
      BY <3>2, <3>3, <3>4, StaysPlaced
    <3>6. steps'[r] = s
      BY <1>1, <2>1, <3>1
    <3>7. QED
      BY <3>5, <3>6 DEF Placed, NextPlaced, LaterPlaced, CheckIn, ChannelIn
  <2>2. Placed(steps[q])'
    BY <1>1 DEF Placed, NextPlaced, LaterPlaced, CheckIn, ChannelIn
  <2>3. QED
    BY <2>1, <2>2 DEF StepsPlaced
<1>3. IdsReserved'
  BY <1>1, StartReserved DEF PlacesKept
<1>4. WiredPlaced'
  <2>1. \A c : Reassigned(c) => Reassigned(c)'
    BY <1>1 DEF Reassigned
  <2>2. QED
    BY <1>1, <2>1 DEF PlacesKept, WiredPlaced
<1>5. QED
  BY <1>2, <1>3, <1>4 DEF PlacesKept

LEMMA OneKnown ==
    ASSUME OwnerInv, PlacesKept, NEW q \in Slots, NEW w \in GoodSteps,
           Starts(q, <<w>>), UNCHANGED rows, torn \subseteq torn', KnownIds(w),
           NextPlaced(w)', w.do # "moveCheck"
    PROVE  PlacesKept'
<1> DEFINE left == <<w>>
<1>1. left \in Seq(GoodSteps) /\ left # <<>> /\ left[1] = w
        /\ \A n \in DOMAIN left : n = 1
  OBVIOUS
<1>2. Starts(q, left)
  OBVIOUS
<1> HIDE DEF left
<1>3. Placed(left)'
  BY <1>1 DEF Placed
<1>4. \A n \in DOMAIN left : KnownIds(left[n])
  BY <1>1
<1>5. QED
  BY <1>1, <1>2, <1>3, <1>4, StartPlaced

LEMMA TwoKnown ==
    ASSUME OwnerInv, PlacesKept, NEW q \in Slots, NEW w \in GoodSteps,
           NEW x \in GoodSteps, Starts(q, <<w, x>>), UNCHANGED rows,
           torn \subseteq torn', KnownIds(w), KnownIds(x),
           NextPlaced(w)', LaterPlaced(w, x, 2)',
           w.do = "moveCheck" => x.do = "assignAll" /\ x.c = w.c
    PROVE  PlacesKept'
<1> DEFINE left == <<w, x>>
<1>1. left \in Seq(GoodSteps) /\ left # <<>> /\ left[1] = w /\ left[2] = x
        /\ DOMAIN left = {1, 2}
  OBVIOUS
<1>2. Starts(q, left)
  OBVIOUS
<1> HIDE DEF left
<1>3. Placed(left)'
  BY <1>1 DEF Placed
<1>4. \A n \in DOMAIN left : KnownIds(left[n])
  BY <1>1
<1>5. QED
  BY <1>1, <1>2, <1>3, <1>4, StartPlaced

\* Statements about projects and members, and deletions.
Harmless(w) ==
    w.do \in {"saveProject", "accept", "insertMember", "saveMember", "deleteMember",
              "clearAsked", "deleteCheck", "deleteProject"}

LEMMA HarmlessPlaced ==
    ASSUME NEW s, \A n \in DOMAIN s : Harmless(s[n]), s # <<>> => 1 \in DOMAIN s
    PROVE  Placed(s)'
BY DEF Harmless, Placed, NextPlaced, LaterPlaced

LEMMA HarmlessStart ==
    ASSUME OwnerInv, PlacesKept, NEW q \in Slots, NEW S, NEW left \in Seq(S),
           Starts(q, left), UNCHANGED <<rows, torn>>,
           \A n \in DOMAIN left : /\ Harmless(left[n])
                                  /\ left[n].do = "deleteCheck" => home[left[n].c] # Gone
    PROVE  PlacesKept'
<1>1. \A n \in DOMAIN left : KnownIds(left[n])
  BY DEF Harmless, KnownIds, RefersToCheck, RefersToChannel
<1>2. left # <<>> => 1 \in DOMAIN left
  OBVIOUS
<1>3. Placed(left)'
  BY <1>2, HarmlessPlaced
<1>4. QED
  BY <1>1, <1>3, StartPlaced

LEMMA HarmlessOne ==
    ASSUME OwnerInv, PlacesKept, NEW q \in Slots, NEW w,
           Starts(q, <<w>>), UNCHANGED <<rows, torn>>, Harmless(w),
           w.do = "deleteCheck" => home[w.c] # Gone
    PROVE  PlacesKept'
<1> DEFINE left == <<w>>
<1>1. left \in Seq({w}) /\ \A n \in DOMAIN left : left[n] = w
  OBVIOUS
<1>2. Starts(q, left)
  OBVIOUS
<1> HIDE DEF left
<1>3. QED
  BY <1>1, <1>2, HarmlessStart

LEMMA ProjectViewPlaced ==
    ASSUME OwnerInv, PlacesKept, NEW q \in Slots, NEW u \in People,
           NEW p \in ProjectIds, ProjectView(q, u, p)
    PROVE  PlacesKept'
<1>1. CASE AddProject(q, u, p)
  <2> DEFINE w == SavesProject(p, [owner |-> u, key |-> NoKey])
  <2>1. Starts(q, <<w>>) /\ UNCHANGED <<rows, torn>> /\ w.do = "saveProject"
    BY <1>1 DEF AddProject, SavesProject
  <2> HIDE DEF w
  <2>2. QED
    BY <2>1, HarmlessOne DEF Harmless
<1>2. CASE CreateKey(q, u, p) \/ RevokeKey(q, u, p) \/ ShowSlugs(q, u, p)
  <2>1. PICK row : Starts(q, <<SavesProject(p, row)>>) /\ UNCHANGED <<rows, torn>>
    BY <1>2 DEF CreateKey, RevokeKey, ShowSlugs, claims
  <2>2. SavesProject(p, row).do = "saveProject"
    BY DEF SavesProject
  <2>3. QED
    BY <2>1, <2>2, HarmlessOne DEF Harmless
<1>3. ASSUME NEW v \in People, NEW role \in Roles, Invite(q, u, p, v, role)
      PROVE  PlacesKept'
  <2> DEFINE w == [do |-> "insertMember", row |->
                     [user |-> v, project |-> p, role |-> role, asked |-> FALSE]]
  <2>1. Starts(q, <<w>>) /\ UNCHANGED <<rows, torn>> /\ w.do = "insertMember"
    BY <1>3 DEF Invite, claims
  <2> HIDE DEF w
  <2>2. QED
    BY <2>1, HarmlessOne DEF Harmless
<1>4. CASE LeaveProject(q, u, p) \/ \E v \in People : RemoveTeamMember(q, u, p, v)
  <2>1. PICK v \in People : Starts(q, <<DeletesMember(v, p)>>) /\ UNCHANGED <<rows, torn>>
    BY <1>4 DEF LeaveProject, RemoveTeamMember, claims
  <2>2. DeletesMember(v, p).do = "deleteMember"
    BY DEF DeletesMember
  <2>3. QED
    BY <2>1, <2>2, HarmlessOne DEF Harmless
<1>5. CASE CancelTransfer(q, u, p)
  <2>1. ClearsAsked(p).do = "clearAsked"
    BY DEF ClearsAsked
  <2>2. QED
    BY <1>5, <2>1, HarmlessOne DEF Harmless, CancelTransfer, claims
<1>6. ASSUME NEW i \in MemberIds, TransferProject(q, u, p, i) PROVE PlacesKept'
  <2> DEFINE w == ClearsAsked(p)
             x == SavesMember(i, [member[i] EXCEPT !.asked = TRUE])
             left == <<w, x>>
  <2>1. Starts(q, left) /\ UNCHANGED <<rows, torn>>
    BY <1>6 DEF TransferProject, claims
  <2>2. w.do = "clearAsked" /\ x.do = "saveMember"
    BY DEF ClearsAsked, SavesMember
  <2> HIDE DEF w, x
  <2>3. left \in Seq({w, x}) /\ \A n \in DOMAIN left : left[n] \in {w, x}
    OBVIOUS
  <2> HIDE DEF left
  <2>4. QED
    BY <2>1, <2>2, <2>3, HarmlessStart DEF Harmless
<1>7. ASSUME NEW i \in MemberIds, AcceptTransfer(q, u, p, i) \/ RejectTransfer(q, u, p, i)
      PROVE  PlacesKept'
  <2>1. PICK w : /\ Starts(q, <<w>>) /\ UNCHANGED <<rows, torn>>
                 /\ w.do \in {"accept", "saveMember"}
    BY <1>7 DEF AcceptTransfer, RejectTransfer, SavesMember, claims
  <2>2. QED
    BY <2>1, HarmlessOne DEF Harmless
<1>8. CASE RemoveProject(q, u, p)
  <2> DEFINE ids == SetToSeq(ChecksIn(p))
             each == [n \in 1 .. Cardinality(ChecksIn(p)) |-> DeletesCheck(ids[n])]
             final == [do |-> "deleteProject", p |-> p]
             S == {DeletesCheck(c) : c \in ChecksIn(p)} \union {final}
  <2>1. ids \in [1 .. Cardinality(ChecksIn(p)) -> ChecksIn(p)]
    BY NumbersOfChecks, SequenceOfSet
  <2>2. each \in Seq(S)
    <3>1. \A n \in 1 .. Cardinality(ChecksIn(p)) : each[n] \in S
      BY <2>1
    <3> HIDE DEF S
    <3>2. QED
      BY <3>1, NumbersOfChecks
  <2>3. <<final>> \in Seq(S)
    OBVIOUS
  <2>4. \A w \in S : Harmless(w) /\ (w.do = "deleteCheck" => home[w.c] # Gone)
    BY ProjectsAssumption DEF DeletesCheck, Harmless, ChecksIn
  <2>5. Starts(q, each \o <<final>>) /\ UNCHANGED <<rows, torn>>
    BY <1>8 DEF RemoveProject, claims
  <2> HIDE DEF each, final, S
  <2>6. each \o <<final>> \in Seq(S)
    BY <2>2, <2>3, ConcatProperties
  <2>7. \A n \in DOMAIN (each \o <<final>>) : (each \o <<final>>)[n] \in S
    BY <2>6
  <2>8. QED
    BY <2>4, <2>5, <2>6, <2>7, HarmlessStart
<1>9. QED
  BY <1>1, <1>2, <1>3, <1>4, <1>5, <1>6, <1>7, <1>8 DEF ProjectView

\* Of the statements about one check, and the channels of its project.
LEMMA CheckKnown ==
    ASSUME NEW c \in Checks, NEW p, home[c] # Gone \/ c \in NewCheckIds
    PROVE  /\ KnownIds(AssignsAll(c, p)) /\ KnownIds(DeletesCheck(c))
           /\ \A channels, add : (\A h \in channels : place[h] # Gone) =>
                 KnownIds(Assigns(c, channels, add))
           /\ \A limit : c \in NewCheckIds => KnownIds(InsertsCheck(c, p, limit))
BY DEF KnownIds, AssignsAll, DeletesCheck, Assigns, InsertsCheck, RefersToCheck,
   RefersToChannel

\* A check that is inserted and then assigned to all channels.
LEMMA InsertPlaced ==
    ASSUME NEW c \in Checks, NEW p, NEW limit, c \in NewCheckIds, UNCHANGED home,
           NEW w, w = InsertsCheck(c, p, limit), NEW x, x = AssignsAll(c, p)
    PROVE  NextPlaced(w)' /\ LaterPlaced(w, x, 2)'
<1>1. home'[c] = Gone
  BY DEF NewCheckIds
<1>2. /\ w.do = "insertCheck" /\ w.c = c /\ w.p = p
      /\ x.do = "assignAll" /\ x.c = c /\ x.p = p
  BY DEF InsertsCheck, AssignsAll
<1>3. QED
  BY <1>1, <1>2 DEF NextPlaced, LaterPlaced

LEMMA InsertStart ==
    ASSUME OwnerInv, PlacesKept, NEW q \in Slots, NEW c \in NewCheckIds,
           NEW p \in ProjectIds, Live(p),
           NEW limit \in {CheckLimit, 2 * CheckLimit}, Used(project[p].owner) < limit,
           Starts(q, <<InsertsCheck(c, p, limit), AssignsAll(c, p)>>),
           UNCHANGED <<rows, torn>>
    PROVE  PlacesKept'
<1>1. PICK w, x : w = InsertsCheck(c, p, limit) /\ x = AssignsAll(c, p)
  OBVIOUS
<1>2. c \in Checks /\ UNCHANGED home
  BY DEF NewCheckIds, rows
<1>3. w \in GoodSteps /\ x \in GoodSteps /\ KnownIds(w) /\ KnownIds(x)
  BY <1>1, <1>2, CheckInserted, CheckStatements, CheckKnown
<1>4. NextPlaced(w)' /\ LaterPlaced(w, x, 2)'
  BY <1>1, <1>2, InsertPlaced
<1>5. w.do = "insertCheck"
  BY <1>1 DEF InsertsCheck
<1>6. QED
  BY <1>1, <1>3, <1>4, <1>5, TwoKnown

\* The channels of the check that is copied are in its project, or else the check,
\* and then its copy, count as torn.
LEMMA CopyStart ==
    ASSUME OwnerInv, PlacesKept, NEW q \in Slots, NEW u \in People,
           NEW p \in ProjectIds, NEW from \in Checks, NEW c, CopyCheck(q, u, p, from, c)
    PROVE  PlacesKept'
<1> DEFINE channels == {h \in Hooks : <<from, h>> \in wired}
<1>1. PICK w, x : w = InsertsCheck(c, p, CheckLimit) /\ x = Assigns(c, channels, TRUE)
  OBVIOUS
<1>2. /\ home[from] = p /\ Live(p) /\ c \in NewCheckIds /\ c \in Checks
      /\ Used(project[p].owner) < CheckLimit
      /\ Starts(q, <<w, x>>) /\ UNCHANGED rows
      /\ torn' = IF from \in torn \/ Assigning(from) # {}
                 THEN torn \union {c} ELSE torn
  BY <1>1, RightsAreLive DEF CopyCheck, Available, ChecksIn, NewCheckIds
<1>3. UNCHANGED <<home, place>>
  BY <1>2 DEF rows
<1>4. \A h \in channels : /\ place[h] # Gone
                          /\ home[from] = place[h] \/ from \in torn \/ Reassigned(from)
  BY DEF PlacesKept, WiredPlaced
<1>5. Reassigned(from) => Assigning(from) # {}
  <2>1. SUFFICES ASSUME Reassigned(from) PROVE Assigning(from) # {}
    OBVIOUS
  <2>2. PICK r \in Slots : steps[r] # <<>> /\ steps[r][1].do = "assignAll"
                             /\ steps[r][1].c = from
    BY <2>1 DEF Reassigned
  <2>3. 1 \in DOMAIN steps[r]
    BY <2>2, NextStepGood
  <2>4. r \in Assigning(from)
    BY <2>2, <2>3 DEF Assigning
  <2>5. QED
    BY <2>4
<1>6. c \in torn' \/ \A h \in channels : place'[h] = p
  BY <1>2, <1>3, <1>4, <1>5
<1>7. w.do = "insertCheck" /\ w.c = c /\ w.p = p
        /\ x.do = "assign" /\ x.c = c /\ x.channels = channels
  BY <1>1 DEF InsertsCheck, Assigns
<1>8. w \in GoodSteps /\ x \in GoodSteps /\ KnownIds(w) /\ KnownIds(x)
  <2>1. channels \in SUBSET Hooks /\ CheckLimit \in Nat
    BY ProjectsAssumption
  <2> HIDE DEF channels
  <2>2. QED
    BY <1>1, <1>2, <1>4, <2>1, CheckInserted, CheckStatements, CheckKnown
<1>9. NextPlaced(w)'
  BY <1>1, <1>2, <1>3, InsertPlaced
<1> HIDE DEF channels
<1>10. LaterPlaced(w, x, 2)'
  BY <1>6, <1>7 DEF LaterPlaced, ChannelIn
<1>11. torn \subseteq torn'
  BY <1>2
<1>12. QED
  BY <1>2, <1>7, <1>8, <1>9, <1>10, <1>11, TwoKnown

LEMMA MoveStart ==
    ASSUME OwnerInv, PlacesKept, NEW q \in Slots, NEW u \in People,
           NEW p \in ProjectIds, NEW to \in ProjectIds, NEW c \in Checks,
           TransferCheck(q, u, c, p, to)
    PROVE  PlacesKept'
<1>1. PICK w, x :
        /\ w = [do |-> "moveCheck", c |-> c, p |-> to, owner |-> project[to].owner,
                from |-> project[p].owner, used |-> Used(project[to].owner)]
        /\ x = AssignsAll(c, to)
  OBVIOUS
<1>2. /\ Starts(q, <<w, x>>) /\ UNCHANGED <<rows, torn>> /\ home[c] = p
      /\ Live(p) /\ Live(to)
      /\ project[p].owner # project[to].owner => Used(project[to].owner) < CheckLimit
  BY <1>1, RightsAreLive DEF TransferCheck, Available, ChecksIn, claims
<1>3. w \in GoodSteps
  BY <1>1, <1>2, LiveRow, NumbersOfChecks DEF GoodSteps, CheckMoves
<1>4. w.do = "moveCheck" /\ w.c = c /\ w.p = to
        /\ x.do = "assignAll" /\ x.c = c /\ x.p = to
  BY <1>1 DEF AssignsAll
<1>5. home[c] # Gone
  BY <1>2, ProjectsAssumption
<1>6. x \in GoodSteps /\ KnownIds(x)
  BY <1>1, <1>5, CheckStatements, CheckKnown
<1>7. KnownIds(w)
  BY <1>4, <1>5 DEF KnownIds, RefersToCheck, RefersToChannel
<1>8. NextPlaced(w)' /\ LaterPlaced(w, x, 2)'
  BY <1>4 DEF NextPlaced, LaterPlaced
<1>9. QED
  BY <1>2, <1>3, <1>4, <1>6, <1>7, <1>8, TwoKnown

LEMMA CheckViewPlaced ==
    ASSUME OwnerInv, PlacesKept, NEW q \in Slots, NEW u \in People,
           NEW p \in ProjectIds, NEW c \in Checks, CheckView(q, u, p, c)
    PROVE  PlacesKept'
<1>1. CASE AddCheck(q, u, p, c)
  BY <1>1, RightsAreLive, InsertStart DEF AddCheck, Available, claims
<1>2. CASE RemoveCheck(q, u, p, c)
  <2>1. /\ home[c] # Gone /\ Starts(q, <<DeletesCheck(c)>>) /\ UNCHANGED <<rows, torn>>
        /\ DeletesCheck(c).do = "deleteCheck" /\ DeletesCheck(c).c = c
    BY <1>2, ProjectsAssumption DEF RemoveCheck, ChecksIn, DeletesCheck, claims
  <2>2. QED
    BY <2>1, HarmlessOne DEF Harmless
<1>3. QED
  BY <1>1, <1>2, CopyStart, MoveStart DEF CheckView

LEMMA ChannelViewPlaced ==
    ASSUME OwnerInv, PlacesKept, NEW q \in Slots, NEW u \in People, NEW h \in Hooks,
           ChannelView(q, u, h)
    PROVE  PlacesKept'
<1>1. ASSUME NEW c \in Checks, NEW on \in BOOLEAN, SwitchAssigned(q, u, c, h, on)
      PROVE  PlacesKept'
  <2>1. PICK w : w = [do |-> "switch", c |-> c, h |-> h, on |-> on]
    OBVIOUS
  <2>2. /\ home[c] # Gone /\ place[h] = home[c] /\ Starts(q, <<w>>)
        /\ UNCHANGED <<rows, torn>> /\ home[c] \in ProjectIds
    BY <1>1, <2>1 DEF SwitchAssigned, OwnerInv, ProjectsTyped, claims
  <2>3. w \in GoodSteps /\ w.do = "switch" /\ w.c = c /\ w.h = h
    BY <2>1, <2>2, CheckStatements
  <2>4. KnownIds(w)
    BY <2>2, <2>3 DEF KnownIds, RefersToCheck, RefersToChannel
  <2>5. NextPlaced(w)'
    BY <2>2, <2>3 DEF NextPlaced, rows
  <2>6. QED
    BY <2>2, <2>3, <2>4, <2>5, OneKnown
<1>2. ASSUME NEW p \in ProjectIds, SetChecks(q, u, p, h) PROVE PlacesKept'
  <2>1. PICK s \in SUBSET ChecksIn(p) : Starts(q, <<AssignsChecks(h, p, s, FALSE)>>)
    BY <1>2 DEF SetChecks
  <2>2. PICK w : w = AssignsChecks(h, p, s, FALSE)
    OBVIOUS
  <2>3. /\ place[h] = p /\ UNCHANGED <<rows, torn>> /\ p # Gone
        /\ \A c \in s : c \in Checks /\ home[c] = p
    BY <1>2, <2>1, ProjectsAssumption DEF SetChecks, ChannelsIn, ChecksIn, claims
  <2>4. w \in GoodSteps
    BY <2>2, <2>3, ChannelStatements
  <2>5. w.do = "assignChecks" /\ w.h = h /\ w.p = p /\ w.checks = s
    BY <2>2 DEF AssignsChecks
  <2>6. KnownIds(w)
    BY <2>3, <2>5 DEF KnownIds, RefersToCheck, RefersToChannel
  <2>7. NextPlaced(w)'
    BY <2>3, <2>5 DEF NextPlaced, ChannelIn, CheckIn, rows
  <2>8. QED
    BY <2>1, <2>2, <2>3, <2>4, <2>5, <2>6, <2>7, OneKnown
<1>3. ASSUME NEW p \in ProjectIds, AddIntegration(q, u, p, h) PROVE PlacesKept'
  <2>1. PICK w, x : /\ w = [do |-> "insertChannel", h |-> h, p |-> p]
                    /\ x = AssignsChecks(h, p, {}, TRUE)
    OBVIOUS
  <2>2. /\ h \in NewChannelIds /\ Starts(q, <<w, x>>) /\ UNCHANGED <<rows, torn>>
        /\ place[h] = Gone
    BY <1>3, <2>1 DEF AddIntegration, NewChannelIds, claims
  <2>3. w \in GoodSteps /\ x \in GoodSteps
    BY <2>1, ChannelStatements
  <2>4. /\ w.do = "insertChannel" /\ w.h = h /\ w.p = p
        /\ x.do = "assignChecks" /\ x.h = h /\ x.p = p /\ x.checks = {} /\ x.add
    BY <2>1 DEF AssignsChecks
  <2>5. KnownIds(w) /\ KnownIds(x)
    BY <2>2, <2>4 DEF KnownIds, RefersToCheck, RefersToChannel
  <2>6. NextPlaced(w)' /\ LaterPlaced(w, x, 2)'
    BY <2>2, <2>4 DEF NextPlaced, LaterPlaced, rows
  <2>7. QED
    BY <2>2, <2>3, <2>4, <2>5, <2>6, TwoKnown
<1>4. QED
  BY <1>1, <1>2, <1>3 DEF ChannelView

LEMMA ApiViewPlaced ==
    ASSUME OwnerInv, PlacesKept, NEW q \in Slots, NEW p \in ProjectIds,
           NEW c \in Checks, ApiView(q, p, c)
    PROVE  PlacesKept'
<1>1. p # Gone
  BY ProjectsAssumption
<1>2. ASSUME NEW s \in SUBSET ChannelsIn(p)
      PROVE  s \in SUBSET Hooks /\ \A h \in s : place[h] = p
  BY DEF ChannelsIn
<1>3. CASE CreateCheck(q, p, c)
  <2>1. /\ Live(p) /\ Used(project[p].owner) < CheckLimit
        /\ c \in NewCheckIds /\ UNCHANGED <<rows, torn>>
    BY <1>3, RightsAreLive DEF CreateCheck, Available, claims
  <2>2. PICK w : w = InsertsCheck(c, p, CheckLimit)
    OBVIOUS
  <2>3. PICK more \in SpecChannels(c, p) : Starts(q, <<w>> \o more)
    BY <1>3, <2>2 DEF CreateCheck
  <2>4. w \in GoodSteps /\ KnownIds(w) /\ w.do = "insertCheck" /\ w.c = c /\ w.p = p
    <3>1. w \in GoodSteps /\ KnownIds(w)
      BY <2>1, <2>2, CheckInserted, CheckKnown
    <3>2. w.do = "insertCheck" /\ w.c = c /\ w.p = p
      BY <2>2 DEF InsertsCheck
    <3>3. QED
      BY <3>1, <3>2
  <2>5. NextPlaced(w)'
    BY <2>1, <2>2, InsertPlaced DEF rows
  <2>6. <<w>> \in Seq(GoodSteps)
    BY <2>4
  <2>7. CASE more = <<>>
    <3>1. <<w>> \o more = <<w>>
      BY <2>6, <2>7, ConcatEmptySeq
    <3>2. Starts(q, <<w>>)
      BY <2>3, <3>1
    <3>3. QED
      BY <2>1, <2>4, <2>5, <3>2, OneKnown
  <2>8. CASE more = <<AssignsAll(c, p)>>
    <3>1. <<w>> \o more = <<w, AssignsAll(c, p)>>
      BY <2>8, JoinedTwo
    <3>2. Starts(q, <<InsertsCheck(c, p, CheckLimit), AssignsAll(c, p)>>)
      BY <2>2, <2>3, <3>1
    <3>3. QED
      BY <2>1, <3>2, InsertStart
  <2>9. ASSUME NEW s \in SUBSET ChannelsIn(p), more = <<Assigns(c, s, FALSE)>>
        PROVE  PlacesKept'
    <3>1. PICK x : x = Assigns(c, s, FALSE)
      OBVIOUS
    <3>2. Starts(q, <<w, x>>)
      BY <2>3, <2>9, <3>1, JoinedTwo
    <3>3. x \in GoodSteps /\ KnownIds(x)
      BY <1>1, <1>2, <2>1, <3>1, CheckStatements, CheckKnown
    <3>4. x.do = "assign" /\ x.c = c /\ x.channels = s
      BY <3>1 DEF Assigns
    <3>5. LaterPlaced(w, x, 2)'
      BY <1>2, <2>1, <2>4, <3>4 DEF LaterPlaced, ChannelIn, rows
    <3>6. QED
      BY <2>1, <2>4, <2>5, <3>2, <3>3, <3>5, TwoKnown
  <2>10. QED
    BY <2>7, <2>8, <2>9 DEF SpecChannels
<1>4. CASE UpdateCheck(q, p, c)
  <2>1. home[c] = p /\ UNCHANGED <<rows, torn>>
    BY <1>4 DEF UpdateCheck, ChecksIn, claims
  <2>2. PICK more \in SpecChannels(c, p) \ {<<>>} : Starts(q, more)
    BY <1>4 DEF UpdateCheck
  <2>3. CASE more = <<AssignsAll(c, p)>>
    <3>1. PICK w : w = AssignsAll(c, p)
      OBVIOUS
    <3>2. w \in GoodSteps /\ KnownIds(w) /\ Starts(q, <<w>>)
      BY <1>1, <2>1, <2>2, <2>3, <3>1, CheckStatements, CheckKnown
    <3>3. w.do = "assignAll" /\ w.c = c /\ w.p = p
      BY <3>1 DEF AssignsAll
    <3>4. NextPlaced(w)'
      BY <2>1, <3>3 DEF NextPlaced, CheckIn, rows
    <3>5. QED
      BY <2>1, <3>2, <3>3, <3>4, OneKnown
  <2>4. ASSUME NEW s \in SUBSET ChannelsIn(p), more = <<Assigns(c, s, FALSE)>>
        PROVE  PlacesKept'
    <3>1. PICK w : w = Assigns(c, s, FALSE)
      OBVIOUS
    <3>2. w \in GoodSteps /\ KnownIds(w) /\ Starts(q, <<w>>)
      BY <1>1, <1>2, <2>1, <2>2, <2>4, <3>1, CheckStatements, CheckKnown
    <3>3. w.do = "assign" /\ w.c = c /\ w.channels = s
      BY <3>1 DEF Assigns
    <3>4. NextPlaced(w)'
      BY <1>2, <2>1, <3>3 DEF NextPlaced, CheckIn, ChannelIn, rows
    <3>5. QED
      BY <2>1, <3>2, <3>3, <3>4, OneKnown
  <2>5. QED
    BY <2>2, <2>3, <2>4 DEF SpecChannels
<1>5. CASE PingBySlug(q, p, c)
  <2>1. Live(p) /\ Used(project[p].owner) < 2 * CheckLimit
    BY <1>5, RightsAreLive DEF PingBySlug
  <2>2. QED
    BY <1>5, <2>1, InsertStart DEF PingBySlug, claims
<1>6. QED
  BY <1>3, <1>4, <1>5 DEF ApiView

(***************************************************************************)
(* Statements that are executed, and what stays placed.                    *)
(***************************************************************************)

LEMMA FewerReserved ==
    ASSUME IdsReserved,
           \A r \in Slots : \A n \in DOMAIN steps'[r] :
               \E m \in DOMAIN steps[r] : steps'[r][n] = steps[r][m]
    PROVE  IdsReserved'
BY DEF IdsReserved, RefersToCheck, RefersToChannel

\* The statement that comes next is placed by the one that was executed.
LEMMA RestPlaced ==
    ASSUME NEW s \in Seq(GoodSteps), s # <<>>, Placed(s), torn \subseteq torn',
           s[1].do \in {"insertCheck", "moveCheck"} => home'[s[1].c] = s[1].p,
           s[1].do = "insertCheck" => UNCHANGED place,
           s[1].do = "insertChannel" => place'[s[1].h] = s[1].p
    PROVE  Placed(Tail(s))'
<1>1. PICK t : t = Tail(s)
  OBVIOUS
<1>2. \A n \in DOMAIN t : n \in Nat \ {0} /\ n + 1 \in DOMAIN s /\ t[n] = s[n + 1]
  BY <1>1, TailOf
<1>3. \A n \in DOMAIN t : LaterPlaced(s[1], t[n], n + 1)
  <2>1. SUFFICES ASSUME NEW n \in DOMAIN t PROVE LaterPlaced(s[1], t[n], n + 1)
    OBVIOUS
  <2>2. n + 1 \in DOMAIN s /\ n + 1 # 1 /\ t[n] = s[n + 1]
    BY <1>2
  <2>3. LaterPlaced(s[1], s[n + 1], n + 1)
    BY <2>2 DEF Placed
  <2>4. QED
    BY <2>2, <2>3
<1>4. t # <<>> => 1 \in DOMAIN t
  <2>1. t \in Seq(GoodSteps)
    BY <1>1
  <2>2. QED
    BY <2>1
<1>5. ASSUME t # <<>> PROVE NextPlaced(t[1])' /\ t[1].do # "moveCheck"
  <2>1. LaterPlaced(s[1], t[1], 2)
    BY <1>3, <1>4, <1>5
  <2>2. PICK v, x : v = s[1] /\ x = t[1]
    OBVIOUS
  <2>3. /\ LaterPlaced(v, x, 2) /\ v \in GoodSteps
        /\ v.do \in {"insertCheck", "moveCheck"} => home'[v.c] = v.p
        /\ v.do = "insertCheck" => UNCHANGED place
        /\ v.do = "insertChannel" => place'[v.h] = v.p
    BY <2>1, <2>2
  <2>4. CASE x.do = "assignAll"
    <3>1. CheckIn(x.c, x.p)'
      BY <2>3, <2>4 DEF LaterPlaced, CheckIn
    <3>2. QED
      BY <2>2, <2>4, <3>1 DEF NextPlaced
  <2>5. CASE x.do = "assign"
    <3>1. v.p \in ProjectIds /\ v.do = "insertCheck" /\ v.c = x.c
      BY <2>3, <2>5, StepTypes DEF LaterPlaced
    <3>2. CheckIn(x.c, v.p)'
      BY <2>3, <3>1 DEF CheckIn
    <3>3. x.c \in torn' \/ \A h \in x.channels : ChannelIn(h, v.p)'
      BY <2>3, <2>5, <3>1 DEF LaterPlaced, ChannelIn
    <3>4. NextPlaced(x)'
      BY <2>5, <3>1, <3>2, <3>3 DEF NextPlaced
    <3>5. QED
      BY <2>2, <2>5, <3>4
  <2>6. CASE x.do = "assignChecks"
    <3>1. ChannelIn(x.h, x.p)' /\ x.add
      BY <2>3, <2>6 DEF LaterPlaced, ChannelIn
    <3>2. QED
      BY <2>2, <2>6, <3>1 DEF NextPlaced
  <2>7. CASE x.do \notin {"assignAll", "assign", "assignChecks"}
    BY <2>2, <2>3, <2>7 DEF LaterPlaced, NextPlaced
  <2>8. QED
    BY <2>4, <2>5, <2>6, <2>7
<1>6. ASSUME NEW n \in DOMAIN t, n # 1 PROVE LaterPlaced(t[1], t[n], n)'
  <2>1. LaterPlaced(s[1], t[n], n + 1) /\ n + 1 # 2
    BY <1>2, <1>3, <1>6
  <2>2. QED
    BY <2>1 DEF LaterPlaced
<1>7. Placed(t)'
  BY <1>5, <1>6 DEF Placed
<1>8. QED
  BY <1>1, <1>7

LEMMA PerformedPlaced ==
    ASSUME OwnerInv, PlacesKept, NEW q \in Slots, steps[q] # <<>>,
           steps' = [steps EXCEPT ![q] = Tail(@)], torn \subseteq torn',
           NEW w, w = steps[q][1],
           w.do \in {"insertCheck", "moveCheck"} => home'[w.c] = w.p,
           w.do = "insertCheck" => UNCHANGED place,
           w.do = "insertChannel" => place'[w.h] = w.p,
           \A r \in Slots \ {q} : \A n \in DOMAIN steps[r] :
              /\ \A c \in Checks : RelyOnCheck(steps[r][n], c) =>
                    home'[c] \in {home[c], Gone} \/ (c \in torn' /\ home[c] # Gone)
              /\ \A h \in Hooks : RefersToChannel(steps[r][n], h) =>
                    place'[h] \in {place[h], Gone}
    PROVE  StepsPlaced' /\ IdsReserved'
<1>1. \A r \in Slots : /\ steps'[r] = IF r = q THEN Tail(steps[q]) ELSE steps[r]
                       /\ steps[r] \in Seq(GoodSteps) /\ Placed(steps[r])
  BY DEF OwnerInv, StepsGood, PlacesKept, StepsPlaced
<1>2. ASSUME NEW r \in Slots \ {q} PROVE Placed(steps[r])'
  <2>1. PICK s : s = steps[r]
    OBVIOUS
  <2>2. s \in Seq(GoodSteps) /\ Placed(s) /\ steps'[r] = s
    BY <1>1, <2>1
  <2>3. Placed(s)'
    BY <2>1, <2>2, StaysPlaced
  <2>4. QED
    BY <2>2, <2>3 DEF Placed, NextPlaced, LaterPlaced, CheckIn, ChannelIn
<1>3. Placed(steps[q])'
  <2>1. PICK s : s = steps[q]
    OBVIOUS
  <2>2. s \in Seq(GoodSteps) /\ Placed(s) /\ steps'[q] = Tail(s) /\ s # <<>> /\ w = s[1]
    BY <1>1, <2>1
  <2>3. Placed(Tail(s))'
    BY <2>2, RestPlaced
  <2>4. PICK t : t = Tail(s)
    OBVIOUS
  <2>5. Placed(t)' /\ steps'[q] = t
    BY <2>2, <2>3, <2>4 DEF Placed, NextPlaced, LaterPlaced, CheckIn, ChannelIn
  <2>6. steps[q]' = t
    BY <2>5
  <2>7. Placed(steps[q])'
    <3>1. ASSUME steps'[q] # <<>> PROVE NextPlaced(steps[q][1])'
      <4>1. NextPlaced(t[1])'
        BY <2>5, <2>6, <3>1 DEF Placed
      <4>2. QED
        BY <2>6, <4>1 DEF NextPlaced, CheckIn, ChannelIn
    <3>2. ASSUME NEW n \in DOMAIN steps'[q], n # 1
          PROVE  LaterPlaced(steps[q][1], steps[q][n], n)'
      <4>1. LaterPlaced(t[1], t[n], n)'
        BY <2>5, <2>6, <3>2 DEF Placed
      <4>2. QED
        BY <2>6, <4>1 DEF LaterPlaced, CheckIn, ChannelIn
    <3>3. ASSUME steps'[q] # <<>>, steps'[q][1].do = "moveCheck"
          PROVE  2 \in DOMAIN steps'[q] /\ steps'[q][2].do = "assignAll"
                   /\ steps'[q][2].c = steps'[q][1].c
      BY <2>5, <2>6, <3>3 DEF Placed
    <3>4. QED
      BY <3>1, <3>2, <3>3 DEF Placed
  <2>8. QED
    BY <2>7
<1>4. StepsPlaced'
  BY <1>2, <1>3 DEF StepsPlaced
<1>5. IdsReserved'
  <2>1. ASSUME NEW r \in Slots, NEW n \in DOMAIN steps'[r]
        PROVE  \E m \in DOMAIN steps[r] : steps'[r][n] = steps[r][m]
    <3>1. CASE r = q
      <4>1. steps'[r] = Tail(steps[q]) /\ n \in DOMAIN Tail(steps[q])
        BY <1>1, <2>1, <3>1
      <4>2. n + 1 \in DOMAIN steps[q] /\ Tail(steps[q])[n] = steps[q][n + 1]
        BY <1>1, <4>1, TailOf
      <4>3. QED
        BY <3>1, <4>1, <4>2
    <3>2. CASE r # q
      BY <1>1, <2>1, <3>2
    <3>3. QED
      BY <3>1, <3>2
  <2>2. QED
    BY <2>1, FewerReserved DEF PlacesKept
<1>6. QED
  BY <1>4, <1>5

\* A check that is to be reassigned by another request stays so.
LEMMA StillReassigned ==
    ASSUME OwnerInv, NEW q \in Slots, steps[q] # <<>>, NEW left,
           steps' = [steps EXCEPT ![q] = left], NEW c, Reassigned(c),
           ~(steps[q][1].do = "assignAll" /\ steps[q][1].c = c)
    PROVE  Reassigned(c)'
<1>1. PICK r \in Slots : steps[r] # <<>> /\ steps[r][1].do = "assignAll"
                           /\ steps[r][1].c = c
  BY DEF Reassigned
<1>2. r # q
  BY <1>1
<1>3. steps'[r] = steps[r]
  BY <1>2 DEF OwnerInv, StepsGood
<1>4. QED
  BY <1>1, <1>3 DEF Reassigned

\* Statements about projects and members move no check and no channel.
LEMMA MembersPlaced ==
    ASSUME OwnerInv, PlacesKept, NEW q \in Slots, steps[q] # <<>>,
           steps' = [steps EXCEPT ![q] = Tail(@)],
           NEW w, w = steps[q][1], Harmless(w), UNCHANGED <<home, place, wired, torn>>
    PROVE  PlacesKept'
<1>1. StepsPlaced' /\ IdsReserved'
  BY PerformedPlaced DEF Harmless
<1>2. \A c : Reassigned(c) => Reassigned(c)'
  <2>1. steps' = [steps EXCEPT ![q] = Tail(steps[q])]
    OBVIOUS
  <2>2. QED
    BY <2>1, StillReassigned DEF Harmless
<1>3. WiredPlaced'
  BY <1>2 DEF PlacesKept, WiredPlaced
<1>4. QED
  BY <1>1, <1>3 DEF PlacesKept

LEMMA InsertCheckPlaced ==
    ASSUME OwnerInv, PlacesKept, NEW q \in Slots, steps[q] # <<>>,
           steps' = [steps EXCEPT ![q] = Tail(@)],
           NEW w \in GoodSteps, w = steps[q][1], w.do = "insertCheck", DoInsertCheck(w)
    PROVE  PlacesKept'
<1>1. w.c \in Checks /\ w.p \in ProjectIds /\ home[w.c] = Gone
  BY StepTypes DEF PlacesKept, StepsPlaced, Placed, NextPlaced
<1>2. home' = [home EXCEPT ![w.c] = w.p] /\ UNCHANGED <<place, wired, torn>>
  BY DEF DoInsertCheck
<1>3. \A c \in Checks : home'[c] = IF c = w.c THEN w.p ELSE home[c]
  BY <1>2 DEF OwnerInv, ProjectsTyped
<1>4. \A r \in Slots \ {q} : \A n \in DOMAIN steps[r] : \A c \in Checks :
         RelyOnCheck(steps[r][n], c) => c # w.c
  <2>1. 1 \in DOMAIN steps[q]
    BY NextStepGood
  <2>2. \A r \in Slots \ {q} : \A n \in DOMAIN steps[r] :
           ~RefersToCheck(steps[r][n], w.c)
    BY <2>1 DEF PlacesKept, IdsReserved
  <2>3. QED
    BY <2>2 DEF RelyOnCheck, RefersToCheck
<1>5. StepsPlaced' /\ IdsReserved'
  <2>1. \A r \in Slots \ {q} : \A n \in DOMAIN steps[r] :
           /\ \A c \in Checks : RelyOnCheck(steps[r][n], c) =>
                 home'[c] \in {home[c], Gone} \/ (c \in torn' /\ home[c] # Gone)
           /\ \A h \in Hooks : RefersToChannel(steps[r][n], h) =>
                 place'[h] \in {place[h], Gone}
    BY <1>1, <1>2, <1>3, <1>4
  <2>2. /\ w.do \in {"insertCheck", "moveCheck"} => home'[w.c] = w.p
        /\ w.do = "insertCheck" => UNCHANGED place
        /\ w.do = "insertChannel" => place'[w.h] = w.p
        /\ torn \subseteq torn'
    BY <1>1, <1>2, <1>3, <1>4
  <2>3. QED
    BY <2>1, <2>2, PerformedPlaced
<1>6. \A c : Reassigned(c) => Reassigned(c)'
  <2>1. steps' = [steps EXCEPT ![q] = Tail(steps[q])]
    OBVIOUS
  <2>2. QED
    BY <2>1, StillReassigned
<1>7. WiredPlaced'
  <2>1. \A x \in wired : x[1] \in Checks
    BY DEF OwnerInv, ProjectsTyped
  <2>2. QED
    BY <1>1, <1>2, <1>3, <1>6, <2>1 DEF PlacesKept, WiredPlaced
<1>8. QED
  BY <1>5, <1>7 DEF PlacesKept

\* A check that is moved is torn, unless no other request assigns to it; this one
\* is about to.
LEMMA MoveCheckPlaced ==
    ASSUME OwnerInv, PlacesKept, NEW q \in Slots, steps[q] # <<>>,
           steps' = [steps EXCEPT ![q] = Tail(@)],
           NEW w \in GoodSteps, w = steps[q][1], w.do = "moveCheck", Possible(w),
           DoMoveCheck(q, w)
    PROVE  PlacesKept'
<1>1. w.c \in Checks /\ w.p \in ProjectIds /\ home[w.c] # Gone /\ w.p # Gone
  BY StepTypes, ProjectsAssumption DEF Possible
<1>2. /\ home' = [home EXCEPT ![w.c] = w.p] /\ UNCHANGED <<place, wired>>
      /\ torn' = IF Assigning(w.c) \ {q} = {} THEN torn ELSE torn \union {w.c}
  BY DEF DoMoveCheck
<1>3. \A c \in Checks : home'[c] = IF c = w.c THEN w.p ELSE home[c]
  BY <1>2 DEF OwnerInv, ProjectsTyped
<1>4. torn \subseteq torn'
  BY <1>2
<1>5. ASSUME NEW r \in Slots \ {q}, NEW n \in DOMAIN steps[r], NEW c \in Checks,
             RelyOnCheck(steps[r][n], c)
      PROVE  home'[c] \in {home[c], Gone} \/ (c \in torn' /\ home[c] # Gone)
  <2>1. CASE c # w.c
    BY <1>3, <2>1
  <2>2. CASE c = w.c
    <3>1. steps[r][n].do # "insertCheck"
      <4>1. SUFFICES ASSUME steps[r][n].do = "insertCheck" PROVE FALSE
        OBVIOUS
      <4>2. steps[r][n].c = c
        BY <1>5, <4>1 DEF RelyOnCheck
      <4>3. n = 1 /\ steps[r] # <<>>
        BY <4>1 DEF PlacesKept, StepsPlaced, Placed, LaterPlaced, OwnerInv, StepsGood
      <4>4. home[c] = Gone
        BY <4>1, <4>2, <4>3 DEF PlacesKept, StepsPlaced, Placed, NextPlaced
      <4>5. QED
        BY <1>1, <2>2, <4>4
    <3>2. r \in Assigning(w.c)
      BY <1>5, <2>2, <3>1 DEF Assigning, RelyOnCheck
    <3>3. w.c \in torn'
      BY <1>2, <3>2
    <3>4. QED
      BY <1>1, <2>2, <3>3
  <2>3. QED
    BY <2>1, <2>2
<1>6. StepsPlaced' /\ IdsReserved'
  <2>1. \A r \in Slots \ {q} : \A n \in DOMAIN steps[r] :
           /\ \A c \in Checks : RelyOnCheck(steps[r][n], c) =>
                 home'[c] \in {home[c], Gone} \/ (c \in torn' /\ home[c] # Gone)
           /\ \A h \in Hooks : RefersToChannel(steps[r][n], h) =>
                 place'[h] \in {place[h], Gone}
    BY <1>1, <1>2, <1>3, <1>4, <1>5
  <2>2. /\ w.do \in {"insertCheck", "moveCheck"} => home'[w.c] = w.p
        /\ w.do = "insertCheck" => UNCHANGED place
        /\ w.do = "insertChannel" => place'[w.h] = w.p
        /\ torn \subseteq torn'
    BY <1>1, <1>2, <1>3, <1>4, <1>5
  <2>3. QED
    BY <2>1, <2>2, PerformedPlaced
<1>7. Reassigned(w.c)'
  <2>1. 2 \in DOMAIN steps[q] /\ steps[q][2].do = "assignAll" /\ steps[q][2].c = w.c
    BY DEF PlacesKept, StepsPlaced, Placed
  <2>2. PICK s : s = steps[q]
    OBVIOUS
  <2>3. s \in Seq(GoodSteps) /\ s # <<>> /\ 2 \in DOMAIN s /\ steps'[q] = Tail(s)
    BY <2>1, <2>2 DEF OwnerInv, StepsGood
  <2>4. Tail(s) # <<>> /\ Tail(s)[1] = s[2]
    <3>1. DOMAIN s = 1 .. Len(s) /\ Len(s) \in Nat
      BY <2>3, LenProperties
    <3>2. /\ Len(Tail(s)) = Len(s) - 1 /\ Tail(s) \in Seq(GoodSteps)
          /\ \A i \in 1 .. Len(Tail(s)) : Tail(s)[i] = s[i + 1]
      BY <2>3, HeadTailProperties
    <3>3. Len(Tail(s)) >= 1
      BY <2>3, <3>1, <3>2
    <3>4. Tail(s)[1] = s[2]
      <4>1. 1 \in 1 .. Len(Tail(s)) /\ 1 + 1 = 2
        BY <3>1, <3>2, <3>3
      <4>2. Tail(s)[1] = s[1 + 1]
        BY <3>2, <4>1
      <4>3. QED
        BY <4>1, <4>2
    <3>5. Tail(s) # <<>>
      <4>1. Len(<<>>) = 0
        OBVIOUS
      <4>2. Len(Tail(s)) # 0
        BY <3>1, <3>2, <3>3
      <4>3. QED
        BY <4>1, <4>2
    <3>6. QED
      BY <3>4, <3>5
  <2>5. QED
    BY <2>1, <2>2, <2>3, <2>4 DEF Reassigned
<1>8. \A c : Reassigned(c) => Reassigned(c)'
  <2>1. steps' = [steps EXCEPT ![q] = Tail(steps[q])]
    OBVIOUS
  <2>2. QED
    BY <2>1, StillReassigned
<1>9. WiredPlaced'
  <2>1. \A x \in wired : x[1] \in Checks
    BY DEF OwnerInv, ProjectsTyped
  <2>2. QED
    BY <1>1, <1>2, <1>3, <1>4, <1>7, <1>8, <2>1 DEF PlacesKept, WiredPlaced
<1>10. QED
  BY <1>6, <1>9 DEF PlacesKept

LEMMA InsertChannelPlaced ==
    ASSUME OwnerInv, PlacesKept, NEW q \in Slots, steps[q] # <<>>,
           steps' = [steps EXCEPT ![q] = Tail(@)],
           NEW w \in GoodSteps, w = steps[q][1], w.do = "insertChannel",
           DoInsertChannel(w)
    PROVE  PlacesKept'
<1>1. w.h \in Hooks /\ w.p \in ProjectIds /\ place[w.h] = Gone
  BY StepTypes DEF PlacesKept, StepsPlaced, Placed, NextPlaced
<1>2. place' = [place EXCEPT ![w.h] = w.p] /\ UNCHANGED <<home, wired, torn>>
  BY DEF DoInsertChannel, claims
<1>3. \A h \in Hooks : place'[h] = IF h = w.h THEN w.p ELSE place[h]
  BY <1>2 DEF OwnerInv, ProjectsTyped
<1>4. \A r \in Slots \ {q} : \A n \in DOMAIN steps[r] : \A h \in Hooks :
         RefersToChannel(steps[r][n], h) => h # w.h
  <2>1. 1 \in DOMAIN steps[q]
    BY NextStepGood
  <2>2. QED
    BY <2>1 DEF PlacesKept, IdsReserved
<1>5. StepsPlaced' /\ IdsReserved'
  <2>1. \A r \in Slots \ {q} : \A n \in DOMAIN steps[r] :
           /\ \A c \in Checks : RelyOnCheck(steps[r][n], c) =>
                 home'[c] \in {home[c], Gone} \/ (c \in torn' /\ home[c] # Gone)
           /\ \A h \in Hooks : RefersToChannel(steps[r][n], h) =>
                 place'[h] \in {place[h], Gone}
    BY <1>1, <1>2, <1>3, <1>4
  <2>2. /\ w.do \in {"insertCheck", "moveCheck"} => home'[w.c] = w.p
        /\ w.do = "insertCheck" => UNCHANGED place
        /\ w.do = "insertChannel" => place'[w.h] = w.p
        /\ torn \subseteq torn'
    BY <1>1, <1>2, <1>3, <1>4
  <2>3. QED
    BY <2>1, <2>2, PerformedPlaced
<1>6. \A c : Reassigned(c) => Reassigned(c)'
  <2>1. steps' = [steps EXCEPT ![q] = Tail(steps[q])]
    OBVIOUS
  <2>2. QED
    BY <2>1, StillReassigned
<1>7. WiredPlaced'
  <2>1. \A x \in wired : x[2] \in Hooks
    BY DEF OwnerInv, ProjectsTyped
  <2>2. QED
    BY <1>1, <1>2, <1>3, <1>6, <2>1 DEF PlacesKept, WiredPlaced
<1>8. QED
  BY <1>5, <1>7 DEF PlacesKept

LEMMA DeletePlaced ==
    ASSUME OwnerInv, PlacesKept, NEW q \in Slots, steps[q] # <<>>,
           steps' = [steps EXCEPT ![q] = Tail(@)],
           NEW w \in GoodSteps, w = steps[q][1],
           w.do \in {"deleteCheck", "deleteProject"}, DoDelete(w)
    PROVE  PlacesKept'
<1> DEFINE checks == IF w.do = "deleteCheck" THEN {w.c} ELSE ChecksIn(w.p)
           channels == IF w.do = "deleteCheck" THEN {} ELSE ChannelsIn(w.p)
<1>1. /\ home' = [c \in Checks |-> IF c \in checks THEN Gone ELSE home[c]]
      /\ place' = [h \in Hooks |-> IF h \in channels THEN Gone ELSE place[h]]
      /\ wired' = {x \in wired : x[1] \notin checks /\ x[2] \notin channels}
      /\ torn' = torn
  BY DEF DoDelete, claims
<1> HIDE DEF checks, channels
<1>2. /\ \A c \in Checks : home'[c] \in {home[c], Gone}
      /\ \A h \in Hooks : place'[h] \in {place[h], Gone}
  BY <1>1
<1>3. StepsPlaced' /\ IdsReserved'
  BY <1>1, <1>2, PerformedPlaced
<1>4. \A c : Reassigned(c) => Reassigned(c)'
  <2>1. steps' = [steps EXCEPT ![q] = Tail(steps[q])]
    OBVIOUS
  <2>2. QED
    BY <2>1, StillReassigned
<1>5. WiredPlaced'
  <2>1. \A x \in wired' : /\ x \in wired /\ x[1] \in Checks /\ x[2] \in Hooks
                          /\ home'[x[1]] = home[x[1]] /\ place'[x[2]] = place[x[2]]
    BY <1>1 DEF OwnerInv, ProjectsTyped
  <2>2. QED
    BY <1>1, <1>4, <2>1 DEF PlacesKept, WiredPlaced
<1>6. QED
  BY <1>3, <1>5 DEF PlacesKept

\* Pairs that are new are of one project; assignAll leaves no old one of its check.
LEMMA NewPairs ==
    ASSUME OwnerInv, PlacesKept, NEW q \in Slots, steps[q] # <<>>,
           NEW w \in GoodSteps, w = steps[q][1], Possible(w), DoWire(w),
           w.do \in {"assign", "assignAll", "switch", "assignChecks"},
           NEW x \in wired',
           x \notin wired \/ (w.do = "assignAll" /\ x[1] = w.c)
    PROVE  /\ home[x[1]] # Gone /\ place[x[2]] # Gone
           /\ home[x[1]] = place[x[2]] \/ x[1] \in torn
<1>1. NextPlaced(w)
  BY DEF PlacesKept, StepsPlaced, Placed
<1>2. CASE w.do = "assignAll"
  <2>1. /\ x[1] = w.c /\ x[2] \in ChannelsIn(w.p) /\ w.p \in ProjectIds
        /\ home[w.c] # Gone /\ CheckIn(w.c, w.p)
    BY <1>1, <1>2, StepTypes DEF DoWire, Unwired, Possible, NextPlaced
  <2>2. QED
    BY <2>1, ProjectsAssumption DEF ChannelsIn, CheckIn
<1>3. CASE w.do = "assign"
  <2>1. /\ x[1] = w.c /\ x[2] \in w.channels
        /\ home[w.c] # Gone /\ place[x[2]] # Gone
    BY <1>3 DEF DoWire, Unwired, Possible
  <2>2. QED
    BY <1>1, <1>3, <2>1 DEF NextPlaced, CheckIn, ChannelIn
<1>4. CASE w.do = "switch"
  <2>1. x = <<w.c, w.h>> /\ home[w.c] # Gone /\ place[w.h] # Gone
    BY <1>4 DEF DoWire
  <2>2. QED
    BY <1>1, <1>4, <2>1 DEF NextPlaced
<1>5. CASE w.do = "assignChecks"
  <2>1. /\ x[2] = w.h /\ home[x[1]] # Gone /\ place[w.h] # Gone
        /\ x[1] \in IF w.add THEN ChecksIn(w.p) ELSE w.checks
    BY <1>5 DEF DoWire
  <2>2. place[w.h] = w.p
    BY <1>1, <1>5, <2>1 DEF NextPlaced, ChannelIn
  <2>3. home[x[1]] = w.p \/ x[1] \in torn
    BY <1>1, <1>5, <2>1 DEF NextPlaced, CheckIn, ChecksIn
  <2>4. QED
    BY <2>1, <2>2, <2>3
<1>6. QED
  BY <1>2, <1>3, <1>4, <1>5

LEMMA WirePlaced ==
    ASSUME OwnerInv, PlacesKept, NEW q \in Slots, steps[q] # <<>>,
           steps' = [steps EXCEPT ![q] = Tail(@)],
           NEW w \in GoodSteps, w = steps[q][1], Possible(w), DoWire(w),
           w.do \in {"assign", "assignAll", "switch", "assignChecks"}
    PROVE  PlacesKept'
<1>1. UNCHANGED <<home, place, torn>>
  BY DEF DoWire, claims
<1>2. StepsPlaced' /\ IdsReserved'
  BY <1>1, PerformedPlaced
<1>3. WiredPlaced'
  <2>1. SUFFICES ASSUME NEW x \in wired'
                 PROVE  /\ home[x[1]] # Gone /\ place[x[2]] # Gone
                        /\ home[x[1]] = place[x[2]] \/ x[1] \in torn
                             \/ Reassigned(x[1])'
    <3>1. \A x \in wired' : Reassigned(x[1])' <=>
             \E r \in Slots : steps'[r] # <<>> /\ steps'[r][1].do = "assignAll"
                                 /\ steps'[r][1].c = x[1]
      BY DEF Reassigned
    <3>2. QED
      BY <1>1, <3>1 DEF WiredPlaced, Reassigned
  <2>2. CASE x \notin wired \/ (w.do = "assignAll" /\ x[1] = w.c)
    BY <2>2, NewPairs
  <2>3. CASE x \in wired /\ ~(w.do = "assignAll" /\ x[1] = w.c)
    <3>1. PICK c : c = x[1]
      OBVIOUS
    <3>2. steps' = [steps EXCEPT ![q] = Tail(steps[q])]
      OBVIOUS
    <3>3. Reassigned(c) => Reassigned(c)'
      BY <2>3, <3>1, <3>2, StillReassigned
    <3>4. QED
      BY <2>3, <3>1, <3>3 DEF PlacesKept, WiredPlaced
  <2>4. QED
    BY <2>2, <2>3
<1>4. QED
  BY <1>2, <1>3 DEF PlacesKept

LEMMA PerformPlaced ==
    ASSUME OwnerInv, PlacesKept, NEW q \in Slots, Perform(q)
    PROVE  PlacesKept'
<1>1. PICK w : w = Head(steps[q])
  OBVIOUS
<1>2. steps[q] # <<>> /\ w \in GoodSteps /\ w = steps[q][1]
  BY <1>1, NextStepGood DEF Perform
<1>3. /\ Possible(w)
      /\ \/ w.do = "saveProject" /\ DoSaveProject(w)
         \/ w.do \in {"insertMember", "saveMember", "deleteMember",
                      "clearAsked"} /\ DoMembers(w)
         \/ w.do = "accept" /\ DoAccept(w)
         \/ w.do = "insertCheck" /\ DoInsertCheck(w)
         \/ w.do = "moveCheck" /\ DoMoveCheck(q, w)
         \/ w.do \in {"assign", "assignAll", "switch", "assignChecks"}
               /\ DoWire(w)
         \/ w.do = "insertChannel" /\ DoInsertChannel(w)
         \/ w.do \in {"deleteCheck", "deleteProject"} /\ DoDelete(w)
      /\ steps' = [steps EXCEPT ![q] = Tail(@)]
  BY <1>1 DEF Perform
<1>4. CASE \/ w.do = "saveProject" /\ DoSaveProject(w)
           \/ w.do \in {"insertMember", "saveMember", "deleteMember",
                        "clearAsked"} /\ DoMembers(w)
           \/ w.do = "accept" /\ DoAccept(w)
  <2>1. Harmless(w) /\ UNCHANGED <<home, place, wired, torn>>
    BY <1>4 DEF Harmless, DoSaveProject, DoMembers, DoAccept
  <2>2. QED
    BY <1>2, <1>3, <2>1, MembersPlaced
<1>5. CASE w.do = "insertCheck" /\ DoInsertCheck(w)
  BY <1>2, <1>3, <1>5, InsertCheckPlaced
<1>6. CASE w.do = "moveCheck" /\ DoMoveCheck(q, w)
  BY <1>2, <1>3, <1>6, MoveCheckPlaced
<1>7. CASE w.do \in {"assign", "assignAll", "switch", "assignChecks"} /\ DoWire(w)
  BY <1>2, <1>3, <1>7, WirePlaced
<1>8. CASE w.do = "insertChannel" /\ DoInsertChannel(w)
  BY <1>2, <1>3, <1>8, InsertChannelPlaced
<1>9. CASE w.do \in {"deleteCheck", "deleteProject"} /\ DoDelete(w)
  BY <1>2, <1>3, <1>9, DeletePlaced
<1>10. QED
  BY <1>3, <1>4, <1>5, <1>6, <1>7, <1>8, <1>9

\* A request that breaks at the reassignment of a check breaks because it is gone.
LEMMA BreakPlaced ==
    ASSUME OwnerInv, PlacesKept, NEW q \in Slots, Break(q)
    PROVE  PlacesKept'
<1>1. PICK w : w = Head(steps[q])
  OBVIOUS
<1>2. /\ steps[q] # <<>> /\ w = steps[q][1] /\ ~Possible(w)
      /\ steps' = [steps EXCEPT ![q] = <<>>]
      /\ UNCHANGED <<home, place, wired, torn>>
  BY <1>1, NextStepGood DEF Break, rows, claims
<1>3. \A r \in Slots : steps'[r] = IF r = q THEN <<>> ELSE steps[r]
  BY <1>2 DEF OwnerInv, StepsGood
<1>4. StepsPlaced'
  <2>1. ASSUME NEW r \in Slots, r # q PROVE Placed(steps[r])'
    <3>1. steps'[r] = steps[r] /\ Placed(steps[r])
      BY <1>3, <2>1 DEF PlacesKept, StepsPlaced
    <3>2. QED
      BY <1>2, <3>1 DEF Placed, NextPlaced, LaterPlaced, CheckIn, ChannelIn
  <2>2. Placed(steps[q])'
    <3>1. steps'[q] = <<>>
      BY <1>3
    <3>2. QED
      BY <3>1 DEF Placed
  <2>3. QED
    BY <2>1, <2>2 DEF StepsPlaced
<1>5. IdsReserved'
  BY <1>3, FewerReserved DEF PlacesKept
<1>6. WiredPlaced'
  <2>1. \A c : home[c] # Gone => ~(w.do = "assignAll" /\ w.c = c)
    BY <1>2 DEF Possible
  <2>2. \A c : home[c] # Gone /\ Reassigned(c) => Reassigned(c)'
    BY <1>2, <2>1, StillReassigned
  <2>3. QED
    BY <1>2, <2>2 DEF PlacesKept, WiredPlaced
<1>7. QED
  BY <1>4, <1>5, <1>6 DEF PlacesKept

LEMMA PlacesStep ==
    ASSUME OwnerInv, PlacesKept, [ProjectsNext]_projectsVars
    PROVE  PlacesKept'
<1>1. ASSUME NEW q \in Slots, NEW u \in People, NEW p \in ProjectIds,
             ProjectView(q, u, p) \/ \E c \in Checks : CheckView(q, u, p, c)
      PROVE  PlacesKept'
  BY <1>1, ProjectViewPlaced, CheckViewPlaced
<1>2. ASSUME NEW q \in Slots,
             \/ Perform(q) \/ Break(q)
             \/ \E u \in People, h \in Hooks : ChannelView(q, u, h)
             \/ \E p \in ProjectIds, c \in Checks : ApiView(q, p, c)
      PROVE  PlacesKept'
  BY <1>2, PerformPlaced, BreakPlaced, ChannelViewPlaced, ApiViewPlaced
<1>3. CASE UNCHANGED projectsVars
  <2>1. UNCHANGED <<home, place, wired, torn, steps>>
    BY <1>3 DEF projectsVars
  <2>2. ASSUME NEW q \in Slots PROVE Placed(steps[q])'
    <3>1. Placed(steps[q])
      BY DEF PlacesKept, StepsPlaced
    <3>2. QED
      BY <2>1, <3>1 DEF Placed, NextPlaced, LaterPlaced, CheckIn, ChannelIn
  <2>3. IdsReserved'
    BY <2>1 DEF PlacesKept, IdsReserved
  <2>4. WiredPlaced'
    BY <2>1 DEF PlacesKept, WiredPlaced, Reassigned
  <2>5. QED
    BY <2>2, <2>3, <2>4 DEF PlacesKept, StepsPlaced
<1>4. QED
  BY <1>1, <1>2, <1>3 DEF ProjectsNext

\* A channel is assigned to checks of its own project, except while the check that
\* was moved waits to be reassigned, or when it was moved or copied under a request
\* that assigned channels to it (transfer, copy, switch_channel, channels, _update).
THEOREM ChannelsStayHome == ProjectsSpec => []ChannelsOfOneProject
<1>1. ProjectsInit => PlacesKept
  BY DEF ProjectsInit, PlacesKept, StepsPlaced, Placed, IdsReserved, WiredPlaced
<1>2. OwnerInv /\ PlacesKept /\ [ProjectsNext]_projectsVars => PlacesKept'
  BY PlacesStep
<1>3. OwnerInv /\ PlacesKept => ChannelsOfOneProject
  <2>1. SUFFICES ASSUME OwnerInv, PlacesKept, NEW x \in wired, Reassigned(x[1])
                 PROVE  Assigning(x[1]) # {}
    BY DEF ChannelsOfOneProject, PlacesKept, WiredPlaced
  <2>2. PICK r \in Slots : steps[r] # <<>> /\ steps[r][1].do = "assignAll"
                             /\ steps[r][1].c = x[1]
    BY <2>1 DEF Reassigned
  <2>3. 1 \in DOMAIN steps[r]
    BY <2>1, <2>2, NextStepGood
  <2>4. r \in Assigning(x[1])
    BY <2>2, <2>3 DEF Assigning
  <2>5. QED
    BY <2>4
<1>4. QED
  BY <1>1, <1>2, <1>3, OwnersKept, PTL DEF ProjectsSpec

(***************************************************************************)
(* The limit of an account: the checks of its projects.                    *)
(***************************************************************************)

\* The checks that Used counts.
Owned(u) ==
    {c \in Checks : home[c] # Gone /\ Live(home[c]) /\ project[home[c]].owner = u}

\* Deleting a project deletes its checks, and none is added to one that is gone.
HomesLive == \A c \in Checks : home[c] # Gone => Live(home[c])

LimitOf(u) == IF u \in provisioned THEN 2 * CheckLimit ELSE CheckLimit

LimitInv == HomesLive /\ LimitKept

LEMMA OwnedCounted ==
    ASSUME NEW u
    PROVE  IsFiniteSet(Owned(u)) /\ Used(u) = Cardinality(Owned(u)) /\ Used(u) \in Nat
<1>1. Owned(u) \in SUBSET Checks
  BY DEF Owned
<1>2. IsFiniteSet(Owned(u))
  BY <1>1, ProjectsAssumption, FS_Subset
<1>3. Used(u) = Cardinality(Owned(u))
  BY DEF Owned, Used
<1>4. QED
  BY <1>2, <1>3, FS_CardinalityType

LEMMA OwnedCountedThen ==
    ASSUME NEW u
    PROVE  /\ IsFiniteSet(Owned(u)') /\ Used(u)' = Cardinality(Owned(u)')
           /\ Used(u)' \in Nat
<1>1. Owned(u)' \in SUBSET Checks
  BY DEF Owned
<1>2. IsFiniteSet(Owned(u)')
  BY <1>1, ProjectsAssumption, FS_Subset
<1>3. Used(u)' = Cardinality(Owned(u)')
  BY DEF Owned, Used
<1>4. QED
  BY <1>2, <1>3, FS_CardinalityType

LEMMA LimitsAre == CheckLimit \in Nat /\ 2 * CheckLimit \in Nat /\ CheckLimit <= 2 * CheckLimit
BY ProjectsAssumption

\* Who owns no more checks than before stays within the limit.
LEMMA FewerOwned ==
    ASSUME NEW u \in People, LimitKept, Owned(u)' \subseteq Owned(u), u \notin raced,
           provisioned \subseteq provisioned'
    PROVE  Used(u)' <= LimitOf(u)'
<1>1. Used(u)' <= Used(u)
  BY OwnedCounted, OwnedCountedThen, FS_Subset
<1>2. Used(u) <= LimitOf(u)
  BY DEF LimitKept, LimitOf
<1>3. LimitOf(u) <= LimitOf(u)' /\ LimitOf(u) \in Nat /\ LimitOf(u)' \in Nat
  BY LimitsAre DEF LimitOf
<1>4. QED
  BY <1>1, <1>2, <1>3, OwnedCounted, OwnedCountedThen

\* One check more is one more at most.
LEMMA OneMore ==
    ASSUME NEW u, NEW c \in Checks, Owned(u)' \subseteq Owned(u) \union {c}
    PROVE  Used(u)' <= Used(u) + 1
<1>1. IsFiniteSet(Owned(u) \union {c})
        /\ Cardinality(Owned(u) \union {c}) \in {Used(u), Used(u) + 1}
  BY OwnedCounted, FS_AddElement
<1>2. Used(u)' <= Cardinality(Owned(u) \union {c})
  BY <1>1, OwnedCountedThen, FS_Subset
<1>3. QED
  BY <1>1, <1>2, OwnedCounted, OwnedCountedThen

LEMMA SaveProjectWithin ==
    ASSUME OwnerInv, LimitInv, NEW w \in ProjectSaves, DoSaveProject(w)
    PROVE  LimitInv'
<1>1. /\ w.p \in ProjectIds /\ w.row \in ProjectRow /\ w.row # Gone
      /\ home \in [Checks -> ProjectIds \union {Gone}]
      /\ \A p \in ProjectIds : project'[p] = IF p = w.p THEN w.row ELSE project[p]
      /\ UNCHANGED <<home, provisioned>>
      /\ raced' = raced \union (IF Live(w.p) /\ project[w.p].owner = w.row.owner
                                THEN {} ELSE {w.row.owner})
  BY ProjectsAssumption DEF DoSaveProject, ProjectSaves, OwnerInv, ProjectsTyped
<1>2. HomesLive'
  BY <1>1 DEF LimitInv, HomesLive, Live
<1>3. ASSUME NEW u \in People, u \notin raced' PROVE Owned(u)' \subseteq Owned(u)
  BY <1>1, <1>3 DEF Owned, LimitInv, HomesLive, Live
<1>4. LimitKept'
  BY <1>1, <1>3, FewerOwned DEF LimitInv, LimitKept, LimitOf
<1>5. QED
  BY <1>2, <1>4 DEF LimitInv

\* The number of checks is as it was when the user was found to have room.
LEMMA AcceptWithin ==
    ASSUME OwnerInv, LimitInv, NEW w \in Accepts, DoAccept(w)
    PROVE  LimitInv'
<1>1. /\ w.p \in ProjectIds /\ w.project \in ProjectRow /\ w.project # Gone
      /\ w.used \in Nat /\ w.count \in Nat /\ w.used + w.count <= CheckLimit
      /\ home \in [Checks -> ProjectIds \union {Gone}]
      /\ \A p \in ProjectIds : project'[p] = IF p = w.p THEN w.project ELSE project[p]
      /\ UNCHANGED <<home, provisioned>>
      /\ raced' = raced \union Outdated(w.project.owner, w.used)
                      \union (IF Cardinality(ChecksIn(w.p)) # w.count
                              THEN {w.project.owner} ELSE {})
  BY ProjectsAssumption DEF DoAccept, Accepts, OwnerInv, ProjectsTyped
<1>2. HomesLive'
  BY <1>1 DEF LimitInv, HomesLive, Live
<1>3. ASSUME NEW u \in People, u \notin raced' PROVE Used(u)' <= LimitOf(u)'
  <2>1. CASE u # w.project.owner
    <3>1. Owned(u)' \subseteq Owned(u)
      BY <1>1, <2>1 DEF Owned, LimitInv, HomesLive, Live
    <3>2. QED
      BY <1>1, <1>3, <3>1, FewerOwned DEF LimitInv
  <2>2. CASE u = w.project.owner
    <3>1. Used(u) = w.used /\ Cardinality(ChecksIn(w.p)) = w.count
      BY <1>1, <1>3, <2>2 DEF Outdated
    <3>2. Owned(u)' \subseteq Owned(u) \union ChecksIn(w.p)
      BY <1>1, <2>2 DEF Owned, ChecksIn, LimitInv, HomesLive, Live
    <3>3. IsFiniteSet(Owned(u)) /\ IsFiniteSet(ChecksIn(w.p))
      BY OwnedCounted, NumbersOfChecks
    <3>4. /\ IsFiniteSet(Owned(u) \union ChecksIn(w.p))
          /\ Cardinality(Owned(u) \union ChecksIn(w.p))
               = Cardinality(Owned(u)) + Cardinality(ChecksIn(w.p))
                   - Cardinality(Owned(u) \cap ChecksIn(w.p))
      BY <3>3, FS_Union
    <3>5. Cardinality(Owned(u) \cap ChecksIn(w.p)) \in Nat
      BY <3>3, FS_Intersection, FS_CardinalityType
    <3>6. Used(u)' <= Cardinality(Owned(u) \union ChecksIn(w.p))
      BY <3>2, <3>4, OwnedCountedThen, FS_Subset
    <3>7. Cardinality(Owned(u) \union ChecksIn(w.p)) <= CheckLimit
      BY <1>1, <3>1, <3>4, <3>5, OwnedCounted, LimitsAre
    <3>8. Cardinality(Owned(u) \union ChecksIn(w.p)) \in Nat
      BY <3>4, FS_CardinalityType
    <3>9. QED
      BY <3>6, <3>7, <3>8, OwnedCountedThen, LimitsAre DEF LimitOf
  <2>3. QED
    BY <2>1, <2>2
<1>4. QED
  BY <1>2, <1>3 DEF LimitInv, LimitKept, LimitOf

\* A check is added to a project, or comes from another one.
LEMMA PlacedWithin ==
    ASSUME OwnerInv, LimitInv, NEW c \in Checks, NEW p \in ProjectIds, Live(p),
           home' = [home EXCEPT ![c] = p], UNCHANGED project,
           raced \subseteq raced', provisioned \subseteq provisioned',
           \A u \in People \ raced' : u = project[p].owner =>
              Owned(u)' \subseteq Owned(u) \/ Used(u) < LimitOf(u)'
    PROVE  LimitInv'
<1>1. \A d \in Checks : home'[d] = IF d = c THEN p ELSE home[d]
  BY DEF OwnerInv, ProjectsTyped
<1>2. HomesLive'
  BY <1>1 DEF LimitInv, HomesLive, Live
<1>3. ASSUME NEW u \in People, u \notin raced' PROVE Used(u)' <= LimitOf(u)'
  <2>1. CASE u # project[p].owner \/ Owned(u)' \subseteq Owned(u)
    <3>1. Owned(u)' \subseteq Owned(u)
      BY <1>1, <2>1 DEF Owned, Live
    <3>2. QED
      BY <1>3, <3>1, FewerOwned DEF LimitInv
  <2>2. CASE Used(u) < LimitOf(u)'
    <3>1. Owned(u)' \subseteq Owned(u) \union {c}
      BY <1>1 DEF Owned, Live
    <3>2. Used(u)' <= Used(u) + 1
      BY <3>1, OneMore
    <3>3. LimitOf(u)' \in Nat
      BY LimitsAre DEF LimitOf
    <3>4. QED
      BY <2>2, <3>2, <3>3, OwnedCounted, OwnedCountedThen
  <2>3. QED
    BY <1>3, <2>1, <2>2
<1>4. QED
  BY <1>2, <1>3 DEF LimitInv, LimitKept, LimitOf

LEMMA InsertCheckWithin ==
    ASSUME OwnerInv, LimitInv, NEW w \in CheckInserts, DoInsertCheck(w), Live(w.p)
    PROVE  LimitInv'
<1>1. /\ w.c \in Checks /\ w.p \in ProjectIds /\ w.used < w.limit
      /\ w.limit \in {CheckLimit, 2 * CheckLimit}
  BY DEF CheckInserts
<1>2. /\ home' = [home EXCEPT ![w.c] = w.p] /\ UNCHANGED project
      /\ raced' = raced \union Outdated(project[w.p].owner, w.used)
                      \union (IF project[w.p].owner = w.owner THEN {}
                              ELSE {project[w.p].owner})
      /\ provisioned' = IF w.limit = CheckLimit THEN provisioned
                        ELSE provisioned \union {project[w.p].owner}
  BY DEF DoInsertCheck
<1>3. ASSUME NEW u \in People \ raced', u = project[w.p].owner
      PROVE  Used(u) < LimitOf(u)'
  <2>1. Used(u) = w.used
    BY <1>2, <1>3 DEF Outdated
  <2>2. w.limit <= LimitOf(u)'
    BY <1>1, <1>2, <1>3, LimitsAre DEF LimitOf
  <2>3. LimitOf(u)' \in Nat /\ w.limit \in Nat
    BY <1>1, LimitsAre DEF LimitOf
  <2>4. QED
    BY <1>1, <2>1, <2>2, <2>3, OwnedCounted
<1>4. raced \subseteq raced' /\ provisioned \subseteq provisioned'
  BY <1>2
<1>5. QED
  BY <1>1, <1>2, <1>3, <1>4, PlacedWithin

LEMMA MoveCheckWithin ==
    ASSUME OwnerInv, LimitInv, NEW q, NEW w \in CheckMoves, DoMoveCheck(q, w),
           home[w.c] # Gone, Live(w.p)
    PROVE  LimitInv'
<1>1. /\ w.c \in Checks /\ w.p \in ProjectIds
      /\ w.from # w.owner => w.used < CheckLimit
  BY DEF CheckMoves
<1>2. /\ home' = [home EXCEPT ![w.c] = w.p] /\ UNCHANGED <<project, provisioned>>
      /\ raced' = raced \union (IF project[home[w.c]].owner = project[w.p].owner
                              THEN {} ELSE Outdated(project[w.p].owner, w.used))
                      \union (IF project[w.p].owner = w.owner
                                 /\ project[home[w.c]].owner = w.from THEN {}
                              ELSE {project[w.p].owner})
  BY DEF DoMoveCheck
<1>3. ASSUME NEW u \in People \ raced', u = project[w.p].owner
      PROVE  Owned(u)' \subseteq Owned(u) \/ Used(u) < LimitOf(u)'
  <2>1. CASE project[home[w.c]].owner = u
    <3>1. \A d \in Checks : home'[d] = IF d = w.c THEN w.p ELSE home[d]
      BY <1>2 DEF OwnerInv, ProjectsTyped
    <3>2. QED
      BY <1>1, <1>2, <2>1, <3>1 DEF Owned, LimitInv, HomesLive, Live
  <2>2. CASE project[home[w.c]].owner # u
    <3>1. Used(u) = w.used /\ w.owner = u /\ project[home[w.c]].owner = w.from
      BY <1>2, <1>3, <2>2 DEF Outdated
    <3>2. Used(u) < CheckLimit
      BY <1>1, <2>2, <3>1
    <3>3. QED
      BY <3>2, LimitsAre, OwnedCounted DEF LimitOf
  <2>3. QED
    BY <2>1, <2>2
<1>4. raced \subseteq raced' /\ provisioned \subseteq provisioned'
  BY <1>2
<1>5. QED
  BY <1>1, <1>2, <1>3, <1>4, PlacedWithin

LEMMA DeleteWithin ==
    ASSUME OwnerInv, LimitInv, NEW w \in GoodSteps, DoDelete(w),
           w.do \in {"deleteCheck", "deleteProject"}
    PROVE  LimitInv'
<1>1. /\ home \in [Checks -> ProjectIds \union {Gone}]
      /\ project \in [ProjectIds -> ProjectRow \union {Gone}]
      /\ UNCHANGED <<raced, provisioned>>
  BY DEF OwnerInv, ProjectsTyped, DoDelete, claims
<1>2. \A c \in Checks : home'[c] # Gone =>
          home'[c] = home[c] /\ project'[home[c]] = project[home[c]]
  <2>1. CASE w.do = "deleteCheck"
    BY <1>1, <2>1 DEF DoDelete
  <2>2. CASE w.do = "deleteProject"
    <3>1. /\ \A c \in Checks : home'[c] = IF c \in ChecksIn(w.p) THEN Gone ELSE home[c]
          /\ project' = [project EXCEPT ![w.p] = Gone]
      BY <2>2 DEF DoDelete
    <3>2. QED
      BY <1>1, <3>1 DEF ChecksIn
  <2>3. QED
    BY <2>1, <2>2
<1>3. HomesLive'
  BY <1>2 DEF LimitInv, HomesLive, Live
<1>4. \A u : Owned(u)' \subseteq Owned(u)
  BY <1>2 DEF Owned, Live
<1>5. LimitKept'
  BY <1>1, <1>4, FewerOwned DEF LimitInv, LimitKept, LimitOf
<1>6. QED
  BY <1>3, <1>5 DEF LimitInv

LEMMA OthersWithin ==
    ASSUME LimitInv, UNCHANGED <<project, home, raced, provisioned>>
    PROVE  LimitInv'
<1>1. HomesLive'
  BY DEF LimitInv, HomesLive, Live
<1>2. \A u : Owned(u)' = Owned(u)
  BY DEF Owned, Live
<1>3. \A u : Used(u)' = Used(u)
  BY <1>2, OwnedCounted, OwnedCountedThen
<1>4. QED
  BY <1>1, <1>3 DEF LimitInv, LimitKept

LEMMA PerformWithin ==
    ASSUME OwnerInv, LimitInv, NEW q \in Slots, Perform(q)
    PROVE  LimitInv'
<1> DEFINE w == Head(steps[q])
<1>1. /\ steps[q] # <<>> /\ Possible(w)
      /\ \/ w.do = "saveProject" /\ DoSaveProject(w)
         \/ w.do \in {"insertMember", "saveMember", "deleteMember",
                      "clearAsked"} /\ DoMembers(w)
         \/ w.do = "accept" /\ DoAccept(w)
         \/ w.do = "insertCheck" /\ DoInsertCheck(w)
         \/ w.do = "moveCheck" /\ DoMoveCheck(q, w)
         \/ w.do \in {"assign", "assignAll", "switch", "assignChecks"}
               /\ DoWire(w)
         \/ w.do = "insertChannel" /\ DoInsertChannel(w)
         \/ w.do \in {"deleteCheck", "deleteProject"} /\ DoDelete(w)
  BY DEF Perform
<1>2. w \in GoodSteps
  BY <1>1, NextStepGood
<1> HIDE DEF w
<1>3. CASE w.do = "saveProject" /\ DoSaveProject(w)
  BY <1>2, <1>3, StepsByDo, SaveProjectWithin
<1>4. CASE DoMembers(w) \/ DoWire(w) \/ DoInsertChannel(w)
  BY <1>4, OthersWithin DEF DoMembers, DoWire, DoInsertChannel, claims
<1>5. CASE w.do = "accept" /\ DoAccept(w)
  BY <1>2, <1>5, StepsByDo, AcceptWithin
<1>6. CASE w.do = "insertCheck" /\ DoInsertCheck(w)
  BY <1>1, <1>2, <1>6, StepsByDo, InsertCheckWithin DEF Possible
<1>7. CASE w.do = "moveCheck" /\ DoMoveCheck(q, w)
  BY <1>1, <1>2, <1>7, StepsByDo, MoveCheckWithin DEF Possible
<1>8. CASE w.do \in {"deleteCheck", "deleteProject"} /\ DoDelete(w)
  BY <1>2, <1>8, DeleteWithin
<1>9. QED
  BY <1>1, <1>3, <1>4, <1>5, <1>6, <1>7, <1>8

\* A request that begins, or breaks, changes none of these.
LEMMA LimitStep ==
    ASSUME OwnerInv, LimitInv, [ProjectsNext]_projectsVars
    PROVE  LimitInv'
<1>1. CASE UNCHANGED projectsVars
  BY <1>1, OthersWithin DEF projectsVars
<1>2. ASSUME NEW q \in Slots, Perform(q) PROVE LimitInv'
  BY <1>2, PerformWithin
<1>3. ASSUME NEW q \in Slots, Break(q) PROVE LimitInv'
  BY <1>3, OthersWithin DEF Break, rows, claims
<1>4. ASSUME NEW q \in Slots, NEW u \in People, NEW p \in ProjectIds,
             ProjectView(q, u, p)
      PROVE  LimitInv'
  <2>1. UNCHANGED <<project, home, raced, provisioned>>
    BY <1>4 DEF ProjectView, AddProject, CreateKey, RevokeKey, ShowSlugs, Invite,
       RemoveTeamMember, LeaveProject, CancelTransfer, TransferProject,
       AcceptTransfer, RejectTransfer, RemoveProject, rows, claims
  <2>2. QED
    BY <2>1, OthersWithin
<1>5. ASSUME NEW q \in Slots, NEW u \in People, NEW p \in ProjectIds,
             NEW c \in Checks, CheckView(q, u, p, c)
      PROVE  LimitInv'
  <2>1. UNCHANGED <<project, home, raced, provisioned>>
    BY <1>5 DEF CheckView, AddCheck, RemoveCheck, CopyCheck, TransferCheck, rows, claims
  <2>2. QED
    BY <2>1, OthersWithin
<1>6. ASSUME NEW q \in Slots, NEW u \in People, NEW h \in Hooks, ChannelView(q, u, h)
      PROVE  LimitInv'
  <2>1. UNCHANGED <<project, home, raced, provisioned>>
    BY <1>6 DEF ChannelView, SwitchAssigned, SetChecks, AddIntegration, rows, claims
  <2>2. QED
    BY <2>1, OthersWithin
<1>7. ASSUME NEW q \in Slots, NEW p \in ProjectIds, NEW c \in Checks, ApiView(q, p, c)
      PROVE  LimitInv'
  <2>1. UNCHANGED <<project, home, raced, provisioned>>
    BY <1>7 DEF ApiView, CreateCheck, UpdateCheck, PingBySlug, rows, claims
  <2>2. QED
    BY <2>1, OthersWithin
<1>8. QED
  BY <1>1, <1>2, <1>3, <1>4, <1>5, <1>6, <1>7 DEF ProjectsNext

\* At first nobody is beyond the limit.
LEMMA LimitStarts == ProjectsInit => LimitInv
<1> SUFFICES ASSUME ProjectsInit PROVE LimitInv
  OBVIOUS
<1>1. \A p \in DOMAIN FirstOwner :
          /\ project[p] = [owner |-> FirstOwner[p], key |-> NoKey]
          /\ project[p] \in ProjectRow
  BY ProjectsAssumption DEF ProjectsInit, ProjectRow, NoKey
<1>2. \A c \in Checks : home[c] # Gone =>
          c \in DOMAIN FirstHome /\ home[c] = FirstHome[c] /\ home[c] \in DOMAIN FirstOwner
  BY ProjectsAssumption DEF ProjectsInit
<1>3. HomesLive
  BY <1>1, <1>2, ProjectsAssumption DEF HomesLive, Live
<1>4. ASSUME NEW u \in People PROVE Used(u) <= CheckLimit
  <2> DEFINE S == {c \in DOMAIN FirstHome : FirstOwner[FirstHome[c]] = u}
  <2>1. ASSUME NEW c \in Owned(u) PROVE c \in S
    <3>1. /\ c \in DOMAIN FirstHome /\ home[c] = FirstHome[c]
          /\ project[FirstHome[c]].owner = u /\ FirstHome[c] \in DOMAIN FirstOwner
      BY <1>2 DEF Owned
    <3>2. project[FirstHome[c]] = [owner |-> FirstOwner[FirstHome[c]], key |-> NoKey]
      BY <1>1, <3>1
    <3>3. FirstOwner[FirstHome[c]] = u
      BY <3>1, <3>2
    <3>4. QED
      BY <3>1, <3>3
  <2>2. IsFiniteSet(S) /\ Cardinality(S) \in Nat /\ Cardinality(S) <= CheckLimit
    BY ProjectsAssumption, FS_Subset, FS_CardinalityType
  <2>3. Cardinality(Owned(u)) <= Cardinality(S)
    BY <2>1, <2>2, FS_Subset
  <2>4. QED
    BY <2>2, <2>3, OwnedCounted, LimitsAre
<1>5. QED
  BY <1>3, <1>4, LimitsAre, OwnedCounted DEF LimitInv, LimitKept

\* An account has no more checks than its limit, or twice the limit when pings
\* create them, but for those whose checks changed between the look at their number
\* and the statement that adds one (num_checks_available, can_accept).
THEOREM LimitIsKept == ProjectsSpec => []LimitKept
<1>1. OwnerInv /\ LimitInv /\ [ProjectsNext]_projectsVars => LimitInv'
  BY LimitStep
<1>2. LimitInv => LimitKept
  BY DEF LimitInv
<1>3. QED
  BY <1>1, <1>2, LimitStarts, OwnersKept, PTL DEF ProjectsSpec

(***************************************************************************)
(* The views that add channels: what a session and a request remember.     *)
(***************************************************************************)

Flow == [kind : FlowKinds, project : Places]
AddedRows ==
    [kind : FlowKinds \union FormKinds, project : Places, state : Nat,
     key : {1, 2}, allowed : BOOLEAN, nth : Nat]

IntegrationsTyped ==
    /\ flow \in Seq(Flow)
    /\ cookie \in Cookies
    /\ tab \in [Tabs -> TabRequests \union {Empty}]
    /\ added \subseteq AddedRows /\ IsFiniteSet(added)

\* A session knows a flow by the key of its kind; GitHub has two, for a flow
\* before and after the exchange.
Knows(held) ==
    /\ \A k \in CodeKinds \union {"pd"} : held[k] # Empty =>
          /\ held[k].state \in DOMAIN flow
          /\ flow[held[k].state] = [kind |-> k, project |-> held[k].project]
    /\ held["po"] # Empty =>
          held["po"] \in DOMAIN flow /\ flow[held["po"]].kind = "po"
    /\ \A k \in {"ghState", "ghToken"} : held[k] # Empty =>
          held[k] \in DOMAIN flow /\ flow[held[k]].kind = "github"
    /\ held["ghState"] # Empty => held["ghState"] # held["ghToken"]

\* A row is for the project of its flow.
AtHome(x) ==
    /\ x.allowed
    /\ x.state # 0 =>
          /\ x.state \in DOMAIN flow
          /\ IF x.kind = "github" THEN flow[x.state].kind = "github"
             ELSE flow[x.state] = [kind |-> x.kind, project |-> x.project]

\* A row is for the flow its request is about.  When only the session knew the
\* flow, the request makes it forget it.
RequestGood(r) ==
    /\ Knows(r.copy)
    /\ \A i \in DOMAIN r.rows :
          /\ AtHome(r.rows[i]) /\ r.rows[i].state \in {0, r.popped}
          /\ \A j \in DOMAIN r.rows : r.rows[j].key = r.rows[i].key => j = i
          /\ r.rows[i].kind \in CodeKinds => Len(r.rows) = 1
          /\ r.rows[i].state # 0 =>
                IF r.rows[i].kind \in CodeKinds
                THEN ~r.exchange => r.popped \in spent
                ELSE r.popped \notin FlowsIn(r.copy) /\ r.saves

RequestsGood == \A t \in Tabs : tab[t] # Empty => RequestGood(tab[t])

PoppedOnce ==
    \A t, o \in Tabs :
        /\ t # o /\ tab[t] # Empty /\ tab[o] # Empty
        /\ tab[t].popped = tab[o].popped /\ tab[t].popped # 0
        => tab[t].popped \in repeated

\* A flow that has added its channel is forgotten, or about to be.
Forgotten ==
    \A x \in added : x.state \notin repeated \union {0} /\ x.kind \notin CodeKinds =>
        /\ \A t \in Tabs : tab[t] # Empty /\ tab[t].popped = x.state =>
              /\ x.state \notin FlowsIn(tab[t].copy)
              /\ \A i \in DOMAIN tab[t].rows :
                    tab[t].rows[i].state = x.state => tab[t].rows[i].key # x.key
        /\ x.state \in FlowsIn(cookie) =>
              \E t \in Tabs : tab[t] # Empty /\ tab[t].popped = x.state /\ tab[t].saves

\* Its code has been exchanged.
HasGrant(t) ==
    /\ tab[t] # Empty
    /\ ~tab[t].exchange
    /\ \E i \in DOMAIN tab[t].rows :
          tab[t].rows[i].kind \in CodeKinds /\ tab[t].rows[i].state # 0

CodesSpent ==
    /\ \A x \in added : x.kind \in CodeKinds /\ x.state # 0 =>
          x.state \in spent /\ \A t \in Tabs : HasGrant(t) => tab[t].popped # x.state
    /\ \A t, o \in Tabs :
          HasGrant(t) /\ HasGrant(o) /\ tab[t].popped = tab[o].popped => t = o

\* What has been added.
AddedHome == \A x \in added : AtHome(x)

AddedOnce ==
    \A x \in added : x.state # 0 /\ x.nth > 1 =>
        x.kind \notin CodeKinds /\ x.state \in repeated

GrantsInv ==
    /\ IntegrationsTyped /\ Knows(cookie) /\ RequestsGood /\ PoppedOnce
    /\ Forgotten /\ CodesSpent /\ AddedHome /\ AddedOnce

FlowsGrow ==
    /\ flow' \in Seq(Flow)
    /\ Len(flow') \in {Len(flow), Len(flow) + 1}
    /\ \A s \in DOMAIN flow : s \in DOMAIN flow' /\ flow'[s] = flow[s]

LEMMA StartGrows ==
    ASSUME flow \in Seq(Flow), NEW f \in Flow, flow' = Append(flow, f)
    PROVE  /\ FlowsGrow
           /\ Len(flow) + 1 \notin DOMAIN flow /\ Len(flow) + 1 # 0
           /\ Len(flow) + 1 \in DOMAIN flow' /\ flow'[Len(flow) + 1] = f
<1>1. /\ Len(flow) \in Nat /\ DOMAIN flow = 1 .. Len(flow)
      /\ flow' \in Seq(Flow) /\ Len(flow') = Len(flow) + 1
      /\ DOMAIN flow' = 1 .. Len(flow')
      /\ \A s \in 1 .. Len(flow) : flow'[s] = flow[s]
      /\ flow'[Len(flow) + 1] = f
  BY AppendProperties, LenProperties
<1>2. QED
  BY <1>1 DEF FlowsGrow

LEMMA StaysKnown ==
    ASSUME FlowsGrow, NEW held, Knows(held)
    PROVE  Knows(held)'
BY DEF FlowsGrow, Knows

LEMMA StaysHome ==
    ASSUME FlowsGrow, NEW x, AtHome(x)
    PROVE  AtHome(x)'
BY DEF FlowsGrow, AtHome

LEMMA FlowsInAre ==
    ASSUME NEW held, NEW s
    PROVE  s \in FlowsIn(held) <=>
              \/ \E k \in CodeKinds \union {"pd"} : held[k] # Empty /\ held[k].state = s
              \/ \E k \in {"po", "ghState", "ghToken"} : held[k] # Empty /\ held[k] = s
BY DEF FlowsIn

\* A session that only forgets.
LEMMA StillKnows ==
    ASSUME NEW held, Knows(held), NEW copy,
           \A k \in SessionKeys : copy[k] \in {held[k], Empty}
    PROVE  Knows(copy) /\ FlowsIn(copy) \subseteq FlowsIn(held)
<1>1. Knows(copy)
  BY DEF Knows, SessionKeys
<1>2. ASSUME NEW s \in FlowsIn(copy) PROVE s \in FlowsIn(held)
  <2>1. \/ \E k \in CodeKinds \union {"pd"} : copy[k] # Empty /\ copy[k].state = s
        \/ \E k \in {"po", "ghState", "ghToken"} : copy[k] # Empty /\ copy[k] = s
    BY <1>2, FlowsInAre
  <2>2. \/ \E k \in CodeKinds \union {"pd"} : held[k] # Empty /\ held[k].state = s
        \/ \E k \in {"po", "ghState", "ghToken"} : held[k] # Empty /\ held[k] = s
    BY <2>1 DEF SessionKeys
  <2>3. QED
    BY <2>2, FlowsInAre
<1>3. QED
  BY <1>1, <1>2

LEMMA GrantsStart == IntegrationsInit => GrantsInv
<1> SUFFICES ASSUME IntegrationsInit PROVE GrantsInv
  OBVIOUS
<1>1. IntegrationsTyped
  <2>1. cookie \in Cookies
    BY DEF IntegrationsInit, Cookies
  <2>2. IsFiniteSet({})
    BY FS_EmptySet
  <2>3. QED
    BY <2>1, <2>2 DEF IntegrationsInit, IntegrationsTyped
<1>2. Knows(cookie)
  BY DEF IntegrationsInit, Knows, SessionKeys
<1>3. RequestsGood /\ PoppedOnce /\ Forgotten /\ AddedHome /\ AddedOnce
  BY DEF IntegrationsInit, RequestsGood, PoppedOnce, Forgotten, AddedHome, AddedOnce
<1>4. CodesSpent
  BY DEF IntegrationsInit, CodesSpent, HasGrant
<1>5. QED
  BY <1>1, <1>2, <1>3, <1>4 DEF GrantsInv

\* What a request that begins is to be like.
GoodInserts(copy, popped, exchange, inserts) ==
    \A i \in DOMAIN inserts :
        /\ AtHome(inserts[i])'
        /\ inserts[i].state \in {0, popped}
        /\ inserts[i].state # 0 => popped \in FlowsIn(cookie)
        /\ \A j \in DOMAIN inserts : inserts[j].key = inserts[i].key => j = i
        /\ inserts[i].kind \in CodeKinds => Len(inserts) = 1
        /\ inserts[i].state # 0 =>
              IF inserts[i].kind \in CodeKinds THEN exchange
              ELSE popped \notin FlowsIn(copy) /\ copy # cookie

LEMMA BeginsKeeps ==
    ASSUME GrantsInv, FlowsGrow, NEW t \in Tabs, NEW copy \in Cookies, NEW popped \in Nat,
           NEW exchange \in BOOLEAN, NEW inserts \in Seq(RowsToAdd),
           Begins(t, copy, popped, exchange, inserts),
           UNCHANGED <<cookie, spent>>, added' \subseteq added,
           Knows(copy)', \A s \in FlowsIn(copy) : s \in FlowsIn(cookie) \/ s \notin DOMAIN flow,
           GoodInserts(copy, popped, exchange, inserts)
    PROVE  GrantsInv'
<1>1. PICK new : new = [copy |-> copy, popped |-> popped, exchange |-> exchange,
                        rows |-> inserts, saves |-> copy # cookie]
  OBVIOUS
<1>2. /\ new.copy = copy /\ new.popped = popped /\ new.exchange = exchange
      /\ new.rows = inserts /\ new.saves = (copy # cookie)
  BY <1>1
<1>3. /\ tab[t] = Empty /\ tab' = [tab EXCEPT ![t] = new]
      /\ repeated \subseteq repeated'
      /\ \A o \in Tabs \ {t} : tab[o] # Empty /\ tab[o].popped = popped => popped \in repeated'
      /\ new \in TabRequests /\ new # Empty
  <2>1. tab[t] = Empty /\ tab' = [tab EXCEPT ![t] = new] /\ repeated \subseteq repeated'
    BY <1>1 DEF Begins
  <2>2. \A o \in Tabs \ {t} : tab[o] # Empty /\ tab[o].popped = popped => popped \in repeated'
    BY DEF Begins
  <2>3. new \in TabRequests
    <3>1. PICK b \in BOOLEAN : b = (copy # cookie)
      OBVIOUS
    <3>2. new = [copy |-> copy, popped |-> popped, exchange |-> exchange,
                 rows |-> inserts, saves |-> b]
      BY <1>1, <3>1
    <3>3. QED
      BY <3>2 DEF TabRequests
  <2>4. QED
    BY <2>1, <2>2, <2>3, IntegrationsAssumption
<1>4. \A o \in Tabs : tab'[o] = IF o = t THEN new ELSE tab[o]
  BY <1>3 DEF GrantsInv, IntegrationsTyped
<1>5. IntegrationsTyped'
  <2>1. IsFiniteSet(added')
    BY FS_Subset DEF GrantsInv, IntegrationsTyped
  <2>2. tab' \in [Tabs -> TabRequests \union {Empty}]
    BY <1>3 DEF GrantsInv, IntegrationsTyped
  <2>3. QED
    BY <2>1, <2>2 DEF GrantsInv, IntegrationsTyped, FlowsGrow
<1>6. Knows(cookie)'
  <2>1. PICK held : held = cookie
    OBVIOUS
  <2>2. Knows(held)'
    BY <2>1, StaysKnown DEF GrantsInv
  <2>3. QED
    BY <2>1, <2>2 DEF Knows
<1>7. RequestGood(new)'
  BY <1>2 DEF RequestGood, GoodInserts
<1>8. ASSUME NEW o \in Tabs, o # t, tab[o] # Empty PROVE RequestGood(tab[o])'
  <2>1. PICK r : r = tab[o]
    OBVIOUS
  <2>2. RequestGood(r) /\ tab'[o] = r
    BY <1>4, <1>8, <2>1 DEF GrantsInv, RequestsGood
  <2>3. RequestGood(r)'
    BY <2>2, StaysKnown, StaysHome DEF RequestGood
  <2>4. QED
    BY <2>1, <2>2, <2>3 DEF RequestGood
<1>9. RequestsGood'
  BY <1>4, <1>7, <1>8 DEF RequestsGood
<1>10. PoppedOnce'
  BY <1>3, <1>2, <1>4 DEF GrantsInv, PoppedOnce
<1>11. ~HasGrant(t)' /\ \A o \in Tabs \ {t} : HasGrant(o)' => HasGrant(o)
  BY <1>2, <1>4 DEF HasGrant, GoodInserts
<1>12. CodesSpent'
  BY <1>4, <1>11 DEF GrantsInv, CodesSpent
<1>13. Forgotten'
  <2>1. SUFFICES ASSUME NEW x \in added, x.state \notin repeated' \union {0},
                        x.kind \notin CodeKinds
                 PROVE  /\ \A o \in Tabs : tab'[o] # Empty /\ tab'[o].popped = x.state =>
                              /\ x.state \notin FlowsIn(tab'[o].copy)
                              /\ \A i \in DOMAIN tab'[o].rows :
                                    tab'[o].rows[i].state = x.state =>
                                        tab'[o].rows[i].key # x.key
                        /\ x.state \in FlowsIn(cookie) =>
                              \E o \in Tabs : tab'[o] # Empty /\ tab'[o].popped = x.state
                                                /\ tab'[o].saves
    BY DEF Forgotten, FlowsIn
  <2>2. x.state \notin repeated \union {0} /\ x.state \in DOMAIN flow
    BY <1>3, <2>1 DEF GrantsInv, AddedHome, AtHome
  <2>3. ASSUME popped = x.state PROVE x.state \notin FlowsIn(cookie)
    <3>1. \A o \in Tabs : tab[o] # Empty => tab[o].popped # x.state
      BY <1>3, <2>1, <2>3
    <3>2. QED
      BY <2>1, <2>2, <3>1 DEF GrantsInv, Forgotten
  <2>4. ASSUME popped = x.state
        PROVE  /\ x.state \notin FlowsIn(copy)
               /\ \A i \in DOMAIN inserts : inserts[i].state # x.state
    BY <2>2, <2>3, <2>4 DEF GoodInserts
  <2>5. \A o \in Tabs : tab[o] # Empty => tab'[o] = tab[o]
    BY <1>3, <1>4
  <2>6. QED
    BY <1>2, <1>4, <2>1, <2>2, <2>4, <2>5 DEF GrantsInv, Forgotten
<1>14. AddedHome'
  BY StaysHome DEF GrantsInv, AddedHome
<1>15. AddedOnce'
  BY <1>3 DEF GrantsInv, AddedOnce
<1>16. QED
  BY <1>5, <1>6, <1>9, <1>10, <1>12, <1>13, <1>14, <1>15 DEF GrantsInv

LEMMA OpenRequest ==
    ASSUME GrantsInv, NEW t \in Tabs, tab[t] # Empty
    PROVE  tab[t] \in TabRequests /\ RequestGood(tab[t])
BY DEF GrantsInv, IntegrationsTyped, RequestsGood

\* What stays of a request, or of all of them, when flows and spent codes grow.
LEMMA RequestStays ==
    ASSUME NEW r, RequestGood(r), UNCHANGED flow, spent \subseteq spent'
    PROVE  RequestGood(r)'
BY DEF RequestGood, Knows, AtHome, FlowsIn

\* A request that ends adds nothing more.
LEMMA CloseKeeps ==
    ASSUME GrantsInv, NEW t \in Tabs, tab[t] # Empty, tab' = [tab EXCEPT ![t] = Empty],
           UNCHANGED <<flow, added>>, spent \subseteq spent', repeated \subseteq repeated',
           cookie' \in Cookies, Knows(cookie'),
           \A s \in FlowsIn(cookie') : s \in FlowsIn(cookie) \/ s = tab[t].popped
               \/ s \in repeated',
           tab[t].popped \in repeated' \union {0}
             \/ (cookie' = IF tab[t].saves THEN tab[t].copy ELSE cookie)
    PROVE  GrantsInv'
<1>1. \A o \in Tabs : tab'[o] = IF o = t THEN Empty ELSE tab[o]
  BY DEF GrantsInv, IntegrationsTyped
<1>2. IntegrationsTyped' /\ Knows(cookie)'
  BY DEF GrantsInv, IntegrationsTyped, Knows
<1>3. RequestsGood'
  <2>1. SUFFICES ASSUME NEW o \in Tabs, tab'[o] # Empty PROVE RequestGood(tab[o])'
    BY DEF RequestsGood
  <2>2. PICK r : r = tab[o]
    OBVIOUS
  <2>3. RequestGood(r)' /\ tab'[o] = r
    BY <1>1, <2>1, <2>2, RequestStays DEF GrantsInv, RequestsGood
  <2>4. QED
    BY <2>3 DEF RequestGood
<1>4. PoppedOnce'
  BY <1>1 DEF GrantsInv, PoppedOnce
<1>5. \A o \in Tabs : HasGrant(o)' => HasGrant(o) /\ tab'[o] = tab[o]
  BY <1>1 DEF HasGrant
<1>6. CodesSpent'
  BY <1>5 DEF GrantsInv, CodesSpent
<1>7. AddedHome' /\ AddedOnce'
  BY DEF GrantsInv, AddedHome, AddedOnce, AtHome
<1>8. Forgotten'
  <2>1. SUFFICES ASSUME NEW x \in added, x.state \notin repeated' \union {0},
                        x.kind \notin CodeKinds
                 PROVE  /\ \A o \in Tabs : tab'[o] # Empty /\ tab'[o].popped = x.state =>
                              /\ x.state \notin FlowsIn(tab'[o].copy)
                              /\ \A i \in DOMAIN tab'[o].rows :
                                    tab'[o].rows[i].state = x.state =>
                                        tab'[o].rows[i].key # x.key
                        /\ x.state \in FlowsIn(cookie') =>
                              \E o \in Tabs : tab'[o] # Empty /\ tab'[o].popped = x.state
                                                /\ tab'[o].saves
    BY DEF Forgotten, FlowsIn
  <2>2. x.state \notin repeated \union {0}
    BY <2>1
  <2>3. \A o \in Tabs : tab[o] # Empty /\ tab[o].popped = x.state =>
              /\ x.state \notin FlowsIn(tab[o].copy)
              /\ \A i \in DOMAIN tab[o].rows :
                    tab[o].rows[i].state = x.state => tab[o].rows[i].key # x.key
    BY <2>1, <2>2 DEF GrantsInv, Forgotten
  <2>4. x.state \in FlowsIn(cookie) =>
              \E o \in Tabs : tab[o] # Empty /\ tab[o].popped = x.state /\ tab[o].saves
    BY <2>1, <2>2 DEF GrantsInv, Forgotten
  <2>5. ASSUME x.state \in FlowsIn(cookie')
        PROVE  \E o \in Tabs : tab'[o] # Empty /\ tab'[o].popped = x.state /\ tab'[o].saves
    <3>1. CASE tab[t].popped = x.state
      <4>1. cookie' = IF tab[t].saves THEN tab[t].copy ELSE cookie
        BY <2>1, <3>1
      <4>2. x.state \notin FlowsIn(tab[t].copy)
        BY <2>3, <3>1
      <4>3. ~tab[t].saves /\ x.state \in FlowsIn(cookie)
        BY <2>5, <4>1, <4>2
      <4>4. PICK o \in Tabs : tab[o] # Empty /\ tab[o].popped = x.state /\ tab[o].saves
        BY <2>4, <4>3
      <4>5. QED
        BY <1>1, <4>3, <4>4
    <3>2. CASE tab[t].popped # x.state
      <4>1. x.state \in FlowsIn(cookie)
        BY <2>1, <2>5, <3>2
      <4>2. PICK o \in Tabs : tab[o] # Empty /\ tab[o].popped = x.state /\ tab[o].saves
        BY <2>4, <4>1
      <4>3. QED
        BY <1>1, <3>2, <4>2
    <3>3. QED
      BY <3>1, <3>2
  <2>6. QED
    BY <1>1, <2>3, <2>5
<1>9. QED
  BY <1>2, <1>3, <1>4, <1>6, <1>7, <1>8 DEF GrantsInv

LEMMA RespondKeeps ==
    ASSUME GrantsInv, NEW t \in Tabs, Respond(t)
    PROVE  GrantsInv'
<1>1. tab[t] # Empty /\ tab' = [tab EXCEPT ![t] = Empty] /\ UNCHANGED <<flow, added, spent>>
  BY DEF Respond
<1>2. tab[t] \in TabRequests /\ RequestGood(tab[t])
  BY <1>1, OpenRequest
<1>3. cookie' = IF tab[t].saves THEN tab[t].copy ELSE cookie
  BY DEF Respond
<1>4. cookie' \in Cookies /\ Knows(cookie')
  <2>1. cookie \in Cookies /\ Knows(cookie)
    BY DEF GrantsInv, IntegrationsTyped
  <2>2. tab[t].copy \in Cookies /\ Knows(tab[t].copy)
    BY <1>2 DEF TabRequests, RequestGood
  <2>3. CASE tab[t].saves
    <3>1. cookie' = tab[t].copy
      BY <1>3, <2>3
    <3>2. QED
      BY <2>2, <3>1 DEF Knows
  <2>4. CASE ~tab[t].saves
    <3>1. cookie' = cookie
      BY <1>3, <2>4
    <3>2. QED
      BY <2>1, <3>1 DEF Knows
  <2>5. QED
    BY <2>3, <2>4
<1>5. /\ repeated \subseteq repeated'
      /\ \A s \in FlowsIn(cookie') :
            s \in FlowsIn(cookie) \/ s = tab[t].popped \/ s \in repeated'
  BY DEF Respond
<1>6. QED
  BY <1>1, <1>3, <1>4, <1>5, CloseKeeps

LEMMA RaiseKeeps ==
    ASSUME GrantsInv, NEW t \in Tabs, Raise(t)
    PROVE  GrantsInv'
<1>1. /\ tab[t] # Empty /\ tab' = [tab EXCEPT ![t] = Empty]
      /\ UNCHANGED <<flow, added, spent, cookie>>
      /\ repeated \subseteq repeated' /\ tab[t].popped \in repeated' \union {0}
  BY DEF Raise, world
<1>2. cookie' \in Cookies /\ Knows(cookie')
  BY <1>1 DEF GrantsInv, IntegrationsTyped, Knows
<1>3. QED
  BY <1>1, <1>2, CloseKeeps

\* The code is exchanged once; when the service refuses it, nothing is added.
LEMMA ExchangeKeeps ==
    ASSUME GrantsInv, NEW t \in Tabs, NEW ok \in BOOLEAN, Exchange(t, ok)
    PROVE  GrantsInv'
<1>1. /\ tab[t] # Empty /\ tab[t].exchange /\ (ok => tab[t].popped \notin spent)
      /\ spent' = spent \union {tab[t].popped} /\ UNCHANGED <<flow, added, cookie>>
      /\ repeated \subseteq repeated'
  BY DEF Exchange
<1>2. tab[t] \in TabRequests /\ RequestGood(tab[t])
  BY <1>1, OpenRequest
<1>3. CASE ~(ok \/ flow[tab[t].popped].kind # "github")
  <2>1. tab' = [tab EXCEPT ![t] = Empty] /\ tab[t].popped \in repeated'
    BY <1>3 DEF Exchange
  <2>2. cookie' \in Cookies /\ Knows(cookie')
    BY <1>1 DEF GrantsInv, IntegrationsTyped, Knows
  <2>3. QED
    BY <1>1, <2>1, <2>2, CloseKeeps
<1>4. CASE ok \/ flow[tab[t].popped].kind # "github"
  <2>1. PICK new : new = [tab[t] EXCEPT !.exchange = FALSE,
                                        !.rows = IF ok THEN @ ELSE <<>>]
    OBVIOUS
  <2>2. tab' = [tab EXCEPT ![t] = new] /\ UNCHANGED repeated
    BY <1>4, <2>1 DEF Exchange
  <2>3. /\ new \in TabRequests /\ new # Empty
        /\ new.copy = tab[t].copy /\ new.popped = tab[t].popped /\ ~new.exchange
        /\ new.saves = tab[t].saves
        /\ new.rows = tab[t].rows \/ new.rows = <<>>
        /\ ~ok => new.rows = <<>>
    <3>1. PICK left : left = IF ok THEN tab[t].rows ELSE <<>>
      OBVIOUS
    <3>2. left \in Seq(RowsToAdd)
      BY <1>2, <3>1 DEF TabRequests
    <3>3. new = [copy |-> tab[t].copy, popped |-> tab[t].popped, exchange |-> FALSE,
                 rows |-> left, saves |-> tab[t].saves]
      BY <1>2, <2>1, <3>1 DEF TabRequests
    <3>4. new \in TabRequests
      BY <1>2, <3>2, <3>3 DEF TabRequests
    <3>5. QED
      BY <3>1, <3>3, <3>4, IntegrationsAssumption
  <2>4. \A o \in Tabs : tab'[o] = IF o = t THEN new ELSE tab[o]
    BY <2>2 DEF GrantsInv, IntegrationsTyped
  <2>5. IntegrationsTyped' /\ Knows(cookie)'
    BY <1>1, <2>2, <2>3 DEF GrantsInv, IntegrationsTyped, Knows
  <2>6. RequestsGood'
    <3>1. ASSUME NEW o \in Tabs, tab'[o] # Empty, o # t PROVE RequestGood(tab[o])'
      <4>1. PICK r : r = tab[o]
        OBVIOUS
      <4>2. RequestGood(r)' /\ tab'[o] = r
        BY <1>1, <2>4, <3>1, <4>1, RequestStays DEF GrantsInv, RequestsGood
      <4>3. QED
        BY <4>2 DEF RequestGood
    <3>2. RequestGood(new)'
      <4>1. PICK r : r = tab[t]
        OBVIOUS
      <4>2. RequestGood(r)' /\ r.popped \in spent'
        BY <1>1, <1>2, <4>1, RequestStays
      <4>3. QED
        BY <2>3, <4>1, <4>2 DEF RequestGood
    <3>3. QED
      BY <2>4, <3>1, <3>2 DEF RequestsGood
  <2>7. PoppedOnce'
    BY <1>1, <2>2, <2>3, <2>4 DEF GrantsInv, PoppedOnce
  <2>8. \A o \in Tabs : tab[o] # Empty => tab'[o] # Empty /\ tab'[o].popped = tab[o].popped
                           /\ tab'[o].saves = tab[o].saves /\ tab'[o].copy = tab[o].copy
    BY <2>3, <2>4
  <2>9. Forgotten'
    <3>1. \A o \in Tabs : tab'[o] # Empty => tab[o] # Empty /\ tab'[o].popped = tab[o].popped
             /\ (tab'[o].rows = tab[o].rows \/ tab'[o].rows = <<>>)
      BY <1>1, <2>3, <2>4
    <3>2. QED
      BY <1>1, <2>2, <2>8, <3>1 DEF GrantsInv, Forgotten, FlowsIn
  <2>10. /\ \A o \in Tabs \ {t} : HasGrant(o)' => HasGrant(o) /\ tab'[o] = tab[o]
                                     /\ tab[o].popped \in spent
         /\ HasGrant(t)' => tab'[t].popped \notin spent
    <3>1. ASSUME NEW o \in Tabs \ {t}, HasGrant(o)'
          PROVE  HasGrant(o) /\ tab'[o] = tab[o] /\ tab[o].popped \in spent
      <4>1. tab'[o] = tab[o] /\ HasGrant(o)
        BY <2>4, <3>1 DEF HasGrant
      <4>2. RequestGood(tab[o])
        BY <4>1, OpenRequest DEF HasGrant
      <4>3. QED
        BY <4>1, <4>2 DEF HasGrant, RequestGood
    <3>2. HasGrant(t)' => tab'[t].popped \notin spent
      BY <1>1, <2>3, <2>4 DEF HasGrant
    <3>3. QED
      BY <3>1, <3>2
  <2>11. CodesSpent'
    <3>1. ASSUME NEW x \in added', x.kind \in CodeKinds, x.state # 0
          PROVE  x.state \in spent' /\ \A o \in Tabs : HasGrant(o)' => tab'[o].popped # x.state
      <4>1. x.state \in spent /\ \A o \in Tabs : HasGrant(o) => tab[o].popped # x.state
        BY <1>1, <3>1 DEF GrantsInv, CodesSpent
      <4>2. QED
        BY <1>1, <2>10, <4>1
    <3>2. ASSUME NEW o \in Tabs, NEW p \in Tabs, HasGrant(o)', HasGrant(p)',
                 tab'[o].popped = tab'[p].popped
          PROVE  o = p
      BY <2>10, <3>2 DEF GrantsInv, CodesSpent
    <3>3. QED
      BY <3>1, <3>2 DEF CodesSpent
  <2>12. AddedHome' /\ AddedOnce'
    BY <1>1, <2>2 DEF GrantsInv, AddedHome, AddedOnce, AtHome
  <2>13. QED
    BY <2>5, <2>6, <2>7, <2>9, <2>11, <2>12 DEF GrantsInv
<1>5. QED
  BY <1>3, <1>4

\* A row is inserted by the only request that may.
LEMMA InsertKeeps ==
    ASSUME GrantsInv, NEW t \in Tabs, Insert(t)
    PROVE  GrantsInv'
<1>1. tab[t] # Empty /\ ~tab[t].exchange /\ tab[t].rows # <<>>
      /\ UNCHANGED <<flow, spent, repeated, cookie>>
  BY DEF Insert
<1>2. tab[t] \in TabRequests /\ RequestGood(tab[t])
  BY <1>1, OpenRequest
<1>3. PICK row : row = Head(tab[t].rows)
  OBVIOUS
<1>4. PICK left : left = Tail(tab[t].rows)
  OBVIOUS
<1>5. /\ row \in RowsToAdd /\ 1 \in DOMAIN tab[t].rows /\ row = tab[t].rows[1]
      /\ left \in Seq(RowsToAdd) /\ Len(left) = Len(tab[t].rows) - 1
      /\ \A i \in DOMAIN left : i \in Nat \ {0} /\ i + 1 \in DOMAIN tab[t].rows
                                  /\ left[i] = tab[t].rows[i + 1]
  <2>1. tab[t].rows \in Seq(RowsToAdd)
    BY <1>2 DEF TabRequests
  <2>2. /\ Head(tab[t].rows) \in RowsToAdd /\ Tail(tab[t].rows) \in Seq(RowsToAdd)
        /\ Len(Tail(tab[t].rows)) = Len(tab[t].rows) - 1
        /\ \A i \in 1 .. Len(Tail(tab[t].rows)) : Tail(tab[t].rows)[i] = tab[t].rows[i + 1]
    BY <1>1, <2>1, HeadTailProperties
  <2>3. DOMAIN tab[t].rows = 1 .. Len(tab[t].rows) /\ Len(tab[t].rows) \in Nat \ {0}
    BY <1>1, <2>1, LenProperties, EmptySeq
  <2>4. DOMAIN left = 1 .. Len(left)
    BY <1>4, <2>2, LenProperties
  <2>5. Head(tab[t].rows) = tab[t].rows[1]
    BY <1>1, <2>1
  <2>6. QED
    BY <1>3, <1>4, <2>2, <2>3, <2>4, <2>5
<1>6. PICK new : new = [tab[t] EXCEPT !.rows = left]
  OBVIOUS
<1>7. /\ tab' = [tab EXCEPT ![t] = new]
      /\ new \in TabRequests /\ new # Empty
      /\ new.copy = tab[t].copy /\ new.popped = tab[t].popped /\ ~new.exchange
      /\ new.saves = tab[t].saves /\ new.rows = left
  <2>1. tab' = [tab EXCEPT ![t] = new]
    BY <1>4, <1>6 DEF Insert
  <2>2. new = [copy |-> tab[t].copy, popped |-> tab[t].popped,
               exchange |-> tab[t].exchange, rows |-> left, saves |-> tab[t].saves]
    BY <1>2, <1>6 DEF TabRequests
  <2>3. new \in TabRequests
    BY <1>2, <1>5, <2>2 DEF TabRequests
  <2>4. QED
    BY <1>1, <2>1, <2>2, <2>3, IntegrationsAssumption
<1>8. \A o \in Tabs : tab'[o] = IF o = t THEN new ELSE tab[o]
  BY <1>7 DEF GrantsInv, IntegrationsTyped
<1>9. PICK same : same = {x \in added : x = Nth(row, x.nth)}
  OBVIOUS
<1>10. PICK y : y = Nth(row, Cardinality(same) + 1)
  OBVIOUS
<1>11. /\ added' = added \union {y} /\ y \in AddedRows
       /\ y.kind = row.kind /\ y.state = row.state /\ y.key = row.key
       /\ y.project = row.project /\ y.allowed = row.allowed
       /\ y.nth > 1 => \E x \in added : x.kind = row.kind /\ x.state = row.state
                                          /\ x.key = row.key
  <2>1. added' = added \union {y}
    BY <1>3, <1>9, <1>10 DEF Insert
  <2>2. Cardinality(same) \in Nat /\ (same = {} => Cardinality(same) = 0)
    <3>1. IsFiniteSet(same)
      BY <1>9, FS_Subset DEF GrantsInv, IntegrationsTyped
    <3>2. QED
      BY <3>1, FS_CardinalityType, FS_EmptySet
  <2>3. y = [kind |-> row.kind, project |-> row.project, state |-> row.state,
             key |-> row.key, allowed |-> row.allowed, nth |-> Cardinality(same) + 1]
    BY <1>10 DEF Nth
  <2>4. y \in AddedRows
    BY <1>5, <2>2, <2>3 DEF AddedRows, RowsToAdd
  <2>5. ASSUME y.nth > 1
        PROVE  \E x \in added : x.kind = row.kind /\ x.state = row.state /\ x.key = row.key
    <3>1. same # {}
      BY <2>2, <2>3, <2>5
    <3>2. PICK x \in same : TRUE
      BY <3>1
    <3>3. x \in added /\ x = Nth(row, x.nth)
      BY <1>9
    <3>4. x.kind = row.kind /\ x.state = row.state /\ x.key = row.key
      BY <3>3 DEF Nth
    <3>5. QED
      BY <3>3, <3>4
  <2>6. QED
    BY <2>1, <2>3, <2>4, <2>5
<1>12. /\ AtHome(row) /\ row.state \in {0, tab[t].popped}
       /\ \A i \in DOMAIN left : left[i].key # row.key
       /\ row.kind \in CodeKinds => left = <<>>
       /\ row.state # 0 => IF row.kind \in CodeKinds THEN tab[t].popped \in spent /\ HasGrant(t)
                           ELSE tab[t].popped \notin FlowsIn(tab[t].copy) /\ tab[t].saves
  <2>1. /\ AtHome(row) /\ row.state \in {0, tab[t].popped}
        /\ row.kind \in CodeKinds => Len(tab[t].rows) = 1
        /\ row.state # 0 => IF row.kind \in CodeKinds THEN tab[t].popped \in spent
                            ELSE tab[t].popped \notin FlowsIn(tab[t].copy) /\ tab[t].saves
    BY <1>1, <1>2, <1>5 DEF RequestGood
  <2>2. \A i \in DOMAIN left : left[i].key # row.key
    <3>1. \A j \in DOMAIN tab[t].rows : tab[t].rows[j].key = tab[t].rows[1].key => j = 1
      BY <1>2, <1>5 DEF RequestGood
    <3>2. \A i \in DOMAIN left : i + 1 # 1
      BY <1>5
    <3>3. QED
      BY <1>5, <3>1, <3>2
  <2>3. row.kind \in CodeKinds => left = <<>>
    BY <1>5, <2>1, EmptySeq
  <2>4. row.state # 0 /\ row.kind \in CodeKinds => HasGrant(t)
    BY <1>1, <1>5 DEF HasGrant
  <2>5. QED
    BY <2>1, <2>2, <2>3, <2>4
<1>13. IntegrationsTyped' /\ Knows(cookie)'
  <2>1. IsFiniteSet(added')
    BY <1>11, FS_AddElement DEF GrantsInv, IntegrationsTyped
  <2>2. QED
    BY <1>1, <1>7, <1>11, <2>1 DEF GrantsInv, IntegrationsTyped, Knows
<1>14. RequestsGood'
  <2>1. ASSUME NEW o \in Tabs, tab'[o] # Empty, o # t PROVE RequestGood(tab[o])'
    <3>1. PICK r : r = tab[o]
      OBVIOUS
    <3>2. RequestGood(r)' /\ tab'[o] = r
      BY <1>1, <1>8, <2>1, <3>1, RequestStays DEF GrantsInv, RequestsGood
    <3>3. QED
      BY <3>2 DEF RequestGood
  <2>2. RequestGood(new)'
    <3>1. PICK r : r = tab[t]
      OBVIOUS
    <3>2. RequestGood(r)' /\ r.rows \in Seq(RowsToAdd)
      BY <1>1, <1>2, <3>1, RequestStays DEF TabRequests
    <3>3. Knows(new.copy)'
      BY <1>7, <3>1, <3>2 DEF RequestGood, Knows
    <3>4. ASSUME NEW i \in DOMAIN left
          PROVE  /\ AtHome(left[i])' /\ left[i].state \in {0, new.popped}
                 /\ \A j \in DOMAIN left : left[j].key = left[i].key => j = i
                 /\ left[i].kind \notin CodeKinds
                 /\ left[i].state # 0 => new.popped \notin FlowsIn(new.copy) /\ new.saves
      <4>1. i + 1 \in DOMAIN r.rows /\ left[i] = r.rows[i + 1] /\ i \in Nat \ {0}
        BY <1>5, <3>1
      <4>2. left[i].kind \notin CodeKinds
        <5>1. Len(r.rows) # 1
          BY <3>2, <4>1, LenProperties
        <5>2. QED
          BY <3>2, <4>1, <5>1 DEF RequestGood
      <4>3. \A j \in DOMAIN left : left[j].key = left[i].key => j = i
        <5>1. ASSUME NEW j \in DOMAIN left, left[j].key = left[i].key PROVE j = i
          <6>1. j + 1 \in DOMAIN r.rows /\ left[j] = r.rows[j + 1] /\ j \in Nat \ {0}
            BY <1>5, <3>1
          <6>2. j + 1 = i + 1
            BY <3>2, <4>1, <5>1, <6>1 DEF RequestGood
          <6>3. QED
            BY <4>1, <6>1, <6>2
        <5>2. QED
          BY <5>1
      <4>4. AtHome(r.rows[i + 1])' /\ r.rows[i + 1].state \in {0, r.popped}
        BY <3>2, <4>1 DEF RequestGood
      <4>5. left[i].state # 0 => new.popped \notin FlowsIn(new.copy) /\ new.saves
        BY <1>7, <3>1, <3>2, <4>1, <4>2 DEF RequestGood, FlowsIn
      <4>6. QED
        BY <1>7, <3>1, <4>1, <4>2, <4>3, <4>4, <4>5 DEF AtHome
    <3>5. QED
      BY <1>7, <3>3, <3>4 DEF RequestGood, FlowsIn
  <2>3. QED
    BY <1>8, <2>1, <2>2 DEF RequestsGood
<1>15. PoppedOnce'
  BY <1>1, <1>7, <1>8 DEF GrantsInv, PoppedOnce
<1>16. \A o \in Tabs : HasGrant(o)' => HasGrant(o) /\ tab'[o].popped = tab[o].popped
                          /\ (o = t => left # <<>>)
  <2>1. ASSUME HasGrant(t)' PROVE HasGrant(t) /\ left # <<>>
    <3>1. PICK i \in DOMAIN left : left[i].kind \in CodeKinds /\ left[i].state # 0
      BY <1>7, <1>8, <2>1 DEF HasGrant
    <3>2. HasGrant(t)
      BY <1>1, <1>5, <3>1 DEF HasGrant
    <3>3. QED
      BY <3>1, <3>2
  <2>2. QED
    BY <1>7, <1>8, <2>1 DEF HasGrant
<1>17. CodesSpent'
  <2>1. ASSUME NEW x \in added', x.kind \in CodeKinds, x.state # 0
        PROVE  x.state \in spent /\ \A o \in Tabs : HasGrant(o)' => tab'[o].popped # x.state
    <3>1. CASE x \in added
      BY <1>16, <2>1, <3>1 DEF GrantsInv, CodesSpent
    <3>2. CASE x = y
      <4>1. x.state = tab[t].popped /\ tab[t].popped \in spent /\ HasGrant(t) /\ left = <<>>
        BY <1>11, <1>12, <2>1, <3>2
      <4>2. QED
        BY <1>16, <4>1 DEF GrantsInv, CodesSpent
    <3>3. QED
      BY <1>11, <3>1, <3>2
  <2>2. QED
    BY <1>1, <1>16, <2>1 DEF GrantsInv, CodesSpent
<1>18. AddedHome'
  <2>1. \A x \in added' : x.kind = row.kind /\ x.state = row.state /\ x.allowed = row.allowed
           /\ x.project = row.project => AtHome(x)
    BY <1>12 DEF AtHome
  <2>2. QED
    BY <1>1, <1>11, <2>1 DEF GrantsInv, AddedHome, AtHome
<1>19. AddedOnce'
  <2>1. ASSUME y.state # 0, y.nth > 1 PROVE y.kind \notin CodeKinds /\ y.state \in repeated
    <3>1. PICK x \in added : x.kind = row.kind /\ x.state = row.state /\ x.key = row.key
      BY <1>11, <2>1
    <3>2. row.state = tab[t].popped /\ row.state # 0
      BY <1>11, <1>12, <2>1
    <3>3. row.kind \notin CodeKinds
      BY <1>12, <3>1, <3>2 DEF GrantsInv, CodesSpent
    <3>4. row.state \in repeated
      BY <1>1, <1>5, <3>1, <3>2, <3>3 DEF GrantsInv, Forgotten
    <3>5. QED
      BY <1>11, <3>3, <3>4
  <2>2. QED
    BY <1>1, <1>11, <2>1 DEF GrantsInv, AddedOnce
<1>20. Forgotten'
  <2>1. SUFFICES ASSUME NEW x \in added', x.state \notin repeated \union {0},
                        x.kind \notin CodeKinds
                 PROVE  /\ \A o \in Tabs : tab'[o] # Empty /\ tab'[o].popped = x.state =>
                              /\ x.state \notin FlowsIn(tab'[o].copy)
                              /\ \A i \in DOMAIN tab'[o].rows :
                                    tab'[o].rows[i].state = x.state =>
                                        tab'[o].rows[i].key # x.key
                        /\ x.state \in FlowsIn(cookie) =>
                              \E o \in Tabs : tab'[o] # Empty /\ tab'[o].popped = x.state
                                                /\ tab'[o].saves
    BY <1>1 DEF Forgotten, FlowsIn
  <2>2. CASE x \in added
    <3>1. /\ \A o \in Tabs : tab[o] # Empty /\ tab[o].popped = x.state =>
                /\ x.state \notin FlowsIn(tab[o].copy)
                /\ \A i \in DOMAIN tab[o].rows :
                      tab[o].rows[i].state = x.state => tab[o].rows[i].key # x.key
          /\ x.state \in FlowsIn(cookie) =>
                \E o \in Tabs : tab[o] # Empty /\ tab[o].popped = x.state /\ tab[o].saves
      BY <2>1, <2>2 DEF GrantsInv, Forgotten
    <3>2. \A o \in Tabs : tab[o] # Empty <=> tab'[o] # Empty
      BY <1>1, <1>7, <1>8
    <3>3. \A o \in Tabs : tab'[o] # Empty => tab'[o].popped = tab[o].popped
             /\ tab'[o].saves = tab[o].saves /\ tab'[o].copy = tab[o].copy
      BY <1>7, <1>8
    <3>4. ASSUME NEW o \in Tabs, tab'[o] # Empty, tab'[o].popped = x.state,
                 NEW i \in DOMAIN tab'[o].rows, tab'[o].rows[i].state = x.state
          PROVE  tab'[o].rows[i].key # x.key
      <4>1. tab[o] # Empty /\ tab[o].popped = x.state
        BY <3>2, <3>3, <3>4
      <4>2. CASE o # t
        BY <1>8, <3>1, <3>4, <4>1, <4>2
      <4>3. CASE o = t
        <5>1. tab'[o].rows = left
          BY <1>7, <1>8, <4>3
        <5>2. i + 1 \in DOMAIN tab[t].rows /\ left[i] = tab[t].rows[i + 1]
          BY <1>5, <3>4, <5>1
        <5>3. QED
          BY <3>1, <3>4, <4>1, <4>3, <5>1, <5>2
      <4>4. QED
        BY <4>2, <4>3
    <3>5. QED
      BY <3>1, <3>2, <3>3, <3>4
  <2>3. CASE x = y
    <3>1. /\ x.state = tab[t].popped /\ x.key = row.key
          /\ tab[t].popped \notin FlowsIn(tab[t].copy) /\ tab[t].saves
      BY <1>11, <1>12, <2>1, <2>3
    <3>2. \A o \in Tabs : tab'[o] # Empty /\ tab'[o].popped = x.state => o = t
      BY <1>1, <1>8, <2>1, <3>1 DEF GrantsInv, PoppedOnce
    <3>3. tab'[t] = new
      BY <1>8
    <3>4. \A i \in DOMAIN new.rows : new.rows[i].key # x.key
      BY <1>7, <1>12, <3>1
    <3>5. /\ new # Empty /\ new.popped = x.state /\ new.saves
          /\ x.state \notin FlowsIn(new.copy)
      BY <1>7, <3>1
    <3>6. QED
      BY <3>2, <3>3, <3>4, <3>5
  <2>4. QED
    BY <1>11, <2>2, <2>3
<1>21. QED
  BY <1>13, <1>14, <1>15, <1>17, <1>18, <1>19, <1>20 DEF GrantsInv

\* A session that forgets some keys.
LEMMA Forgets ==
    ASSUME cookie \in Cookies, Knows(cookie), NEW gone \in SUBSET SessionKeys, NEW copy,
           copy = [k \in SessionKeys |-> IF k \in gone THEN Empty ELSE cookie[k]]
    PROVE  /\ copy \in Cookies /\ Knows(copy) /\ FlowsIn(copy) \subseteq FlowsIn(cookie)
<1>1. copy \in Cookies /\ \A k \in SessionKeys : copy[k] \in {cookie[k], Empty}
  BY DEF Cookies
<1>2. PICK held : held = cookie
  OBVIOUS
<1>3. Knows(held)
  BY <1>2 DEF Knows
<1>4. Knows(copy) /\ FlowsIn(copy) \subseteq FlowsIn(held)
  BY <1>1, <1>2, <1>3, StillKnows
<1>5. QED
  BY <1>1, <1>2, <1>4

\* A request with nothing to add yet, or a row that is of no flow.
LEMMA PlainBegins ==
    ASSUME GrantsInv, UNCHANGED <<flow, cookie, spent>>, added' \subseteq added,
           NEW t \in Tabs, NEW copy \in Cookies, NEW popped \in Nat,
           NEW exchange \in BOOLEAN, NEW inserts \in Seq(RowsToAdd),
           Begins(t, copy, popped, exchange, inserts),
           Knows(copy), FlowsIn(copy) \subseteq FlowsIn(cookie),
           GoodInserts(copy, popped, exchange, inserts)
    PROVE  GrantsInv'
<1>1. FlowsGrow
  BY LenProperties DEF FlowsGrow, GrantsInv, IntegrationsTyped
<1>2. Knows(copy)'
  BY <1>1, StaysKnown
<1>3. \A s \in FlowsIn(copy) : s \in FlowsIn(cookie) \/ s \notin DOMAIN flow
  OBVIOUS
<1>4. QED
  BY <1>1, <1>2, <1>3, BeginsKeeps

LEMMA OneRow ==
    ASSUME NEW kind \in FlowKinds \union FormKinds, NEW p \in Places, NEW s \in Nat,
           NEW row, row = NewRow(kind, p, s, 1)
    PROVE  /\ row \in RowsToAdd /\ <<row>> \in Seq(RowsToAdd)
           /\ DOMAIN <<row>> = {1} /\ Len(<<row>>) = 1 /\ <<row>>[1] = row
           /\ row.kind = kind /\ row.project = p /\ row.state = s
           /\ row.allowed = (rights[p] = "rw")
<1>1. PICK b \in BOOLEAN : b = (rights[p] = "rw")
  OBVIOUS
<1>2. row = [kind |-> kind, project |-> p, state |-> s, key |-> 1, allowed |-> b]
  BY <1>1 DEF NewRow
<1>3. row \in RowsToAdd
  BY <1>2 DEF RowsToAdd
<1>4. QED
  BY <1>1, <1>2, <1>3

LEMMA FormKeeps ==
    ASSUME GrantsInv, NEW t \in Tabs, NEW p \in Places, NEW kind \in FormKinds,
           NEW settings, FormView(t, p, kind, settings)
    PROVE  GrantsInv'
<1>1. PICK copy : copy = cookie
  OBVIOUS
<1>2. PICK row : row = NewRow(kind, p, 0, 1)
  OBVIOUS
<1>3. PICK list : list = <<row>>
  OBVIOUS
<1>4. /\ list \in Seq(RowsToAdd) /\ DOMAIN list = {1} /\ Len(list) = 1
      /\ list[1] = row /\ row.state = 0 /\ row.allowed
  <2>1. kind \in FlowKinds \union FormKinds /\ rights[p] = "rw"
    BY DEF FormView
  <2>2. /\ <<row>> \in Seq(RowsToAdd) /\ DOMAIN <<row>> = {1} /\ Len(<<row>>) = 1
        /\ <<row>>[1] = row /\ row.state = 0 /\ row.allowed = (rights[p] = "rw")
    BY <1>2, <2>1, OneRow
  <2>3. QED
    BY <1>3, <2>1, <2>2
<1>5. copy \in Cookies /\ Knows(copy)
  BY <1>1 DEF GrantsInv, IntegrationsTyped, Knows
<1>6. Begins(t, copy, 0, FALSE, list) /\ UNCHANGED <<flow, cookie, spent, added>>
  BY <1>1, <1>2, <1>3 DEF FormView, world, Begins
<1>7. GoodInserts(copy, 0, FALSE, list)
  BY <1>4 DEF GoodInserts, AtHome
<1>8. FlowsIn(copy) \subseteq FlowsIn(cookie) /\ added' \subseteq added
  BY <1>1, <1>6
<1>9. QED
  BY <1>4, <1>5, <1>6, <1>7, <1>8, PlainBegins

\* A flow that starts is known under a key of its kind.
LEMMA StartKeeps ==
    ASSUME GrantsInv, NEW t \in Tabs, NEW p \in Places, NEW kind \in FlowKinds,
           NEW settings, NEW copy \in Cookies, StartFlow(t, p, kind, settings, copy),
           \A k \in CodeKinds \union {"pd"} :
              copy[k] = cookie[k]
                \/ (k = kind /\ copy[k] = [state |-> Len(flow) + 1, project |-> p]),
           copy["po"] = cookie["po"] \/ (kind = "po" /\ copy["po"] = Len(flow) + 1),
           copy["ghState"] = cookie["ghState"]
             \/ (kind = "github" /\ copy["ghState"] = Len(flow) + 1),
           copy["ghToken"] = cookie["ghToken"]
    PROVE  GrantsInv'
<1>1. /\ flow \in Seq(Flow) /\ Knows(cookie) /\ Len(flow) \in Nat
  BY LenProperties DEF GrantsInv, IntegrationsTyped
<1>2. PICK f : f = [kind |-> kind, project |-> p]
  OBVIOUS
<1>3. PICK s \in Nat : s = Len(flow) + 1
  BY <1>1
<1>4. f \in Flow /\ flow' = Append(flow, f)
  BY <1>2 DEF Flow, StartFlow
<1>5. FlowsGrow /\ s \notin DOMAIN flow /\ s # 0 /\ s \in DOMAIN flow' /\ flow'[s] = f
  BY <1>1, <1>3, <1>4, StartGrows
<1>6. Begins(t, copy, s, FALSE, <<>>) /\ UNCHANGED <<cookie, spent, added>>
  BY <1>3 DEF StartFlow, world
<1>7. Knows(copy)'
  <2>1. PICK held : held = cookie
    OBVIOUS
  <2>2. Knows(held)' /\ Knows(held)
    BY <1>1, <1>5, <2>1, StaysKnown DEF Knows
  <2>3. /\ \A k \in CodeKinds \union {"pd"} :
             copy[k] = held[k] \/ (k = kind /\ copy[k] = [state |-> s, project |-> p])
        /\ copy["po"] = held["po"] \/ (kind = "po" /\ copy["po"] = s)
        /\ copy["ghState"] = held["ghState"] \/ (kind = "github" /\ copy["ghState"] = s)
        /\ copy["ghToken"] = held["ghToken"]
    BY <1>3, <2>1
  <2>4. ASSUME NEW k \in CodeKinds \union {"pd"}, copy[k] # Empty
        PROVE  /\ copy[k].state \in DOMAIN flow'
               /\ flow'[copy[k].state] = [kind |-> k, project |-> copy[k].project]
    <3>1. CASE copy[k] = held[k]
      BY <2>2, <2>4, <3>1 DEF Knows
    <3>2. CASE k = kind /\ copy[k] = [state |-> s, project |-> p]
      BY <1>2, <1>5, <3>2
    <3>3. QED
      BY <2>3, <3>1, <3>2
  <2>5. copy["po"] # Empty => copy["po"] \in DOMAIN flow' /\ flow'[copy["po"]].kind = "po"
    BY <1>2, <1>5, <2>2, <2>3 DEF Knows
  <2>6. \A k \in {"ghState", "ghToken"} : copy[k] # Empty =>
           copy[k] \in DOMAIN flow' /\ flow'[copy[k]].kind = "github"
    BY <1>2, <1>5, <2>2, <2>3 DEF Knows
  <2>7. copy["ghState"] # Empty => copy["ghState"] # copy["ghToken"]
    <3>1. held["ghToken"] # s
      BY <1>5, <2>2, IntegrationsAssumption DEF Knows
    <3>2. QED
      BY <2>2, <2>3, <3>1 DEF Knows
  <2>8. QED
    BY <2>4, <2>5, <2>6, <2>7 DEF Knows
<1>8. ASSUME NEW n \in FlowsIn(copy) PROVE n \in FlowsIn(cookie) \/ n \notin DOMAIN flow
  <2>1. \/ \E k \in CodeKinds \union {"pd"} : copy[k] # Empty /\ copy[k].state = n
        \/ \E k \in {"po", "ghState", "ghToken"} : copy[k] # Empty /\ copy[k] = n
    BY <1>8, FlowsInAre
  <2>2. \/ n = s
        \/ \E k \in CodeKinds \union {"pd"} : cookie[k] # Empty /\ cookie[k].state = n
        \/ \E k \in {"po", "ghState", "ghToken"} : cookie[k] # Empty /\ cookie[k] = n
    BY <1>3, <2>1
  <2>3. QED
    BY <1>5, <2>2, FlowsInAre
<1>9. <<>> \in Seq(RowsToAdd) /\ GoodInserts(copy, s, FALSE, <<>>)
  BY DEF GoodInserts
<1>10. QED
  BY <1>5, <1>6, <1>7, <1>8, <1>9, BeginsKeeps

\* The callback of a flow: the key is popped, and its project gets the channel.
LEMMA CompleteKeeps ==
    ASSUME GrantsInv, NEW t \in Tabs, NEW u \in Callbacks, NEW kind \in CodeKinds,
           Complete(t, u, kind)
    PROVE  GrantsInv'
<1>1. PICK held : held = cookie[kind]
  OBVIOUS
<1>2. PICK ok \in BOOLEAN :
         ok = (rights[held.project] = "rw" /\ ~u.denied /\ u.state = held.state)
  OBVIOUS
<1>3. PICK row : row = NewRow(kind, held.project, u.state, 1)
  OBVIOUS
<1>4. PICK list : list = IF ok THEN <<row>> ELSE <<>>
  OBVIOUS
<1>5. PICK copy : copy = Drops(kind)
  OBVIOUS
<1>6. PICK s : s = u.state
  OBVIOUS
<1>7. /\ Knows(cookie) /\ cookie \in Cookies /\ flow \in Seq(Flow)
      /\ cookie[kind] # Empty /\ s \in DOMAIN flow /\ s \in Nat \ {0}
  BY <1>6, LenProperties DEF GrantsInv, IntegrationsTyped, Complete, Callbacks
<1>8. /\ held.state \in DOMAIN flow
      /\ flow[held.state] = [kind |-> kind, project |-> held.project]
  BY <1>1, <1>7 DEF Knows
<1>9. held.project \in Places
  BY <1>7, <1>8 DEF Flow
<1>10. copy \in Cookies /\ Knows(copy) /\ FlowsIn(copy) \subseteq FlowsIn(cookie)
  <2>1. copy = [k \in SessionKeys |-> IF k \in {kind} THEN Empty ELSE cookie[k]]
    BY <1>5, <1>7 DEF Drops, Cookies
  <2>2. {kind} \in SUBSET SessionKeys
    BY DEF SessionKeys
  <2>3. QED
    BY <1>7, <2>1, <2>2, Forgets
<1>11. Begins(t, copy, s, ok, list) /\ UNCHANGED <<flow, cookie, spent, added>>
  BY <1>1, <1>2, <1>3, <1>4, <1>5, <1>6 DEF Complete, world, Begins
<1>12. list \in Seq(RowsToAdd) /\ GoodInserts(copy, s, ok, list)
  <2>1. CASE ~ok
    BY <1>4, <2>1 DEF GoodInserts
  <2>2. CASE ok
    <3>1. rights[held.project] = "rw" /\ s = held.state /\ kind \in FlowKinds \union FormKinds
      BY <1>2, <1>6, <2>2 DEF FlowKinds
    <3>2. /\ <<row>> \in Seq(RowsToAdd) /\ DOMAIN <<row>> = {1} /\ Len(<<row>>) = 1
          /\ <<row>>[1] = row /\ row.state = s /\ row.kind = kind
          /\ row.project = held.project /\ row.allowed = (rights[held.project] = "rw")
      BY <1>3, <1>6, <1>7, <1>9, <3>1, OneRow
    <3>3. /\ list \in Seq(RowsToAdd) /\ DOMAIN list = {1} /\ Len(list) = 1
          /\ list[1] = row
      BY <1>4, <2>2, <3>2
    <3>4. AtHome(row)'
      BY <1>8, <1>7, <1>11, <3>1, <3>2 DEF AtHome, CodeKinds
    <3>5. s \in FlowsIn(cookie)
      BY <1>1, <1>7, <3>1, FlowsInAre
    <3>6. QED
      BY <2>2, <3>2, <3>3, <3>4, <3>5 DEF GoodInserts
  <2>3. QED
    BY <2>1, <2>2
<1>13. QED
  BY <1>7, <1>10, <1>11, <1>12, PlainBegins

\* The same for PagerDuty, whose callback has a key for each of the channels.
LEMMA PdKeeps ==
    ASSUME GrantsInv, NEW t \in Tabs, NEW u \in Callbacks, PdComplete(t, u)
    PROVE  GrantsInv'
<1>1. PICK held : held = cookie["pd"]
  OBVIOUS
<1>2. PICK ok \in BOOLEAN : ok = (rights[held.project] = "rw" /\ u.state = held.state)
  OBVIOUS
<1>3. PICK s : s = u.state
  OBVIOUS
<1>4. PICK copy : copy = Drops("pd")
  OBVIOUS
<1>5. PICK n \in 1 .. 2 :
         Begins(t, copy, s, FALSE,
                IF ok THEN [k \in 1 .. n |-> NewRow("pd", held.project, s, k)] ELSE <<>>)
  BY <1>1, <1>2, <1>3, <1>4 DEF PdComplete
<1>6. PICK list :
         list = IF ok THEN [k \in 1 .. n |-> NewRow("pd", held.project, s, k)] ELSE <<>>
  OBVIOUS
<1>7. /\ Knows(cookie) /\ cookie \in Cookies /\ flow \in Seq(Flow)
      /\ cookie["pd"] # Empty /\ s \in DOMAIN flow /\ s \in Nat \ {0}
  BY <1>3, LenProperties DEF GrantsInv, IntegrationsTyped, PdComplete, Callbacks
<1>8. /\ held.state \in DOMAIN flow
      /\ flow[held.state] = [kind |-> "pd", project |-> held.project]
  BY <1>1, <1>7 DEF Knows
<1>9. held.project \in Places
  BY <1>7, <1>8 DEF Flow
<1>10. copy \in Cookies /\ Knows(copy) /\ FlowsIn(copy) \subseteq FlowsIn(cookie)
  <2>1. copy = [k \in SessionKeys |-> IF k \in {"pd"} THEN Empty ELSE cookie[k]]
    BY <1>4, <1>7 DEF Drops, Cookies
  <2>2. {"pd"} \in SUBSET SessionKeys
    BY DEF SessionKeys
  <2>3. QED
    BY <1>7, <2>1, <2>2, Forgets
<1>11. Begins(t, copy, s, FALSE, list) /\ UNCHANGED <<flow, cookie, spent, added>>
  BY <1>5, <1>6 DEF PdComplete, world
<1>12. ASSUME s = held.state PROVE s \notin FlowsIn(copy) /\ copy # cookie
  <2>1. copy["pd"] = Empty /\ \A k \in SessionKeys \ {"pd"} : copy[k] = cookie[k]
    BY <1>4, <1>7 DEF Drops, Cookies, SessionKeys
  <2>2. flow[s].kind = "pd"
    BY <1>8, <1>12
  <2>3. ASSUME NEW k \in CodeKinds, copy[k] # Empty PROVE flow[copy[k].state].kind = k
    <3>1. flow[copy[k].state] = [kind |-> k, project |-> copy[k].project]
      BY <1>10, <2>3 DEF Knows
    <3>2. QED
      BY <3>1
  <2>4. /\ copy["po"] # Empty => flow[copy["po"]].kind = "po"
        /\ \A k \in {"ghState", "ghToken"} : copy[k] # Empty => flow[copy[k]].kind = "github"
    BY <1>10 DEF Knows
  <2>5. s \notin FlowsIn(copy)
    <3>1. \A k \in CodeKinds \union {"pd"} : copy[k] # Empty => copy[k].state # s
      BY <2>1, <2>2, <2>3 DEF CodeKinds
    <3>2. \A k \in {"po", "ghState", "ghToken"} : copy[k] # Empty => copy[k] # s
      BY <2>2, <2>4
    <3>3. QED
      BY <3>1, <3>2, FlowsInAre
  <2>6. QED
    BY <1>7, <2>1, <2>5
<1>13. list \in Seq(RowsToAdd) /\ GoodInserts(copy, s, FALSE, list)
  <2>1. CASE ~ok
    BY <1>6, <2>1 DEF GoodInserts
  <2>2. CASE ok
    <3>1. rights[held.project] = "rw" /\ s = held.state
      BY <1>2, <1>3, <2>2
    <3>2. list = [k \in 1 .. n |-> [kind |-> "pd", project |-> held.project, state |-> s,
                                    key |-> k, allowed |-> TRUE]]
      BY <1>6, <2>2, <3>1 DEF NewRow
    <3>3. DOMAIN list = 1 .. n /\ \A k \in 1 .. n :
             /\ list[k].kind = "pd" /\ list[k].project = held.project
             /\ list[k].state = s /\ list[k].key = k /\ list[k].allowed
             /\ list[k] \in RowsToAdd
      <4>1. "pd" \in FlowKinds \union FormKinds /\ s \in Nat /\ TRUE \in BOOLEAN
        BY <1>7 DEF FlowKinds
      <4>2. \A k \in 1 .. n : k \in {1, 2}
        OBVIOUS
      <4>3. QED
        BY <1>9, <3>2, <4>1, <4>2 DEF RowsToAdd
    <3>4. list \in Seq(RowsToAdd)
      <4>1. n \in Nat /\ list \in [1 .. n -> RowsToAdd]
        BY <3>2, <3>3
      <4>2. QED
        BY <4>1
    <3>5. s \in FlowsIn(cookie) /\ "pd" \notin CodeKinds
      BY <1>1, <1>7, <3>1, FlowsInAre DEF CodeKinds
    <3>6. \A k \in DOMAIN list : AtHome(list[k])'
      BY <1>7, <1>8, <1>11, <3>1, <3>3 DEF AtHome
    <3>7. QED
      BY <1>12, <3>1, <3>3, <3>4, <3>5, <3>6 DEF GoodInserts
  <2>3. QED
    BY <2>1, <2>2
<1>14. QED
  BY <1>7, <1>10, <1>11, <1>13, PlainBegins

\* Pushover, whose URL names the project and whose session the state.
LEMMA PushoverKeeps ==
    ASSUME GrantsInv, NEW t \in Tabs, NEW u \in Callbacks,
           PushoverSuccess(t, u) \/ PushoverUnsubscribed(t, u)
    PROVE  GrantsInv'
<1>1. PICK s : s = u.state
  OBVIOUS
<1>2. PICK p : p = flow[s].project
  OBVIOUS
<1>3. PICK copy : copy = Drops("po")
  OBVIOUS
<1>4. PICK row : row = NewRow("po", p, s, 1)
  OBVIOUS
<1>5. /\ Knows(cookie) /\ cookie \in Cookies /\ flow \in Seq(Flow)
      /\ s \in DOMAIN flow /\ s \in Nat \ {0} /\ flow[s].kind = "po" /\ rights[p] = "rw"
  <2>1. Knows(cookie) /\ cookie \in Cookies /\ flow \in Seq(Flow)
    BY DEF GrantsInv, IntegrationsTyped
  <2>2. s \in DOMAIN flow
    BY <1>1 DEF Callbacks
  <2>3. s \in Nat \ {0}
    BY <2>1, <2>2, LenProperties
  <2>4. flow[u.state].kind = "po" /\ rights[flow[u.state].project] = "rw"
    BY DEF PushoverSuccess, PushoverUnsubscribed
  <2>5. QED
    BY <1>1, <1>2, <2>1, <2>2, <2>3, <2>4
<1>6. p \in Places /\ flow[s] = [kind |-> "po", project |-> p]
  <2>1. flow[s] \in Flow
    BY <1>5
  <2>2. QED
    BY <1>2, <1>5, <2>1 DEF Flow
<1>7. copy \in Cookies /\ Knows(copy) /\ FlowsIn(copy) \subseteq FlowsIn(cookie)
  <2>1. copy = [k \in SessionKeys |-> IF k \in {"po"} THEN Empty ELSE cookie[k]]
    BY <1>3, <1>5 DEF Drops, Cookies
  <2>2. {"po"} \in SUBSET SessionKeys
    BY DEF SessionKeys
  <2>3. QED
    BY <1>5, <2>1, <2>2, Forgets
<1>8. CASE PushoverUnsubscribed(t, u)
  <2>1. /\ Begins(t, copy, s, FALSE, <<>>) /\ UNCHANGED <<flow, cookie, spent>>
        /\ added' \subseteq added
    BY <1>1, <1>3, <1>8 DEF PushoverUnsubscribed
  <2>2. <<>> \in Seq(RowsToAdd) /\ GoodInserts(copy, s, FALSE, <<>>)
    BY DEF GoodInserts
  <2>3. QED
    BY <1>5, <1>7, <2>1, <2>2, PlainBegins
<1>9. CASE PushoverSuccess(t, u)
  <2>1. PICK list : list = IF s = cookie["po"] THEN <<row>> ELSE <<>>
    OBVIOUS
  <2>2. Begins(t, copy, s, FALSE, list) /\ UNCHANGED <<flow, cookie, spent, added>>
        /\ cookie["po"] # Empty
    BY <1>1, <1>2, <1>3, <1>4, <1>9, <2>1 DEF PushoverSuccess, world
  <2>3. list \in Seq(RowsToAdd) /\ GoodInserts(copy, s, FALSE, list)
    <3>1. CASE s # cookie["po"]
      BY <2>1, <3>1 DEF GoodInserts
    <3>2. CASE s = cookie["po"]
      <4>1. "po" \in FlowKinds \union FormKinds /\ "po" \notin CodeKinds
        BY DEF FlowKinds, CodeKinds
      <4>2. /\ <<row>> \in Seq(RowsToAdd) /\ DOMAIN <<row>> = {1} /\ Len(<<row>>) = 1
            /\ <<row>>[1] = row /\ row.state = s /\ row.kind = "po"
            /\ row.project = p /\ row.allowed = (rights[p] = "rw")
        BY <1>4, <1>5, <1>6, <4>1, OneRow
      <4>3. list \in Seq(RowsToAdd) /\ DOMAIN list = {1} /\ list[1] = row
        BY <2>1, <3>2, <4>2
      <4>4. AtHome(row)'
        BY <1>5, <1>6, <2>2, <4>2 DEF AtHome
      <4>5. s \in FlowsIn(cookie)
        BY <2>2, <3>2, FlowsInAre
      <4>6. s \notin FlowsIn(copy) /\ copy # cookie
        <5>1. copy["po"] = Empty
          BY <1>3, <1>5 DEF Drops, Cookies, SessionKeys
        <5>2. ASSUME NEW k \in CodeKinds \union {"pd"}, copy[k] # Empty
              PROVE  copy[k].state # s
          <6>1. flow[copy[k].state] = [kind |-> k, project |-> copy[k].project]
            BY <1>7, <5>2 DEF Knows
          <6>2. k # "po"
            BY DEF CodeKinds
          <6>3. QED
            BY <1>5, <6>1, <6>2
        <5>3. \A k \in {"ghState", "ghToken"} : copy[k] # Empty => copy[k] # s
          BY <1>5, <1>7 DEF Knows
        <5>4. s \notin FlowsIn(copy)
          BY <5>1, <5>2, <5>3, FlowsInAre
        <5>5. QED
          BY <2>2, <5>1, <5>4
      <4>7. QED
        BY <4>1, <4>2, <4>3, <4>4, <4>5, <4>6 DEF GoodInserts
    <3>3. QED
      BY <3>1, <3>2
  <2>4. QED
    BY <1>5, <1>7, <2>2, <2>3, PlainBegins
<1>10. QED
  BY <1>8, <1>9

\* GitHub: the state becomes the token, which is dropped with the rows.
LEMMA GitHubSelectKeeps ==
    ASSUME GrantsInv, NEW t \in Tabs, NEW u \in Callbacks, GitHubSelect(t, u)
    PROVE  GrantsInv'
<1>1. PICK s : s = u.state
  OBVIOUS
<1>2. /\ Knows(cookie) /\ cookie \in Cookies /\ flow \in Seq(Flow)
      /\ s \in DOMAIN flow /\ s \in Nat \ {0} /\ flow[s].kind = "github"
      /\ UNCHANGED <<flow, cookie, spent, added>>
  BY <1>1, LenProperties DEF GrantsInv, IntegrationsTyped, GitHubSelect, Callbacks, world
<1>3. <<>> \in Seq(RowsToAdd)
      /\ \A copy, popped, exchange : GoodInserts(copy, popped, exchange, <<>>)
  BY DEF GoodInserts
<1>4. CASE cookie["ghState"] # Empty /\ s = cookie["ghState"] /\ ~u.denied
  <2>1. PICK revoked \in BOOLEAN :
           Begins(t, AfterRepos([Drops("ghState") EXCEPT !["ghToken"] = s], revoked),
                  s, TRUE, <<>>)
    BY <1>1, <1>4 DEF GitHubSelect
  <2>2. PICK copy : copy = AfterRepos([Drops("ghState") EXCEPT !["ghToken"] = s], revoked)
    OBVIOUS
  <2>3. PICK gone : gone = IF revoked THEN {"ghState", "ghProject", "ghToken"}
                           ELSE {"ghState"}
    OBVIOUS
  <2>4. copy = [k \in SessionKeys |->
                  IF k \in gone THEN Empty ELSE IF k = "ghToken" THEN s ELSE cookie[k]]
    <3>1. [Drops("ghState") EXCEPT !["ghToken"] = s]
            = [k \in SessionKeys |-> IF k = "ghState" THEN Empty
                                     ELSE IF k = "ghToken" THEN s ELSE cookie[k]]
      BY <1>2 DEF Drops, Cookies, SessionKeys
    <3>2. CASE revoked
      BY <2>2, <2>3, <3>1, <3>2 DEF AfterRepos, SessionKeys
    <3>3. CASE ~revoked
      BY <2>2, <2>3, <3>1, <3>3 DEF AfterRepos
    <3>4. QED
      BY <3>2, <3>3
  <2>5. copy \in Cookies
    BY <1>2, <2>4 DEF Cookies
  <2>6. /\ \A k \in CodeKinds \union {"pd", "po"} : copy[k] = cookie[k]
        /\ copy["ghState"] = Empty /\ copy["ghToken"] \in {Empty, s}
    BY <2>3, <2>4 DEF SessionKeys, CodeKinds
  <2>7. Knows(copy)
    BY <1>2, <2>6 DEF Knows
  <2>8. FlowsIn(copy) \subseteq FlowsIn(cookie)
    <3>1. ASSUME NEW n \in FlowsIn(copy) PROVE n \in FlowsIn(cookie)
      <4>1. \/ \E k \in CodeKinds \union {"pd"} : copy[k] # Empty /\ copy[k].state = n
            \/ \E k \in {"po", "ghState", "ghToken"} : copy[k] # Empty /\ copy[k] = n
        BY <3>1, FlowsInAre
      <4>2. \/ \E k \in CodeKinds \union {"pd"} : cookie[k] # Empty /\ cookie[k].state = n
            \/ \E k \in {"po", "ghState", "ghToken"} : cookie[k] # Empty /\ cookie[k] = n
        BY <1>4, <2>6, <4>1
      <4>3. QED
        BY <4>2, FlowsInAre
    <3>2. QED
      BY <3>1
  <2>9. Begins(t, copy, s, TRUE, <<>>)
    BY <2>1, <2>2
  <2>10. QED
    BY <1>2, <1>3, <2>5, <2>7, <2>8, <2>9, PlainBegins
<1>5. CASE cookie["ghState"] # Empty /\ ~(s = cookie["ghState"] /\ ~u.denied)
  <2>1. PICK copy : copy = Drops("ghState")
    OBVIOUS
  <2>2. Begins(t, copy, s, FALSE, <<>>)
    BY <1>1, <1>5, <2>1 DEF GitHubSelect
  <2>3. copy = [k \in SessionKeys |-> IF k \in {"ghState"} THEN Empty ELSE cookie[k]]
    BY <1>2, <2>1 DEF Drops, Cookies
  <2>4. {"ghState"} \in SUBSET SessionKeys
    BY DEF SessionKeys
  <2>5. copy \in Cookies /\ Knows(copy) /\ FlowsIn(copy) \subseteq FlowsIn(cookie)
    BY <1>2, <2>3, <2>4, Forgets
  <2>6. QED
    BY <1>2, <1>3, <2>2, <2>5, PlainBegins
<1>6. CASE cookie["ghState"] = Empty
  <2>1. PICK revoked \in BOOLEAN :
           Begins(t, AfterRepos(cookie, revoked), cookie["ghToken"], FALSE, <<>>)
    BY <1>6 DEF GitHubSelect
  <2>2. PICK copy : copy = AfterRepos(cookie, revoked)
    OBVIOUS
  <2>3. PICK gone : gone = IF revoked THEN {"ghProject", "ghToken"} ELSE {}
    OBVIOUS
  <2>4. copy = [k \in SessionKeys |-> IF k \in gone THEN Empty ELSE cookie[k]]
    <3>1. CASE revoked
      BY <1>2, <2>2, <2>3, <3>1 DEF AfterRepos, Cookies, SessionKeys
    <3>2. CASE ~revoked
      BY <1>2, <2>2, <2>3, <3>2 DEF AfterRepos, Cookies
    <3>3. QED
      BY <3>1, <3>2
  <2>5. gone \in SUBSET SessionKeys
    BY <2>3 DEF SessionKeys
  <2>6. copy \in Cookies /\ Knows(copy) /\ FlowsIn(copy) \subseteq FlowsIn(cookie)
    BY <1>2, <2>4, <2>5, Forgets
  <2>7. PICK n : n = cookie["ghToken"]
    OBVIOUS
  <2>8. n \in Nat /\ Begins(t, copy, n, FALSE, <<>>)
    <3>1. cookie["ghToken"] # Empty
      BY <1>6 DEF GitHubSelect
    <3>2. n \in DOMAIN flow
      BY <1>2, <2>7, <3>1 DEF Knows
    <3>3. n \in Nat
      BY <1>2, <3>2, LenProperties
    <3>4. Begins(t, copy, n, FALSE, <<>>)
      BY <2>1, <2>2, <2>7
    <3>5. QED
      BY <3>3, <3>4
  <2>9. QED
    BY <1>2, <1>3, <2>6, <2>8, PlainBegins
<1>7. QED
  BY <1>4, <1>5, <1>6

LEMMA GitHubSaveKeeps ==
    ASSUME GrantsInv, NEW t \in Tabs, NEW p \in Places, GitHubSave(t, p)
    PROVE  GrantsInv'
<1>1. PICK s : s = cookie["ghToken"]
  OBVIOUS
<1>2. PICK copy : copy = [Drops("ghProject") EXCEPT !["ghToken"] = Empty]
  OBVIOUS
<1>3. PICK row : row = NewRow("github", p, s, 1)
  OBVIOUS
<1>4. /\ Knows(cookie) /\ cookie \in Cookies /\ flow \in Seq(Flow) /\ rights[p] = "rw"
      /\ s # Empty /\ UNCHANGED <<flow, cookie, spent, added>>
  BY <1>1 DEF GrantsInv, IntegrationsTyped, GitHubSave, world
<1>5. s \in DOMAIN flow /\ s \in Nat \ {0} /\ flow[s].kind = "github"
  <2>1. s \in DOMAIN flow /\ flow[s].kind = "github"
    BY <1>1, <1>4 DEF Knows
  <2>2. QED
    BY <1>4, <2>1, LenProperties
<1>6. PICK found \in BOOLEAN :
         Begins(t, copy, s, FALSE, IF found THEN <<row>> ELSE <<>>)
  BY <1>1, <1>2, <1>3 DEF GitHubSave
<1>7. PICK list : list = IF found THEN <<row>> ELSE <<>>
  OBVIOUS
<1>8. copy = [k \in SessionKeys |->
                IF k \in {"ghProject", "ghToken"} THEN Empty ELSE cookie[k]]
  BY <1>2, <1>4 DEF Drops, Cookies, SessionKeys
<1>9. copy \in Cookies /\ Knows(copy) /\ FlowsIn(copy) \subseteq FlowsIn(cookie)
  <2>1. {"ghProject", "ghToken"} \in SUBSET SessionKeys
    BY DEF SessionKeys
  <2>2. QED
    BY <1>4, <1>8, <2>1, Forgets
<1>10. list \in Seq(RowsToAdd) /\ GoodInserts(copy, s, FALSE, list)
  <2>1. CASE ~found
    BY <1>7, <2>1 DEF GoodInserts
  <2>2. CASE found
    <3>1. "github" \in FlowKinds \union FormKinds /\ "github" \notin CodeKinds
      BY DEF FlowKinds, CodeKinds
    <3>2. /\ <<row>> \in Seq(RowsToAdd) /\ DOMAIN <<row>> = {1} /\ Len(<<row>>) = 1
          /\ <<row>>[1] = row /\ row.state = s /\ row.kind = "github"
          /\ row.project = p /\ row.allowed = (rights[p] = "rw")
      BY <1>3, <1>5, <3>1, OneRow
    <3>3. list \in Seq(RowsToAdd) /\ DOMAIN list = {1} /\ list[1] = row
      BY <1>7, <2>2, <3>2
    <3>4. AtHome(row)'
      BY <1>4, <1>5, <3>2 DEF AtHome
    <3>5. s \in FlowsIn(cookie)
      BY <1>1, <1>4, FlowsInAre
    <3>6. s \notin FlowsIn(copy) /\ copy # cookie
      <4>1. /\ copy["ghToken"] = Empty /\ copy["ghState"] = cookie["ghState"]
            /\ copy["po"] = cookie["po"]
        BY <1>8 DEF SessionKeys
      <4>2. ASSUME NEW k \in CodeKinds \union {"pd"}, copy[k] # Empty
            PROVE  copy[k].state # s
        <5>1. flow[copy[k].state] = [kind |-> k, project |-> copy[k].project]
          BY <1>9, <4>2 DEF Knows
        <5>2. k # "github"
          BY DEF CodeKinds
        <5>3. QED
          BY <1>5, <5>1, <5>2
      <4>3. copy["po"] # Empty => copy["po"] # s
        BY <1>5, <1>9 DEF Knows
      <4>4. copy["ghState"] # Empty => copy["ghState"] # s
        BY <1>1, <1>4, <4>1 DEF Knows
      <4>5. s \notin FlowsIn(copy)
        BY <4>1, <4>2, <4>3, <4>4, FlowsInAre
      <4>6. QED
        BY <1>1, <1>4, <4>1, <4>5
    <3>7. QED
      BY <3>1, <3>2, <3>3, <3>4, <3>5, <3>6 DEF GoodInserts
  <2>3. QED
    BY <2>1, <2>2
<1>11. QED
  BY <1>4, <1>5, <1>6, <1>7, <1>9, <1>10, PlainBegins

\* A session that remembers the flow that starts.
LEMMA RememberKeeps ==
    ASSUME GrantsInv, NEW t \in Tabs, NEW p \in Places, NEW kind \in CodeKinds \union {"pd"},
           NEW settings, StartFlow(t, p, kind, settings, Remember(kind, p))
    PROVE  GrantsInv'
<1>1. PICK f : f = [state |-> Len(flow) + 1, project |-> p]
  OBVIOUS
<1>2. PICK copy : copy = Remember(kind, p)
  OBVIOUS
<1>3. cookie \in Cookies /\ Len(flow) + 1 \in Nat
  BY LenProperties DEF GrantsInv, IntegrationsTyped
<1>4. f \in [state : Nat, project : Places]
  BY <1>1, <1>3
<1>5. kind \in SessionKeys /\ kind \in FlowKinds
      /\ kind \notin {"po", "ghState", "ghProject", "ghToken"}
  BY DEF SessionKeys, CodeKinds, FlowKinds
<1>6. copy = [cookie EXCEPT ![kind] = f]
  BY <1>1, <1>2 DEF Remember
<1>7. copy \in Cookies
  BY <1>3, <1>4, <1>5, <1>6 DEF Cookies
<1>8. copy[kind] = f /\ \A k \in SessionKeys \ {kind} : copy[k] = cookie[k]
  BY <1>3, <1>5, <1>6 DEF Cookies
<1>9. /\ \A k \in CodeKinds \union {"pd"} : copy[k] = cookie[k] \/ (k = kind /\ copy[k] = f)
      /\ copy["po"] = cookie["po"] /\ copy["ghState"] = cookie["ghState"]
      /\ copy["ghToken"] = cookie["ghToken"]
  BY <1>5, <1>8 DEF SessionKeys
<1>10. StartFlow(t, p, kind, settings, copy)
  BY <1>2
<1>11. QED
  BY <1>1, <1>5, <1>7, <1>9, <1>10, StartKeeps

LEMMA PushoverStarts ==
    ASSUME GrantsInv, NEW t \in Tabs, NEW p \in Places, AddPushover(t, p)
    PROVE  GrantsInv'
<1>1. PICK n : n = Len(flow) + 1
  OBVIOUS
<1>2. PICK copy : copy = [cookie EXCEPT !["po"] = n]
  OBVIOUS
<1>3. cookie \in Cookies /\ n \in Nat
  BY <1>1, LenProperties DEF GrantsInv, IntegrationsTyped
<1>4. copy \in Cookies /\ copy["po"] = n
      /\ \A k \in SessionKeys \ {"po"} : copy[k] = cookie[k]
  BY <1>2, <1>3 DEF Cookies, SessionKeys
<1>5. /\ \A k \in CodeKinds \union {"pd"} : copy[k] = cookie[k]
      /\ copy["ghState"] = cookie["ghState"] /\ copy["ghToken"] = cookie["ghToken"]
  BY <1>4 DEF CodeKinds, SessionKeys
<1>6. StartFlow(t, p, "po", {"PUSHOVER_API_TOKEN"}, copy) /\ "po" \in FlowKinds
  BY <1>1, <1>2 DEF AddPushover, FlowKinds
<1>7. QED
  BY <1>1, <1>4, <1>5, <1>6, StartKeeps

LEMMA GitHubStarts ==
    ASSUME GrantsInv, NEW t \in Tabs, NEW p \in Places, AddGitHub(t, p)
    PROVE  GrantsInv'
<1>1. PICK n : n = Len(flow) + 1
  OBVIOUS
<1>2. PICK copy : copy = [cookie EXCEPT !["ghState"] = n, !["ghProject"] = p]
  OBVIOUS
<1>3. cookie \in Cookies /\ n \in Nat
  BY <1>1, LenProperties DEF GrantsInv, IntegrationsTyped
<1>4. copy \in Cookies /\ copy["ghState"] = n
      /\ \A k \in SessionKeys \ {"ghState", "ghProject"} : copy[k] = cookie[k]
  BY <1>2, <1>3 DEF Cookies, SessionKeys
<1>5. /\ \A k \in CodeKinds \union {"pd"} : copy[k] = cookie[k]
      /\ copy["po"] = cookie["po"] /\ copy["ghToken"] = cookie["ghToken"]
  BY <1>4 DEF CodeKinds, SessionKeys
<1>6. StartFlow(t, p, "github", {"GITHUB_CLIENT_ID"}, copy) /\ "github" \in FlowKinds
  BY <1>1, <1>2 DEF AddGitHub, FlowKinds
<1>7. QED
  BY <1>1, <1>4, <1>5, <1>6, StartKeeps

LEMMA PageKeeps ==
    ASSUME GrantsInv, NEW t \in Tabs, NEW p \in Places, VisitPage(t, p)
    PROVE  GrantsInv'
<1>1. CASE AddByForm(t, p)
  <2>1. PICK kind \in FormKinds : \E settings : FormView(t, p, kind, settings)
    BY <1>1 DEF AddByForm, AddApprise, AddCall, AddGoogleChat, AddMatrix, AddMattermost,
                AddMsTeams, AddOpsgenie, AddPagerTree, AddRocketChat, AddShell,
                AddSlackUrl, AddSpike, AddTrello, AddVictorOps, AddZulip, AddTelegram,
                FormKinds
  <2>2. QED
    BY <2>1, FormKeeps
<1>2. CASE AddSlack(t, p)
  BY <1>2, RememberKeeps DEF AddSlack, CodeKinds
<1>3. CASE AddDiscord(t, p)
  BY <1>3, RememberKeeps DEF AddDiscord, CodeKinds
<1>4. CASE AddPushbullet(t, p)
  BY <1>4, RememberKeeps DEF AddPushbullet, CodeKinds
<1>5. CASE AddPd(t, p)
  <2>1. CASE "PD_APP_ID" \in SettingsOn
    BY <1>5, <2>1, RememberKeeps DEF AddPd
  <2>2. CASE "PD_APP_ID" \notin SettingsOn
    BY <1>5, <2>2, FormKeeps DEF AddPd, FormKinds
  <2>3. QED
    BY <2>1, <2>2
<1>6. CASE AddPushover(t, p)
  BY <1>6, PushoverStarts
<1>7. CASE AddGitHub(t, p)
  BY <1>7, GitHubStarts
<1>8. CASE GitHubSave(t, p)
  BY <1>8, GitHubSaveKeeps
<1>9. QED
  BY <1>1, <1>2, <1>3, <1>4, <1>5, <1>6, <1>7, <1>8 DEF VisitPage

LEMMA CallbackKeeps ==
    ASSUME GrantsInv, NEW t \in Tabs, NEW u \in Callbacks, VisitCallback(t, u)
    PROVE  GrantsInv'
<1>1. CASE SlackComplete(t, u)
  BY <1>1, CompleteKeeps DEF SlackComplete, CodeKinds
<1>2. CASE DiscordComplete(t, u)
  BY <1>2, CompleteKeeps DEF DiscordComplete, CodeKinds
<1>3. CASE PushbulletComplete(t, u)
  BY <1>3, CompleteKeeps DEF PushbulletComplete, CodeKinds
<1>4. CASE PdComplete(t, u)
  BY <1>4, PdKeeps
<1>5. CASE PushoverSuccess(t, u) \/ PushoverUnsubscribed(t, u)
  BY <1>5, PushoverKeeps
<1>6. CASE GitHubSelect(t, u)
  BY <1>6, GitHubSelectKeeps
<1>7. QED
  BY <1>1, <1>2, <1>3, <1>4, <1>5, <1>6 DEF VisitCallback

\* A change of rights, and a step that changes nothing here.
LEMMA OthersKeepGrants ==
    ASSUME GrantsInv, UNCHANGED <<cookie, tab, flow, spent, added, repeated>>
    PROVE  GrantsInv'
<1>1. IntegrationsTyped' /\ Knows(cookie)'
  BY DEF GrantsInv, IntegrationsTyped, Knows
<1>2. RequestsGood'
  <2>1. \A t \in Tabs : tab[t] # Empty => RequestGood(tab[t])
    BY DEF GrantsInv, RequestsGood
  <2>2. ASSUME NEW t \in Tabs, tab[t] # Empty PROVE RequestGood(tab[t])'
    BY <2>1, <2>2 DEF RequestGood, Knows, AtHome, FlowsIn
  <2>3. QED
    BY <2>2 DEF RequestsGood
<1>3. PoppedOnce' /\ Forgotten'
  BY DEF GrantsInv, PoppedOnce, Forgotten, FlowsIn
<1>4. CodesSpent'
  BY DEF GrantsInv, CodesSpent, HasGrant
<1>5. AddedHome' /\ AddedOnce'
  BY DEF GrantsInv, AddedHome, AtHome, AddedOnce
<1>6. QED
  BY <1>1, <1>2, <1>3, <1>4, <1>5 DEF GrantsInv

LEMMA GrantsStep ==
    ASSUME GrantsInv, [IntegrationsNext]_integrationVars
    PROVE  GrantsInv'
<1>1. ASSUME NEW t \in Tabs, NEW p \in Places, VisitPage(t, p) PROVE GrantsInv'
  BY <1>1, PageKeeps
<1>2. ASSUME NEW t \in Tabs, NEW u \in Callbacks, VisitCallback(t, u) PROVE GrantsInv'
  BY <1>2, CallbackKeeps
<1>3. ASSUME NEW t \in Tabs, NEW ok \in BOOLEAN, Exchange(t, ok) PROVE GrantsInv'
  BY <1>3, ExchangeKeeps
<1>4. ASSUME NEW t \in Tabs, Insert(t) \/ Respond(t) \/ Raise(t) PROVE GrantsInv'
  BY <1>4, InsertKeeps, RespondKeeps, RaiseKeeps
<1>5. ASSUME NEW p \in Places, NEW r \in Rights, SetRights(p, r) PROVE GrantsInv'
  BY <1>5, OthersKeepGrants DEF SetRights
<1>6. CASE UNCHANGED integrationVars
  BY <1>6, OthersKeepGrants DEF integrationVars
<1>7. QED
  BY <1>1, <1>2, <1>3, <1>4, <1>5, <1>6 DEF IntegrationsNext

\* Whatever other tabs start, finish or save, what a service grants is added to
\* the project its flow was started for, by a user who could edit it when the
\* browser came back (add_complete, pushover add, add_pd_complete); and it is
\* added once: by its code, which the service exchanges once, or because the
\* session has forgotten the flow, unless two requests about it were under way
\* at once, one of them raised, or a save of an old session brought it back.
THEOREM GrantsGoHome == IntegrationsSpec => []GrantsGoHomeOnce
<1>1. IntegrationsInit => GrantsInv
  BY GrantsStart
<1>2. GrantsInv /\ [IntegrationsNext]_integrationVars => GrantsInv'
  BY GrantsStep
<1>3. GrantsInv => GrantsGoHomeOnce
  BY DEF GrantsInv, AddedHome, AtHome, AddedOnce, GrantsGoHomeOnce
<1>4. QED
  BY <1>1, <1>2, <1>3, PTL DEF IntegrationsSpec

(***************************************************************************)
(* The log: what is known of the requests and threads that prune it.       *)
(***************************************************************************)

Numbers == 1 .. nPings

BodiesTyped ==
    /\ nPings \in Nat
    /\ log \subseteq Numbers
    /\ uploaded \subseteq Numbers
    /\ objects \subseteq Numbers
    /\ forgotten \in 0 .. nPings
    /\ removedTo \in Nat
    /\ handler \in [Handlers -> [step : {"end", "put", "prune", "rows", "earliest",
                                         "flips"}, n : 0 .. nPings]]
    /\ removal \in [Handlers -> [step : {"end", "delete"}, upto : Nat,
                                 keys : SUBSET Numbers]]
    /\ \A h \in Handlers : handler[h].step = "put" => handler[h].n \in Numbers

\* A thread removes what is beyond the limit, however old the count it was
\* started with, and knows of every object of these that was there.
RemovalsKnown ==
    \A h \in Handlers : removal[h].step = "delete" =>
        /\ removal[h].upto <= Threshold(nPings)
        /\ \A n \in removal[h].keys : n <= removal[h].upto
        /\ \A n \in objects : n <= removal[h].upto => n \in removal[h].keys \union late

BodiesKept ==
    /\ \A n \in log \intersect uploaded : n > Threshold(nPings) => n \in objects
    /\ log \subseteq notified
    /\ forgotten + 1 .. nPings \subseteq flipped
    /\ \A n \in objects : n <= removedTo => n \in late

BodiesInv == BodiesTyped /\ RemovalsKnown /\ BodiesKept

LEMMA LeastIs ==
    ASSUME NEW S \in SUBSET Nat, S # {}
    PROVE  Min(S) \in S /\ \A y \in S : Min(S) <= y
<1>1. PICK x \in S : \A y \in S : <<y, x>> \notin OpToRel(<, Nat)
  BY WFMin, NatLessThanWellFounded
<1>2. \A y \in S : ~(y < x)
  BY <1>1 DEF OpToRel
<1>3. \A y \in S : x <= y
  BY <1>2
<1>4. QED
  BY <1>3 DEF Min

LEMMA BodiesStart == PingBodiesInit => BodiesInv
BY PingBodiesAssumption DEF PingBodiesInit, BodiesInv, BodiesTyped, RemovalsKnown,
   BodiesKept, AtEnd, NoRemoval, Numbers

LEMMA InsertPingKeeps ==
    ASSUME BodiesInv, NEW h \in Handlers, InsertPing(h)
    PROVE  BodiesInv'
<1> USE PingBodiesAssumption DEF BodiesInv, Threshold, Numbers, storage
<1>1. BodiesTyped'
  BY DEF BodiesTyped, InsertPing, Goes
<1>2. RemovalsKnown'
  BY DEF BodiesTyped, RemovalsKnown, InsertPing
<1>3. BodiesKept'
  <2>1. nPings' \notin uploaded
    BY DEF BodiesTyped, InsertPing
  <2>2. QED
    BY <2>1 DEF BodiesTyped, BodiesKept, InsertPing
<1>4. QED
  BY <1>1, <1>2, <1>3

LEMMA PutObjectKeeps ==
    ASSUME BodiesInv, NEW h \in Handlers, NEW saved \in BOOLEAN, NEW raises \in BOOLEAN,
           PutObject(h, saved, raises)
    PROVE  BodiesInv'
<1> USE PingBodiesAssumption DEF BodiesInv, Threshold, Numbers
<1>1. /\ objects' \subseteq objects \union {handler[h].n} /\ late \subseteq late'
      /\ handler[h].n \in 1 .. nPings
      /\ handler[h].n \in objects' => handler[h].n \in late' \/ handler[h].n \in objects
           \/ (handler[h].n > removedTo
                 /\ \A g \in Handlers : removal[g].step = "delete" =>
                       handler[h].n > removal[g].upto)
  BY DEF BodiesTyped, PutObject
<1>2. BodiesTyped'
  <2>1. handler' \in [Handlers -> [step : {"end", "put", "prune", "rows", "earliest",
                                         "flips"}, n : 0 .. nPings]]
    BY DEF BodiesTyped, PutObject, AfterPut, AtEnd
  <2>2. \A g \in Handlers : handler'[g].step = "put" => handler'[g] = handler[g]
    BY DEF BodiesTyped, PutObject, AfterPut, AtEnd
  <2>3. QED
    BY <1>1, <2>1, <2>2 DEF BodiesTyped, PutObject
<1>3. RemovalsKnown'
  BY <1>1 DEF BodiesTyped, RemovalsKnown, PutObject
<1>4. BodiesKept'
  BY <1>1 DEF BodiesTyped, BodiesKept, PutObject
<1>5. QED
  BY <1>2, <1>3, <1>4

LEMMA RemoveObjectsKeeps ==
    ASSUME BodiesInv, NEW h \in Handlers, RemoveObjects(h)
    PROVE  BodiesInv'
<1> USE PingBodiesAssumption DEF BodiesInv, Threshold, Numbers
<1>1. handler[h].n \in 0 .. nPings
  BY DEF BodiesTyped
<1>2. BodiesTyped'
  <2>1. handler' = [handler EXCEPT ![h] = [step |-> "rows", n |-> handler[h].n]]
    BY DEF RemoveObjects, Goes
  <2>2. Listed(Threshold(handler[h].n)) \in SUBSET Numbers
    BY DEF BodiesTyped, Listed
  <2>3. removal' \in [Handlers -> [step : {"end", "delete"}, upto : Nat,
                                   keys : SUBSET Numbers]]
    <3> HIDE DEF Numbers, Listed
    <3>1. QED
      BY <1>1, <2>2 DEF BodiesTyped, RemoveObjects
  <2>4. QED
    BY <1>1, <2>1, <2>3 DEF BodiesTyped, RemoveObjects
<1>3. RemovalsKnown'
  BY <1>1 DEF BodiesTyped, RemovalsKnown, RemoveObjects, Listed
<1>4. BodiesKept'
  BY DEF BodiesKept, RemoveObjects
<1>5. QED
  BY <1>2, <1>3, <1>4

LEMMA DeleteObjectsKeeps ==
    ASSUME BodiesInv, NEW h \in Handlers, NEW ns \in SUBSET removal[h].keys,
           DeleteObjects(h, ns)
    PROVE  BodiesInv'
<1> USE PingBodiesAssumption DEF BodiesInv, Threshold, Numbers
<1>1. removal[h].upto \in Nat /\ removedTo \in Nat /\ objects \subseteq Nat
  BY DEF BodiesTyped
<1>2. BodiesTyped'
  BY <1>1 DEF BodiesTyped, DeleteObjects, NoRemoval
<1>3. RemovalsKnown'
  BY DEF BodiesTyped, RemovalsKnown, DeleteObjects, NoRemoval
<1>4. BodiesKept'
  <2>1. ASSUME NEW n \in log \intersect uploaded, n > nPings - LogLimit
        PROVE  n \in objects'
    BY <2>1 DEF BodiesTyped, RemovalsKnown, BodiesKept, DeleteObjects
  <2>2. ASSUME NEW n \in objects', n <= removedTo'
        PROVE  n \in late
    BY <1>1, <2>2 DEF RemovalsKnown, BodiesKept, DeleteObjects
  <2>3. QED
    BY <2>1, <2>2 DEF BodiesKept, DeleteObjects
<1>5. QED
  BY <1>2, <1>3, <1>4

\* Steps that leave the storage alone.
LEMMA RowsPruned ==
    ASSUME BodiesInv, UNCHANGED <<nPings, objects, removal, uploaded, removedTo, late>>,
           log' \subseteq log, log' \subseteq notified',
           forgotten' \in 0 .. nPings, forgotten' + 1 .. nPings \subseteq flipped',
           \/ handler' = handler
           \/ \E h \in Handlers :
                 \E r \in [step : {"end", "prune", "rows", "earliest", "flips"},
                          n : 0 .. nPings] : handler' = [handler EXCEPT ![h] = r]
    PROVE  BodiesInv'
<1>1. /\ handler' \in [Handlers -> [step : {"end", "put", "prune", "rows", "earliest",
                                          "flips"}, n : 0 .. nPings]]
      /\ \A h \in Handlers : handler'[h].step = "put" => handler'[h] = handler[h]
  BY DEF BodiesInv, BodiesTyped
<1>2. BodiesTyped'
  BY <1>1 DEF BodiesInv, BodiesTyped, Numbers
<1>3. RemovalsKnown' /\ BodiesKept'
  BY DEF BodiesInv, RemovalsKnown, BodiesKept, Threshold
<1>4. QED
  BY <1>2, <1>3 DEF BodiesInv

\* The other steps of a request delete rows.
LEMMA PruneRowsKeeps ==
    ASSUME BodiesInv, NEW h \in Handlers,
           SlowPrune(h) \/ DeleteRows(h) \/ DeleteNotes(h) \/ DeleteFlips(h) \/ EndHandler(h)
    PROVE  BodiesInv'
<1>1. /\ nPings \in Nat /\ handler[h].n \in 0 .. nPings /\ forgotten \in 0 .. nPings
      /\ log \subseteq 1 .. nPings /\ log \subseteq notified
      /\ forgotten + 1 .. nPings \subseteq flipped
  BY DEF BodiesInv, BodiesTyped, BodiesKept, Numbers
<1>2. \A step \in {"end", "prune", "rows", "earliest", "flips"} : \A n \in 0 .. nPings :
         Goes(h, step, n) =>
            \E g \in Handlers :
               \E r \in [step : {"end", "prune", "rows", "earliest", "flips"},
                        n : 0 .. nPings] : handler' = [handler EXCEPT ![g] = r]
  BY DEF Goes
<1>3. CASE SlowPrune(h)
  BY <1>1, <1>2, <1>3, RowsPruned DEF SlowPrune, storage
<1>4. CASE DeleteRows(h)
  BY <1>1, <1>2, <1>4, RowsPruned DEF DeleteRows, storage
<1>5. CASE EndHandler(h)
  BY <1>1, <1>2, <1>5, RowsPruned DEF EndHandler, storage
<1>6. CASE DeleteNotes(h)
  <2>1. log # {} => Min(log) \in log /\ \A n \in log : n >= Min(log)
    BY <1>1, LeastIs
  <2>2. log \subseteq notified'
    BY <1>1, <1>6, <2>1 DEF DeleteNotes
  <2>3. Goes(h, "end", 0) \/ (Min(log) \in 0 .. nPings /\ Goes(h, "flips", Min(log)))
    <3>1. CASE log = {}
      BY <1>6, <3>1 DEF DeleteNotes
    <3>2. CASE log # {}
      <4>1. Min(log) \in 1 .. nPings
        BY <1>1, <2>1, <3>2
      <4>2. \A m \in 1 .. nPings : m \in 0 .. nPings
        BY <1>1
      <4>3. Goes(h, "flips", Min(log))
        BY <1>6, <3>2 DEF DeleteNotes
      <4>4. QED
        BY <4>1, <4>2, <4>3
    <3>3. QED
      BY <3>1, <3>2
  <2>4. QED
    BY <1>1, <1>2, <1>6, <2>2, <2>3, RowsPruned DEF DeleteNotes, storage
<1>7. CASE DeleteFlips(h)
  <2>1. PICK aged \in forgotten .. nPings :
           /\ flipped' = {n \in flipped : n >= Min({handler[h].n, aged + 1})}
           /\ forgotten' = aged
    BY <1>7 DEF DeleteFlips
  <2>2. aged \in Nat /\ aged + 1 \in Nat /\ handler[h].n \in Nat /\ forgotten \in Nat
    BY <1>1, <2>1
  <2>3. /\ Min({handler[h].n, aged + 1}) \in Nat
        /\ aged + 1 >= Min({handler[h].n, aged + 1})
    BY <2>2, LeastIs
  <2>4. forgotten' + 1 .. nPings \subseteq flipped' /\ forgotten' \in 0 .. nPings
    BY <1>1, <2>1, <2>2, <2>3
  <2>5. Goes(h, "end", 0) /\ UNCHANGED <<nPings, log, notified, storage>>
    BY <1>7 DEF DeleteFlips
  <2>6. \E g \in Handlers :
           \E r \in [step : {"end", "prune", "rows", "earliest", "flips"},
                    n : 0 .. nPings] : handler' = [handler EXCEPT ![g] = r]
    BY <1>1, <1>2, <2>5
  <2>7. QED
    BY <1>1, <2>4, <2>5, <2>6, RowsPruned DEF storage
<1>8. QED
  BY <1>3, <1>4, <1>5, <1>6, <1>7

LEMMA BodiesStep == BodiesInv /\ [PingBodiesNext]_pingBodyVars => BodiesInv'
<1> SUFFICES ASSUME BodiesInv, [PingBodiesNext]_pingBodyVars PROVE BodiesInv'
  OBVIOUS
<1>1. ASSUME NEW h \in Handlers,
             \/ InsertPing(h) \/ RemoveObjects(h)
             \/ \E saved, raises \in BOOLEAN : PutObject(h, saved, raises)
             \/ \E ns \in SUBSET removal[h].keys : DeleteObjects(h, ns)
             \/ SlowPrune(h) \/ DeleteRows(h) \/ DeleteNotes(h) \/ DeleteFlips(h)
             \/ EndHandler(h)
      PROVE  BodiesInv'
  BY <1>1, InsertPingKeeps, RemoveObjectsKeeps, PutObjectKeeps, DeleteObjectsKeeps,
     PruneRowsKeeps
<1>2. CASE CreateRow \/ ClearEvents \/ LookForChecks
  <2>1. /\ nPings \in Nat /\ forgotten \in 0 .. nPings /\ log \subseteq notified
        /\ forgotten + 1 .. nPings \subseteq flipped
    BY DEF BodiesInv, BodiesTyped, BodiesKept
  <2>2. CASE CreateRow
    BY <2>1, <2>2, RowsPruned DEF CreateRow, storage
  <2>3. CASE LookForChecks
    BY <2>1, <2>3, RowsPruned DEF LookForChecks
  <2>4. CASE ClearEvents
    BY <2>1, <2>4, RowsPruned DEF ClearEvents, storage
  <2>5. QED
    BY <1>2, <2>2, <2>3, <2>4
<1>3. CASE SweepObjects
  BY <1>3 DEF BodiesInv, BodiesTyped, RemovalsKnown, BodiesKept, SweepObjects, Numbers,
     Threshold
<1>4. CASE UNCHANGED pingBodyVars
  BY <1>4 DEF BodiesInv, BodiesTyped, RemovalsKnown, BodiesKept, pingBodyVars, Numbers,
     Threshold
<1>5. QED
  BY <1>1, <1>2, <1>3, <1>4 DEF PingBodiesNext

\* A ping that is new enough has its body and its notifications, and three months
\* of flips stay, whichever requests prune and clear from old counts; what a
\* removal leaves was uploaded after it had listed the keys (prune, remove_objects).
THEOREM PruningKeepsNew == PingBodiesSpec => []OnlyPrunedGoes
<1>1. BodiesInv => OnlyPrunedGoes
  <2>1. SUFFICES ASSUME BodiesInv PROVE OnlyPrunedGoes
    OBVIOUS
  <2>2. ASSUME NEW n \in log \intersect uploaded, n > Threshold(nPings)
        PROVE  FrontBody(n) = "body" /\ ApiBody(n) = "body"
    <3>1. n \in objects /\ n \in log /\ n \in Nat /\ Threshold(nPings) \in Int
      BY <2>1, <2>2, PingBodiesAssumption
         DEF BodiesInv, BodiesKept, BodiesTyped, Numbers, Threshold
    <3>2. FrontBody(n) = "body"
      BY <3>1 DEF FrontBody, GetBody
    <3>3. ~(n <= Threshold(nPings))
      BY <2>2, <3>1
    <3>4. QED
      BY <3>2, <3>3 DEF ApiBody
  <2>3. QED
    BY <2>1, <2>2 DEF OnlyPrunedGoes, BodiesInv, BodiesKept, BodiesTyped
<1>2. QED
  BY <1>1, BodiesStart, BodiesStep, PTL DEF PingBodiesSpec
=============================================================================
