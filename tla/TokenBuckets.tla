---------------------------- MODULE TokenBuckets -----------------------------
(***************************************************************************)
(* TokenBucket: one row of the table, the calls of authorize that read,    *)
(* compute and save it without a lock, and prunetokenbucket.               *)
(*                                                                         *)
(* Tokens are integers: where the code has 1.0, a bucket is full with      *)
(* capacity * refill, a call costs refill, and a second adds capacity.     *)
(* Floating point is not modelled.                                         *)
(***************************************************************************)
EXTENDS Integers, Sequences, FiniteSets, FiniteSetsExt

CONSTANTS
    Calls,          \* calls of authorize at a time
    NoBucket,       \* no row
    Longest,        \* seconds a call of authorize takes at most (harakiri: 10)
    MaxPasses,      \* bound: calls that are authorized
    MaxJumps        \* bound: steps of the clock

ASSUME TokensAssumption ==
    /\ IsFiniteSet(Calls)
    /\ NoBucket \notin [id : Nat, tokens : Int, updated : Nat]
    /\ Longest \in Nat

Rate(capacity, refill) ==
    [capacity |-> capacity, refill |-> refill, force |-> FALSE]

Hour == 3600
Day == 24 * Hour

\* There are not so many calls at a time that their errors take more tokens
\* than flow into the storage's bucket in a day.
ASSUME CallsAssumption ==
    /\ Calls # {}
    /\ 20 * Cardinality(Calls) + Longest + 40 <= Day

authorize_auth_ip == Rate(20, Hour)
authorize_login_email == Rate(10, Hour)
authorize_invite == Rate(20, Day)
authorize_login_password == Rate(20, Day)
authorize_telegram == Rate(6, 60)
authorize_signal == Rate(6, 60)
authorize_signal_verification == Rate(50, Day)
authorize_pushover == Rate(6, 60)
authorize_ntfy == Rate(6, 60)
authorize_sudo_code == Rate(10, Day)
authorize_totp_attempt == Rate(96, Day)
authorize_totp_code == Rate(1, 90)
record_s3_get_object_error == [Rate(3, 60) EXCEPT !.force = TRUE]

Rates ==
    { authorize_auth_ip, authorize_login_email, authorize_invite,
      authorize_login_password, authorize_telegram, authorize_signal,
      authorize_signal_verification, authorize_pushover, authorize_ntfy,
      authorize_sudo_code, authorize_totp_attempt, authorize_totp_code,
      record_s3_get_object_error }

VARIABLES
    rate,           \* which wrapper the bucket belongs to
    clock,
    jumps,          \* steps of the clock so far
    bucket,         \* the row
    made,           \* rows created so far
    call,           \* what each call does
    passes,         \* history: the times of the authorized calls
    overwritten,    \* history: those of them a save has overwritten
    first           \* history: the tokens at the beginning

tokenVars == <<rate, clock, jumps, bucket, made, call, passes, overwritten, first>>

NoCall == [at |-> "none"]

Full == rate.capacity * rate.refill
Cost == rate.refill
TokenTime == rate.refill \div rate.capacity

TokensInit ==
    /\ rate \in Rates
    /\ clock = 0 /\ jumps = 0
    /\ first \in {0, Full}
    /\ bucket \in {[id |-> 1, tokens |-> first, updated |-> 0]}
                    \union (IF first = Full THEN {NoBucket} ELSE {})
    /\ made = 1
    /\ call = [k \in Calls |-> NoCall]
    /\ passes = <<>>
    /\ overwritten = {}

-----------------------------------------------------------------------------

\* Mutant of TopUp: a bucket overflows.
TopUpUncapped(row, t) == row.tokens + rate.capacity * (t - row.updated)

TopUp(row, t) == Min({Full, row.tokens + rate.capacity * (t - row.updated)})

s3_is_healthy ==
    IF bucket = NoBucket THEN TRUE ELSE TopUp(bucket, clock) >= Cost

\* Mutant of AskStorage: the storage is always asked.
AskAnyway(k) ==
    /\ rate.force
    /\ call[k] = NoCall
    /\ call' = [call EXCEPT ![k] = [at |-> "storage"]]
    /\ UNCHANGED <<rate, clock, jumps, bucket, made, passes, overwritten, first>>

\* Ping.get_body_bytes: an unhealthy storage is not asked.
AskStorage(k) ==
    /\ rate.force
    /\ call[k] = NoCall
    /\ s3_is_healthy
    /\ call' = [call EXCEPT ![k] = [at |-> "storage"]]
    /\ UNCHANGED <<rate, clock, jumps, bucket, made, passes, overwritten, first>>

\* The object, or NoSuchKey.
StorageAnswers(k) ==
    /\ call[k].at = "storage"
    /\ call' = [call EXCEPT ![k] = NoCall]
    /\ UNCHANGED <<rate, clock, jumps, bucket, made, passes, overwritten, first>>

\* authorize: frozen_now.  The bucket of the storage is for its errors.
Authorize(k) ==
    /\ IF rate.force THEN call[k].at = "storage" ELSE call[k] = NoCall
    /\ Len(passes) < MaxPasses
    /\ call' = [call EXCEPT ![k] = [at |-> "get", now |-> clock]]
    /\ UNCHANGED <<rate, clock, jumps, bucket, made, passes, overwritten, first>>

\* With what it has read, a call is refused or goes on to save.
Decide(k, id, tokens) ==
    call' = [call EXCEPT ![k] =
        IF tokens - Cost < 0 /\ ~rate.force THEN NoCall
        ELSE [at |-> "save", now |-> @.now, id |-> id,
              tokens |-> tokens - Cost, seen |-> Len(passes)]]

\* get_or_create; a row that was just created is not topped up.
GetOrCreate(k) ==
    /\ call[k].at = "get"
    /\ IF bucket = NoBucket
       THEN /\ made' = made + 1
            /\ bucket' = [id |-> made', tokens |-> Full, updated |-> clock]
            /\ Decide(k, made', Full)
       ELSE /\ Decide(k, bucket.id, TopUp(bucket, call[k].now))
            /\ UNCHANGED <<bucket, made>>
    /\ UNCHANGED <<rate, clock, jumps, passes, overwritten, first>>

\* save puts a row back that was pruned meanwhile, and raises when another
\* one of that value was created.
SaveBucket(k) ==
    LET c == call[k] IN
    /\ c.at = "save"
    /\ IF bucket # NoBucket /\ bucket.id # c.id
       THEN UNCHANGED <<bucket, passes, overwritten>>
       ELSE /\ bucket' = [id |-> c.id, tokens |-> c.tokens, updated |-> c.now]
            /\ passes' = Append(passes, c.now)
            /\ overwritten' = overwritten \union (c.seen + 1 .. Len(passes))
    /\ call' = [call EXCEPT ![k] = NoCall]
    /\ UNCHANGED <<rate, clock, jumps, made, first>>

\* prunetokenbucket.
PruneBuckets ==
    /\ bucket # NoBucket
    /\ bucket.updated < clock - Day
    /\ bucket' = NoBucket
    /\ UNCHANGED <<rate, clock, jumps, made, call, passes, overwritten, first>>

\* The clock is read to the second; it jumps to where something can change,
\* and not over the end of a call (harakiri).
Jumps == {1, TokenTime - 1, Day + 1}

Tick ==
    /\ jumps < MaxJumps
    /\ jumps' = jumps + 1
    /\ \E d \in Jumps :
          /\ \A k \in Calls :
                call[k].at \in {"get", "save"} => clock + d <= call[k].now + Longest
          /\ clock' = clock + d
    /\ UNCHANGED <<rate, bucket, made, call, passes, overwritten, first>>

TokensNext ==
    \/ \E k \in Calls : \/ AskStorage(k) \/ StorageAnswers(k)
                        \/ Authorize(k) \/ GetOrCreate(k) \/ SaveBucket(k)
    \/ PruneBuckets
    \/ Tick

TokensSpec == TokensInit /\ [][TokensNext]_tokenVars

-----------------------------------------------------------------------------
(* What a bucket promises.                                                 *)

\* The calls of an interval that no save has overwritten, with the tokens
\* there were at its beginning and what is added until its end.
Kept(a, b) == {i \in DOMAIN passes \ overwritten : passes[i] \in a .. b}

\* A bucket that takes a day to fill may be pruned before it would have been
\* full for a call that has read the clock earlier.
Early == rate.capacity * Max({rate.refill + Longest - Day - 1, 0}) * (made - 1)

\* Calls are authorized at no higher rate than the bucket has: in any
\* interval no more than a full bucket and what flows in, from the beginning
\* no more than what was left and what flows in.  Only a call whose save was
\* overwritten by another's, which had read the row before, is not counted;
\* neither a clock read before another call's, nor a row created by two calls
\* at once, hands out more, and a row that is pruned no more than flows in
\* while a call takes (authorize, prunetokenbucket).
RateKept ==
    ~rate.force =>
        \A j \in DOMAIN passes :
            /\ Cardinality(Kept(0, passes[j])) * Cost
                  <= first + rate.capacity * passes[j] + Early
            /\ \A i \in DOMAIN passes :
                  Cardinality(Kept(passes[i], passes[j])) * Cost
                      <= Full + rate.capacity * Max({passes[j] - passes[i], 0}) + Early

\* Errors of the storage do not stop reading for long, although an error is
\* recorded also when there is no token, and a save may move the bucket's time
\* back.  As long as no save has overwritten another, the storage is asked
\* again within 20 seconds for each request that can fail at a time.  In any
\* case it is kept from being asked only by errors: since some error each one
\* that was recorded has taken one token, and the others have flowed in
\* (s3_is_healthy, record_s3_get_object_error).
StorageAskedAgain ==
    LET tokens == TopUp(bucket, clock) IN
    rate.force /\ bucket # NoBucket =>
        /\ overwritten = {} => tokens >= Cost - Cost * Cardinality(Calls)
        /\ \/ tokens = Full
           \/ tokens >= first + rate.capacity * clock - Cost * Len(passes)
           \/ \E i \in DOMAIN passes :
                 tokens >= Full + rate.capacity * (clock - passes[i] - Longest)
                             - Cost * (Len(passes) - i + 1)
=============================================================================
