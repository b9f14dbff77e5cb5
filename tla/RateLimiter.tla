---------------------------- MODULE RateLimiter ----------------------------
(***************************************************************************)
(* The throttle before the auth routes.  Every request passes a chain of   *)
(* limiters, each with its own key.  A limiter counts a fixed window in    *)
(* Redis, shared by all replicas; when Redis does not answer, the replica  *)
(* falls back to a token bucket of its own, kept in a map it sweeps.       *)
(***************************************************************************)
EXTENDS Integers, Sequences, FiniteSets, FiniteSetsExt

CONSTANTS
    Replicas,
    Groups,         \* the limiters: by address, by email
    Keys,           \* what they count, each key belonging to one limiter
    GroupOf,
    Limit,          \* attempts per window, of each limiter
    Window,
    SweepEvery,
    Routes,         \* the keys a request presents, in the order they are asked
    Shared,         \* the path through Redis
    NoBucket

ASSUME LimiterAssumption ==
    /\ GroupOf \in [Keys -> Groups]
    /\ Limit \in [Groups -> Nat \ {0}]
    /\ Window \in Nat \ {0} /\ SweepEvery \in Nat \ {0}
    /\ Routes \subseteq Seq(Keys)
    /\ Shared \notin Replicas
    /\ NoBucket \notin [age : Nat, credit : Nat]

VARIABLES
    count, ttl,         \* the Redis counter of each key and what is left of its TTL
    bucket,             \* l.items of each replica's fallback
    sinceSweep,         \* time since l.lastSweep, of each replica and limiter
    unswept,            \* history: the credit each key would have if nothing were swept
    stage,              \* the keys the request of each replica has yet to pass
    recent,             \* history: what each path let through in the last units of time
    unsure              \* history: attempts counted by calls to Redis that failed

limiterVars == <<count, ttl, bucket, sinceSweep, unswept, stage, recent, unsure>>

Paths == {Shared} \cup Replicas
Ages == 0 .. (Window - 1)
LimitOf(k) == Limit[GroupOf[k]]

\* The local bucket: a token is Window credits, and Limit credits accrue per unit of
\* time, which is the arithmetic of the code without its fractions.
Full(k) == LimitOf(k) * Window

LimiterInit ==
    /\ count = [k \in Keys |-> 0]
    /\ ttl = [k \in Keys |-> 0]
    /\ bucket = [r \in Replicas |-> [k \in Keys |-> NoBucket]]
    /\ sinceSweep = [r \in Replicas |-> [g \in Groups |-> SweepEvery]]
    /\ unswept = [r \in Replicas |-> [k \in Keys |-> Full(k)]]
    /\ stage = [r \in Replicas |-> <<>>]
    /\ recent = [p \in Paths |-> [k \in Keys |-> [a \in Ages |-> 0]]]
    /\ unsure = [k \in Keys |-> [a \in Ages |-> 0]]

----------------------------------------------------------------------------
(* One limiter asked for one key, as the next stage of a request. *)

Credit(k, b) ==
    IF b = NoBucket THEN Full(k)
    ELSE Min({Full(k), b.credit + b.age * LimitOf(k)})

HasToken(k, b) == Credit(k, b) >= Window

Spend(k, credit) == IF credit >= Window THEN credit - Window ELSE credit

\* (Variant: half a window is taken for idle.)
IdleHalf(b) == b # NoBucket /\ 2 * b.age >= Window

\* A bucket untouched for a window has refilled and may be dropped.
Idle(b) == b # NoBucket /\ b.age >= Window

\* sweep: the idle keys of this limiter, once every sweepEvery.
Swept(r, g) ==
    IF sinceSweep[r][g] < SweepEvery THEN {}
    ELSE {k \in Keys : GroupOf[k] = g /\ Idle(bucket[r][k])}

\* The request goes on to the next limiter, or is told to come back later.
Proceed(r, passed) == stage' = [stage EXCEPT ![r] = IF passed THEN Tail(@) ELSE <<>>]

\* recent[p][k][a] is what was let through since the last a + 1 units of time began.
Tally(p, k, n) == recent' = [recent EXCEPT ![p][k] = [a \in Ages |-> recent[p][k][a] + n]]

\* (The attempts that failed matter up to the limit, a bound of the model.)
TallyUnsure(k) ==
    unsure' = [unsure EXCEPT ![k] = [a \in Ages |-> Min({unsure[k][a] + 1, LimitOf(k)})]]

Arrive(r, route) ==
    /\ stage[r] = <<>>
    /\ stage' = [stage EXCEPT ![r] = route]
    /\ UNCHANGED <<count, ttl, bucket, sinceSweep, unswept, recent, unsure>>

\* Counts past Limit + 1 are alike.
Counted(k) == Min({IF ttl[k] > 0 THEN count[k] + 1 ELSE 1, LimitOf(k) + 1})

\* (Variant: EXPIRE instead of EXPIRE NX.)
IncrExtending(k) ==
    /\ count' = [count EXCEPT ![k] = Counted(k)]
    /\ ttl' = [ttl EXCEPT ![k] = Window]

\* INCR, EXPIRE NX and TTL in one transaction.
Incr(k) ==
    /\ count' = [count EXCEPT ![k] = Counted(k)]
    /\ ttl' = [ttl EXCEPT ![k] = IF @ > 0 THEN @ ELSE Window]

AllowShared(r) ==
    /\ stage[r] # <<>>
    /\ LET k == Head(stage[r])
           let == Counted(k) <= LimitOf(k) IN
        /\ Incr(k)
        /\ Proceed(r, let)
        /\ Tally(Shared, k, IF let THEN 1 ELSE 0)
    /\ UNCHANGED <<bucket, sinceSweep, unswept, unsure>>

\* (Variant: a Redis that fails lets everyone in.)
AllowOpen(r) ==
    /\ stage[r] # <<>>
    /\ Proceed(r, TRUE)
    /\ Tally(r, Head(stage[r]), 1)
    /\ UNCHANGED <<count, ttl, bucket, sinceSweep, unswept, unsure>>

\* The transaction fails, having counted or not: the replica's own bucket decides.
AllowLocal(r) ==
    /\ stage[r] # <<>>
    /\ LET k == Head(stage[r])
           g == GroupOf[k]
           gone == Swept(r, g)
           found == IF k \in gone THEN NoBucket ELSE bucket[r][k]
           let == IF HasToken(k, found) THEN 1 ELSE 0 IN
        /\ \/ Incr(k) /\ TallyUnsure(k)
           \/ UNCHANGED <<count, ttl, unsure>>
        /\ Tally(r, k, let)
        /\ bucket' = [bucket EXCEPT ![r] =
              [j \in Keys |->
                  IF j = k THEN [age |-> 0, credit |-> Spend(k, Credit(k, found))]
                  ELSE IF j \in gone THEN NoBucket ELSE bucket[r][j]]]
        /\ sinceSweep' = [sinceSweep EXCEPT ![r][g] = IF @ < SweepEvery THEN @ ELSE 0]
        /\ unswept' = [unswept EXCEPT ![r][k] = Spend(k, @)]
        /\ Proceed(r, let = 1)

Later(counts) == [a \in Ages |-> IF a = 0 THEN 0 ELSE counts[a - 1]]

\* Time passes.  (Nothing depends on ages past a window, or past sweepEvery.)
Tick ==
    /\ ttl' = [k \in Keys |-> Max({ttl[k] - 1, 0})]
    /\ count' = [k \in Keys |-> IF ttl[k] > 1 THEN count[k] ELSE 0]
    /\ bucket' = [r \in Replicas |-> [k \in Keys |->
          IF bucket[r][k] = NoBucket THEN NoBucket
          ELSE [bucket[r][k] EXCEPT !.age = Min({@ + 1, Window})]]]
    /\ sinceSweep' = [r \in Replicas |-> [g \in Groups |->
          Min({sinceSweep[r][g] + 1, SweepEvery})]]
    /\ unswept' = [r \in Replicas |-> [k \in Keys |->
          Min({unswept[r][k] + LimitOf(k), Full(k)})]]
    /\ recent' = [p \in Paths |-> [k \in Keys |-> Later(recent[p][k])]]
    /\ unsure' = [k \in Keys |-> Later(unsure[k])]
    /\ UNCHANGED stage

LimiterNext ==
    \/ \E r \in Replicas :
          \/ \E route \in Routes : Arrive(r, route)
          \/ AllowShared(r) \/ AllowLocal(r)
    \/ Tick

LimiterSpec == LimiterInit /\ [][LimiterNext]_limiterVars

----------------------------------------------------------------------------
(* Properties. *)

Recent(p, k) == recent[p][k][Window - 1]

\* The comment's ceiling, tightened: over any window each path, Redis or one replica's
\* bucket, lets fewer than twice the limit through, however the paths alternate.
FrontDoorBounded ==
    \A p \in Paths, k \in Keys : Recent(p, k) < 2 * LimitOf(k)

\* A caller is refused only for attempts that were let through or failed: a path refuses
\* a key only when the whole limit was taken within the last window, so refused retries
\* never keep a key locked out.
RefusedOnlyWhenUsed ==
    /\ \A k \in Keys : count[k] > LimitOf(k)
          => Recent(Shared, k) + unsure[k][Window - 1] >= LimitOf(k)
    /\ \A r \in Replicas, k \in Keys :
          ~HasToken(k, bucket[r][k]) => Recent(r, k) >= LimitOf(k)

\* "A full bucket and no bucket are the same thing to the next caller": sweeping the
\* map never changes what a caller is told.
EvictionForgetsNothing ==
    \A r \in Replicas, k \in Keys : Credit(k, bucket[r][k]) = unswept[r][k]
=============================================================================
