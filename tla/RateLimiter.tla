----------------------------- MODULE RateLimiter ----------------------------
(***************************************************************************)
(* The two rate limiters every request to the API server passes            *)
(* (src/api/server.ts): one keyed by the device fingerprint, one by the    *)
(* network address, each a FingerprintRateLimiter (src/api/security.ts), a *)
(* Map of token buckets that is pruned to a bounded size.                  *)
(*                                                                         *)
(* A request is decided in one synchronous step, so the interleavings that *)
(* matter are those of clients, of the clock and of the pruning.  The      *)
(* clock is Date.now(): it may be set back, put right, and set forward.    *)
(***************************************************************************)
EXTENDS Integers, FiniteSets, FiniteSetsExt

CONSTANTS
  Devices,      \* device fingerprints: a discarded cookie makes a new one
  Networks,     \* network addresses
  NetworkOf,    \* NetworkOf[d]: a fingerprint covers the address it comes from
  Costs,        \* 1, EXPENSIVE_REQUEST_COST and LOGIN_ATTEMPT_COST
  Capacity,     \* Capacity[l]: the tokens of a full bucket of limiter l
  Refill,       \* Refill[l]: the tokens a bucket of l earns in a tick
  SecondTicks,  \* the ticks in a second: Retry-After is in whole seconds
  MaxTracked,   \* maxTrackedFingerprints
  MaxRequests,  \* bound: the requests of a behaviour
  MaxTime,      \* bound: the last tick of a behaviour
  MaxBack,      \* bound: how far the clock is set back in a behaviour
  MaxAhead      \* bound: how far it is set forward in a behaviour

Limiters == {"device", "network"}
Keys == Devices \cup Networks

ASSUME LimiterAssumption ==
  /\ Devices \cap Networks = {} /\ "none" \notin Keys
  /\ NetworkOf \in [Devices -> Networks]
  /\ Costs \subseteq Nat
  /\ Capacity \in [Limiters -> Nat]
  /\ Refill \in [Limiters -> Nat \ {0}]
  /\ SecondTicks \in Nat \ {0} /\ MaxTracked \in Nat
  /\ MaxRequests \in Nat /\ MaxTime \in Nat
  /\ MaxBack \in Nat /\ MaxAhead \in Nat

VARIABLES
  now,        \* true time
  back,       \* how far the clock was set back so far, all in all
  ahead,      \* how far it was set forward so far, to put it right or not
  asked,      \* how many requests came so far
  bucket,     \* bucket[l][k]: the entry of key k in the Map of limiter l
  granted,    \* history: granted[l][k], the cost l let pass for k in this window
  elapsed,    \* history: the ticks of this window
  jumped,     \* history: how far the clock was set forward in this window
  evictions,  \* history: evictions[l][k], how often l forgot k in this window
  promise     \* history: promise[l][k], what the last denial of k at l announced

history == <<granted, elapsed, jumped, evictions, promise>>
vars == <<now, back, ahead, asked, bucket, history>>

\* The place in insertion order is 0 for a key that is not in the Map.
Bucket == [tokens : Nat, updatedAt : Int, place : Nat]
Absent == [tokens |-> 0, updatedAt |-> 0, place |-> 0]
Promise == [cost : Nat, at : Int]
NoPromise == [cost |-> 0, at |-> 0]

TypeOK ==
  /\ now \in 0..MaxTime /\ asked \in 0..MaxRequests
  /\ back \in 0..MaxBack /\ ahead \in 0..MaxAhead
  /\ bucket \in [Limiters -> [Keys -> Bucket]]
  /\ \A l \in Limiters, k \in Keys : bucket[l][k].tokens <= Capacity[l]
  /\ granted \in [Limiters -> [Keys -> Nat]]
  /\ elapsed \in Nat /\ jumped \in Nat
  /\ evictions \in [Limiters -> [Keys -> Nat]]
  /\ promise \in [Limiters -> [Keys -> Promise]]

ForEveryKey(value) == [l \in Limiters |-> [k \in Keys |-> value]]

Init ==
  /\ now = 0 /\ back = 0 /\ ahead = 0 /\ asked = 0
  /\ bucket = ForEveryKey(Absent)
  /\ granted = ForEveryKey(0) /\ evictions = ForEveryKey(0)
  /\ elapsed = 0 /\ jumped = 0
  /\ promise = ForEveryKey(NoPromise)

Clock == now - back + ahead

-----------------------------------------------------------------------------
(* One limiter.                                                            *)

Tracked(l) == {k \in Keys : bucket[l][k].place # 0}

\* The stable sort of the entries by the time of their last update.
Before(l, j, k) ==
  \/ bucket[l][j].updatedAt < bucket[l][k].updatedAt
  \/ /\ bucket[l][j].updatedAt = bucket[l][k].updatedAt
     /\ bucket[l][j].place < bucket[l][k].place

\* Mutant: the pruning starts one entry too late.
EvictedLate(l) ==
  LET excess == Cardinality(Tracked(l)) - MaxTracked - 1
  IN  {k \in Tracked(l) :
         Cardinality({j \in Tracked(l) : Before(l, j, k)}) < excess}

\* prune: the first entries of that order go, until MaxTracked are left.
Evicted(l) ==
  LET excess == Cardinality(Tracked(l)) - MaxTracked
  IN  {k \in Tracked(l) :
         Cardinality({j \in Tracked(l) : Before(l, j, k)}) < excess}

NextPlace(l) == 1 + Max({0} \cup {bucket[l][k].place : k \in Tracked(l)})

\* The entry of k once pruning is done: a key that is not there starts full.
Found(l, k) ==
  IF k \in Tracked(l) \ Evicted(l) THEN bucket[l][k]
  ELSE [tokens |-> Capacity[l], updatedAt |-> Clock, place |-> NextPlace(l)]

\* Mutant: a bucket that was idle holds more than its capacity.
RefilledUncapped(l, k) ==
  Found(l, k).tokens + Refill[l] * Max({0, Clock - Found(l, k).updatedAt})

Refilled(l, k) ==
  Min({Capacity[l],
       Found(l, k).tokens + Refill[l] * Max({0, Clock - Found(l, k).updatedAt})})

Allowed(l, k, cost) == Refilled(l, k) >= cost

\* Mutant: the time of the refill is not kept.
LeftNotDated(l, k, cost) ==
  [Found(l, k) EXCEPT !.tokens = Refilled(l, k) - (IF Allowed(l, k, cost) THEN cost ELSE 0)]

\* What consume leaves behind for k: a denial dates the bucket all the same.
Left(l, k, cost) ==
  [tokens |-> Refilled(l, k) - (IF Allowed(l, k, cost) THEN cost ELSE 0),
   updatedAt |-> Clock,
   place |-> Found(l, k).place]

Consumed(l, k, cost) ==
  [j \in Keys |-> IF j = k THEN Left(l, k, cost)
                  ELSE IF j \in Evicted(l) THEN Absent ELSE bucket[l][j]]

\* Mutant: rounded down, but never to nothing.
RetryAfterFloored(l, k, cost) == Max({1, (cost - Refilled(l, k)) \div (Refill[l] * SecondTicks)})

\* retryAfterSeconds: the deficit over the refill of a second, rounded up.
RetryAfter(l, k, cost) ==
  LET perSecond == Refill[l] * SecondTicks
  IN  Max({1, (cost - Refilled(l, k) + perSecond - 1) \div perSecond})

-----------------------------------------------------------------------------
(* The server.                                                             *)

\* The key of a request of fingerprint d in each limiter.
KeyAt(l, d) == IF l = "device" THEN d ELSE NetworkOf[d]

Announced(l, k, cost) ==
  IF Allowed(l, k, cost) THEN NoPromise
  ELSE [cost |-> cost, at |-> Clock + SecondTicks * RetryAfter(l, k, cost)]

\* Every request consumes from both limiters, whatever the first one says; it
\* goes on only if both allow it.
Arrive(d, cost) ==
  /\ asked < MaxRequests
  /\ asked' = asked + 1
  /\ bucket' = [l \in Limiters |-> Consumed(l, KeyAt(l, d), cost)]
  /\ granted' = [l \in Limiters |-> [k \in Keys |->
       granted[l][k] + IF k = KeyAt(l, d) /\ Allowed(l, k, cost) THEN cost ELSE 0]]
  /\ evictions' = [l \in Limiters |-> [k \in Keys |->
       evictions[l][k] + IF k \in Evicted(l) THEN 1 ELSE 0]]
  /\ promise' = [l \in Limiters |->
       [promise[l] EXCEPT ![KeyAt(l, d)] = Announced(l, KeyAt(l, d), cost)]]
  /\ UNCHANGED <<now, back, ahead, elapsed, jumped>>

Tick ==
  /\ now < MaxTime
  /\ now' = now + 1
  /\ elapsed' = elapsed + 1
  /\ UNCHANGED <<back, ahead, asked, bucket, granted, jumped, evictions, promise>>

\* The clock is set back: no bucket is told.
SetBack ==
  /\ back < MaxBack
  /\ back' = back + 1
  /\ UNCHANGED <<now, ahead, asked, bucket, history>>

\* The clock is set forward, to put it right or past that: the next request of
\* a key finds its bucket so much older.
SetForward ==
  /\ ahead < MaxAhead
  /\ ahead' = ahead + 1
  /\ jumped' = jumped + 1
  /\ UNCHANGED <<now, back, asked, bucket, granted, elapsed, evictions, promise>>

\* The window over which the budget is counted may open at any moment.
OpenWindow ==
  /\ granted' = ForEveryKey(0) /\ evictions' = ForEveryKey(0)
  /\ elapsed' = 0 /\ jumped' = 0
  /\ UNCHANGED <<now, back, ahead, asked, bucket, promise>>

Next ==
  \/ \E d \in Devices, cost \in Costs : Arrive(d, cost)
  \/ Tick
  \/ SetBack
  \/ SetForward
  \/ OpenWindow

Spec == Init /\ [][Next]_vars

-----------------------------------------------------------------------------
(* What must hold.                                                         *)

\* In any window a key is granted at most one full bucket, what the window
\* refills, another full bucket for each time the Map forgot the key, and a
\* refill for each tick the clock was set forward: a clock that is set back and
\* put right refills the stretch in between again (consume dates the bucket by
\* whatever the clock says), but not more than once for each time it is put
\* right, and a clock that is only set back refills nothing twice.  For the
\* network limiter this bounds a client that discards its cookies.
BudgetHolds ==
  \A l \in Limiters, k \in Keys :
    granted[l][k] <= Capacity[l] * (1 + evictions[l][k]) + Refill[l] * (elapsed + jumped)

\* While the clock was never set back, waiting as long as a limiter's last
\* denial announced is enough for that limiter, for a request that costs no
\* more and is at all affordable.
RetryAfterSuffices ==
  \A l \in Limiters, k \in Keys :
    /\ back = 0
    /\ promise[l][k] # NoPromise /\ promise[l][k].cost <= Capacity[l]
    /\ Clock >= promise[l][k].at
    => Allowed(l, k, promise[l][k].cost)

\* The Maps stay bounded: pruning before the insertion leaves one over.
MapsBounded == \A l \in Limiters : Cardinality(Tracked(l)) <= MaxTracked + 1
=============================================================================
