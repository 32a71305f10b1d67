-------------------------- MODULE RateLimiterProofs -------------------------
(***************************************************************************)
(* That the rate limiters keep to their budgets, their announcements and   *)
(* their bound, proved of RateLimiter for any clients, costs, capacities,  *)
(* refills and bounds, and any setting of the clock, back or forward.      *)
(***************************************************************************)
EXTENDS RateLimiter, FiniteSetTheorems, WellFoundedInduction, TLAPS

\* The entries of a Map are finitely many and numbered in the order of insertion.
Numbered ==
  \A l \in Limiters :
    /\ IsFiniteSet(Tracked(l))
    /\ \A k \in Tracked(l) : bucket[l][k].place <= asked
    /\ \A j, k \in Tracked(l) : bucket[l][j].place = bucket[l][k].place => j = k

\* What key k could spend at limiter l at once: a key that is not in the Map
\* starts full.
Ticks(l, k) == IF Clock >= bucket[l][k].updatedAt THEN Clock - bucket[l][k].updatedAt ELSE 0
Earned(l, k) == bucket[l][k].tokens + Refill[l] * Ticks(l, k)
Available(l, k) ==
  IF k \in Tracked(l) /\ Earned(l, k) <= Capacity[l] THEN Earned(l, k) ELSE Capacity[l]

\* The budget of a window pays for what was granted and for what is available.
Covered ==
  \A l \in Limiters, k \in Keys :
    granted[l][k] + Available(l, k)
      <= Capacity[l] * (1 + evictions[l][k]) + Refill[l] * (elapsed + jumped)

\* While the clock was never set back, no entry is dated ahead of it; the entry
\* a denial left behind has earned the cost by the moment the denial announced.
PromisesCovered ==
  \A l \in Limiters : \A k \in Tracked(l) :
    /\ back = 0 => bucket[l][k].updatedAt <= Clock
    /\ promise[l][k] # NoPromise =>
         bucket[l][k].tokens + Refill[l] * (promise[l][k].at - bucket[l][k].updatedAt)
           >= promise[l][k].cost

LimiterInv ==
  /\ TypeOK
  /\ Numbered
  /\ Covered
  /\ PromisesCovered
  /\ MapsBounded

-----------------------------------------------------------------------------
(* Arithmetic.                                                             *)

LEMMA MaxOfTwo ==
  ASSUME NEW x \in Int, NEW y \in Int
  PROVE  Max({x, y}) = IF x >= y THEN x ELSE y
BY DEF Max

LEMMA MinOfTwo ==
  ASSUME NEW x \in Int, NEW y \in Int
  PROVE  Min({x, y}) = IF x <= y THEN x ELSE y
BY DEF Min

\* What a longer time earns is no less.
LEMMA EarnsMore ==
  ASSUME NEW r \in Nat, NEW x \in Int, NEW y \in Int, x <= y
  PROVE  r * x <= r * y
<1>1. PICK d \in Nat : y = x + d
  <2>1. y - x \in Nat /\ y = x + (y - x)
    OBVIOUS
  <2> QED
    BY <2>1
<1>2. r * y = r * x + r * d
  BY <1>1
<1>3. r * d \in Nat /\ r * x \in Int
  OBVIOUS
<1> QED
  BY <1>2, <1>3

\* A quotient rounded up times the divisor is no less than the dividend.
LEMMA RoundedUp ==
  ASSUME NEW x \in Int, NEW y \in Nat \ {0}
  PROVE  /\ (x + y - 1) \div y \in Int
         /\ y * ((x + y - 1) \div y) >= x
<1>1. PICK q \in Int : q = (x + y - 1) \div y
  OBVIOUS
<1>2. x + y - 1 < y * q + y
  BY <1>1
<1>3. y * q \in Int
  OBVIOUS
<1> QED
  BY <1>1, <1>2, <1>3

\* A set of numbers up to a bound has a greatest one.
LEMMA GreatestOf ==
  ASSUME NEW S, S \subseteq Nat, S # {}, NEW b \in Nat, \A s \in S : s <= b
  PROVE  Max(S) \in S /\ \A s \in S : s <= Max(S)
<1> DEFINE Above == {n \in Nat : \A s \in S : s <= n}
<1>1. Above \subseteq Nat /\ Above # {}
  OBVIOUS
<1>2. PICK n \in Above : \A m \in Above : ~(m < n)
  <2> HIDE DEF Above
  <2>1. PICK n \in Above : \A m \in Above : ~(<<m, n>> \in OpToRel(<, Nat))
    BY <1>1, NatLessThanWellFounded, WFMin
  <2>2. \A m \in Above : ~(m < n)
    BY <1>1, <2>1 DEF OpToRel
  <2> QED
    BY <2>2
<1>3. n \in Nat /\ \A s \in S : s <= n
  OBVIOUS
<1>4. n \in S
  <2> SUFFICES ASSUME n \notin S PROVE FALSE
    OBVIOUS
  <2>1. PICK s \in S : TRUE
    OBVIOUS
  <2>2. n - 1 \in Nat /\ n - 1 < n
    BY <1>3, <2>1
  <2>3. \A t \in S : t <= n - 1
    BY <1>3
  <2>4. n - 1 \in Above
    BY <2>2, <2>3
  <2> HIDE DEF Above
  <2> QED
    BY <1>2, <2>2, <2>4
<1>5. \E x \in S : \A y \in S : x >= y
  BY <1>3, <1>4
<1> HIDE DEF Above
<1>6. Max(S) \in S /\ \A y \in S : Max(S) >= y
  BY <1>5 DEF Max
<1> QED
  BY <1>6

LEMMA Types ==
  /\ \A l \in Limiters : Capacity[l] \in Nat /\ Refill[l] \in Nat \ {0}
  /\ \A cost \in Costs : cost \in Nat
  /\ \A l \in Limiters, d \in Devices : KeyAt(l, d) \in Keys
  /\ SecondTicks \in Nat \ {0} /\ MaxTracked \in Nat
  /\ MaxRequests \in Nat /\ MaxTime \in Nat
  /\ MaxBack \in Nat /\ MaxAhead \in Nat
  /\ "device" \in Limiters /\ "network" \in Limiters
BY LimiterAssumption DEF Limiters, KeyAt, Keys

-----------------------------------------------------------------------------
(* The pruning.                                                            *)

Ahead(l, k) == {j \in Tracked(l) : Before(l, j, k)}
Survivors(l) == Tracked(l) \ Evicted(l)

\* Of two entries exactly one comes first, so they have different ranks.
LEMMA RanksDiffer ==
  ASSUME TypeOK, Numbered, NEW l \in Limiters,
         NEW j \in Tracked(l), NEW k \in Tracked(l), Before(l, j, k)
  PROVE  /\ Cardinality(Ahead(l, j)) \in Nat /\ Cardinality(Ahead(l, k)) \in Nat
         /\ Cardinality(Ahead(l, j)) < Cardinality(Ahead(l, k))
         /\ Cardinality(Ahead(l, k)) < Cardinality(Tracked(l))
<1>1. IsFiniteSet(Tracked(l))
  BY DEF Numbered
<1>2. \A i \in Tracked(l) : bucket[l][i].updatedAt \in Int /\ bucket[l][i].place \in Nat
  BY DEF TypeOK, Bucket, Tracked
<1>3. Ahead(l, j) \subseteq Ahead(l, k)
  BY <1>2 DEF Ahead, Before
<1>4. j \in Ahead(l, k) /\ j \notin Ahead(l, j) /\ k \notin Ahead(l, k)
  BY <1>2 DEF Ahead, Before
<1>5. Ahead(l, k) \in SUBSET Tracked(l)
  BY DEF Ahead
<1>6. /\ IsFiniteSet(Ahead(l, k)) /\ Cardinality(Ahead(l, k)) <= Cardinality(Tracked(l))
      /\ Cardinality(Ahead(l, k)) # Cardinality(Tracked(l))
  BY <1>1, <1>4, <1>5, FS_Subset
<1>7. /\ IsFiniteSet(Ahead(l, j)) /\ Cardinality(Ahead(l, j)) <= Cardinality(Ahead(l, k))
      /\ Cardinality(Ahead(l, j)) # Cardinality(Ahead(l, k))
  BY <1>3, <1>4, <1>6, FS_Subset
<1>8. /\ Cardinality(Tracked(l)) \in Nat /\ Cardinality(Ahead(l, j)) \in Nat
      /\ Cardinality(Ahead(l, k)) \in Nat
  BY <1>1, <1>6, <1>7, FS_CardinalityType
<1> QED
  BY <1>6, <1>7, <1>8

\* Pruning leaves no more than MaxTracked entries.
LEMMA SurvivorsAreFew ==
  ASSUME TypeOK, Numbered, NEW l \in Limiters
  PROVE  IsFiniteSet(Survivors(l)) /\ Cardinality(Survivors(l)) <= MaxTracked
<1> DEFINE t == Cardinality(Tracked(l))
           rank == [k \in Survivors(l) |-> Cardinality(Ahead(l, k))]
<1>1. IsFiniteSet(Tracked(l)) /\ t \in Nat /\ MaxTracked \in Nat
  BY FS_CardinalityType, Types DEF Numbered
<1>2. Survivors(l) \in SUBSET Tracked(l)
  BY DEF Survivors
<1>3. IsFiniteSet(Survivors(l)) /\ Cardinality(Survivors(l)) <= t
  BY <1>1, <1>2, FS_Subset
<1>4. ASSUME NEW k \in Survivors(l)
      PROVE  Cardinality(Ahead(l, k)) \in (t - MaxTracked)..(t - 1)
  <2>1. k \in Tracked(l) /\ k \notin Evicted(l)
    BY DEF Survivors
  <2>2. ~(Cardinality(Ahead(l, k)) < t - MaxTracked)
    BY <2>1 DEF Evicted, Ahead
  <2>3. k \notin Ahead(l, k)
    <3>1. bucket[l][k].updatedAt \in Int /\ bucket[l][k].place \in Nat
      BY <2>1 DEF TypeOK, Bucket, Tracked
    <3> QED
      BY <3>1 DEF Ahead, Before
  <2>4. Ahead(l, k) \in SUBSET Tracked(l)
    BY DEF Ahead
  <2>5. /\ IsFiniteSet(Ahead(l, k)) /\ Cardinality(Ahead(l, k)) <= t
        /\ Cardinality(Ahead(l, k)) # t
    BY <1>1, <2>1, <2>3, <2>4, FS_Subset
  <2>6. Cardinality(Ahead(l, k)) \in Nat
    BY <2>5, FS_CardinalityType
  <2> QED
    BY <1>1, <2>2, <2>5, <2>6
<1>5. rank \in [Survivors(l) -> (t - MaxTracked)..(t - 1)]
  BY <1>4
<1>6. ASSUME NEW j \in Survivors(l), NEW k \in Survivors(l), j # k
      PROVE  rank[j] # rank[k]
  <2>1. j \in Tracked(l) /\ k \in Tracked(l) /\ bucket[l][j].place # bucket[l][k].place
    BY <1>2, <1>6 DEF Numbered
  <2>2. \A i \in Tracked(l) : bucket[l][i].updatedAt \in Int /\ bucket[l][i].place \in Nat
    BY DEF TypeOK, Bucket, Tracked
  <2>3. Before(l, j, k) \/ Before(l, k, j)
    BY <2>1, <2>2 DEF Before
  <2>4. Cardinality(Ahead(l, j)) # Cardinality(Ahead(l, k))
    BY <2>1, <2>3, RanksDiffer
  <2> QED
    BY <2>4
<1>7. rank \in Injection(Survivors(l), (t - MaxTracked)..(t - 1))
  <2> HIDE DEF rank
  <2> QED
    BY <1>5, <1>6 DEF Injection, IsInjective
<1>8. /\ IsFiniteSet((t - MaxTracked)..(t - 1))
      /\ Cardinality((t - MaxTracked)..(t - 1)) <= MaxTracked
  <2> HIDE DEF t
  <2>1. PICK x \in Int : x = t - MaxTracked
    BY <1>1
  <2>2. PICK y \in Int : y = t - 1
    BY <1>1
  <2>3. IsFiniteSet(x..y) /\ Cardinality(x..y) = IF x > y THEN 0 ELSE y - x + 1
    BY FS_Interval
  <2>4. (IF x > y THEN 0 ELSE y - x + 1) <= MaxTracked
    BY <1>1, <2>1, <2>2
  <2> QED
    BY <2>1, <2>2, <2>3, <2>4
<1> HIDE DEF rank, t
<1>9. Cardinality(Survivors(l)) <= Cardinality((t - MaxTracked)..(t - 1))
  BY <1>7, <1>8, FS_Injection
<1>10. Cardinality((t - MaxTracked)..(t - 1)) \in Nat /\ Cardinality(Survivors(l)) \in Nat
  BY <1>3, <1>8, FS_CardinalityType
<1> QED
  BY <1>1, <1>3, <1>8, <1>9, <1>10

\* A new entry comes after every other.
LEMMA NextPlaceIsLast ==
  ASSUME TypeOK, Numbered, NEW l \in Limiters
  PROVE  /\ NextPlace(l) \in 1..(asked + 1)
         /\ \A k \in Tracked(l) : bucket[l][k].place < NextPlace(l)
<1> DEFINE P == {0} \cup {bucket[l][k].place : k \in Tracked(l)}
<1>1. asked \in Nat /\ \A k \in Tracked(l) : bucket[l][k].place \in Nat
  BY Types DEF TypeOK, Bucket, Tracked
<1>2. P \subseteq Nat /\ P # {} /\ \A s \in P : s <= asked
  BY <1>1 DEF Numbered
<1>3. NextPlace(l) = 1 + Max(P)
  BY DEF NextPlace
<1>4. \A k \in Tracked(l) : bucket[l][k].place \in P
  OBVIOUS
<1> HIDE DEF P
<1>5. Max(P) \in P /\ \A s \in P : s <= Max(P)
  BY <1>1, <1>2, GreatestOf
<1>6. PICK n \in Nat : n = Max(P)
  BY <1>2, <1>5
<1>7. n <= asked /\ \A s \in P : s <= n
  BY <1>2, <1>5, <1>6
<1>8. NextPlace(l) = n + 1 /\ NextPlace(l) \in 1..(asked + 1)
  BY <1>1, <1>3, <1>6, <1>7
<1>9. ASSUME NEW k \in Tracked(l) PROVE bucket[l][k].place < NextPlace(l)
  <2>1. bucket[l][k].place <= n /\ bucket[l][k].place \in Nat
    BY <1>1, <1>4, <1>7
  <2> QED
    BY <1>8, <2>1
<1> QED
  BY <1>8, <1>9

-----------------------------------------------------------------------------
(* What consume finds and leaves behind.                                   *)

LEMMA EntryTypes ==
  ASSUME TypeOK, NEW l \in Limiters, NEW k \in Keys
  PROVE  /\ bucket[l][k] \in Bucket
         /\ bucket[l][k].tokens \in Nat /\ bucket[l][k].tokens <= Capacity[l]
         /\ bucket[l][k].updatedAt \in Int /\ bucket[l][k].place \in Nat
         /\ granted[l][k] \in Nat /\ evictions[l][k] \in Nat
         /\ elapsed \in Nat /\ jumped \in Nat
         /\ Clock \in Int /\ now \in Nat /\ asked \in Nat
BY Types DEF TypeOK, Bucket, Clock

LEMMA FoundFacts ==
  ASSUME TypeOK, Numbered, NEW l \in Limiters, NEW k \in Keys
  PROVE  /\ Found(l, k).tokens \in Nat /\ Found(l, k).tokens <= Capacity[l]
         /\ Found(l, k).updatedAt \in Int
         /\ Found(l, k).place \in 1..(asked + 1)
         /\ \A j \in Survivors(l) : j # k => bucket[l][j].place # Found(l, k).place
<1>1. CASE k \in Survivors(l)
  <2>1. Found(l, k) = bucket[l][k] /\ k \in Tracked(l)
    BY <1>1 DEF Found, Survivors
  <2>2. bucket[l][k].place <= asked /\ bucket[l][k].place # 0
    BY <2>1 DEF Numbered, Tracked
  <2>3. \A j \in Survivors(l) : j # k => bucket[l][j].place # bucket[l][k].place
    BY <2>1 DEF Numbered, Survivors
  <2> QED
    BY <2>1, <2>2, <2>3, EntryTypes
<1>2. CASE k \notin Survivors(l)
  <2>1. Found(l, k) = [tokens |-> Capacity[l], updatedAt |-> Clock, place |-> NextPlace(l)]
    BY <1>2 DEF Found, Survivors
  <2>2. \A j \in Survivors(l) : bucket[l][j].place \in Nat /\ bucket[l][j].place < NextPlace(l)
    BY NextPlaceIsLast, EntryTypes DEF Survivors, Tracked
  <2>3. NextPlace(l) \in 1..(asked + 1)
    BY NextPlaceIsLast
  <2>4. \A j \in Survivors(l) : bucket[l][j].place # NextPlace(l)
    BY <2>2, <2>3, EntryTypes
  <2> QED
    BY <2>1, <2>3, <2>4, Types, EntryTypes
<1> QED
  BY <1>1, <1>2

LEMMA AvailableFacts ==
  ASSUME TypeOK, NEW l \in Limiters, NEW k \in Keys
  PROVE  /\ Ticks(l, k) \in Nat /\ Earned(l, k) \in Nat
         /\ Available(l, k) \in 0..Capacity[l]
<1>1. Ticks(l, k) \in Nat
  BY EntryTypes DEF Ticks
<1>2. Refill[l] * Ticks(l, k) \in Nat
  <2>1. PICK t \in Nat : t = Ticks(l, k)
    BY <1>1
  <2>2. PICK r \in Nat : r = Refill[l]
    BY Types
  <2> QED
    BY <2>1, <2>2
<1>3. Earned(l, k) \in Nat
  BY <1>2, EntryTypes DEF Earned
<1> QED
  BY <1>1, <1>3, Types DEF Available

\* The refill of an entry that survives is what it could spend already; any
\* other key starts full.
LEMMA RefilledFacts ==
  ASSUME TypeOK, Numbered, NEW l \in Limiters, NEW k \in Keys
  PROVE  /\ Refilled(l, k) \in 0..Capacity[l]
         /\ k \in Survivors(l) => Refilled(l, k) = Available(l, k)
         /\ k \notin Survivors(l) => Refilled(l, k) = Capacity[l]
         /\ k \notin Tracked(l) => Available(l, k) = Capacity[l]
<1>1. PICK c \in Nat : c = Capacity[l]
  BY Types
<1>2. PICK r \in Nat : r = Refill[l]
  BY Types
<1>3. PICK u \in Int : u = Found(l, k).updatedAt
  BY FoundFacts
<1>4. PICK n \in Nat : n = Found(l, k).tokens
  BY FoundFacts
<1>5. PICK t \in Int : t = Clock
  BY EntryTypes
<1>6. PICK e \in Nat : e = IF t >= u THEN t - u ELSE 0
  BY <1>3, <1>5
<1>7. Max({0, t - u}) = e
  <2>1. Max({0, t - u}) = IF 0 >= t - u THEN 0 ELSE t - u
    BY MaxOfTwo
  <2> QED
    BY <1>6, <2>1
<1>8. r * e \in Nat
  OBVIOUS
<1>9. Refilled(l, k) = IF c <= n + r * e THEN c ELSE n + r * e
  <2>1. Refilled(l, k) = Min({c, n + r * e})
    BY <1>1, <1>2, <1>3, <1>4, <1>5, <1>7 DEF Refilled
  <2>2. n + r * e \in Int
    BY <1>8
  <2> QED
    BY ONLY <2>1, <2>2, <1>1, MinOfTwo
<1>10. Refilled(l, k) \in 0..Capacity[l]
  BY <1>1, <1>8, <1>9
<1>11. ASSUME k \in Survivors(l) PROVE Refilled(l, k) = Available(l, k)
  <2>1. Found(l, k) = bucket[l][k] /\ k \in Tracked(l)
    BY <1>11 DEF Found, Survivors
  <2>2. Ticks(l, k) = e
    BY <2>1, <1>3, <1>5, <1>6 DEF Ticks
  <2>3. Earned(l, k) = n + r * e
    BY <2>1, <2>2, <1>2, <1>4 DEF Earned
  <2>4. Available(l, k) = IF n + r * e <= c THEN n + r * e ELSE c
    BY <1>1, <2>1, <2>3 DEF Available
  <2>5. PICK w \in Nat : w = n + r * e
    BY <1>8
  <2> QED
    BY <1>9, <2>4, <2>5
<1>12. ASSUME k \notin Survivors(l) PROVE Refilled(l, k) = Capacity[l]
  <2>1. Found(l, k) = [tokens |-> Capacity[l], updatedAt |-> Clock, place |-> NextPlace(l)]
    BY <1>12 DEF Found, Survivors
  <2>2. n = c
    BY <2>1, <1>1, <1>4
  <2> QED
    BY <1>1, <1>8, <1>9, <2>2
<1>13. k \notin Tracked(l) => Available(l, k) = Capacity[l]
  BY DEF Available
<1> QED
  BY <1>10, <1>11, <1>12, <1>13

\* What a request is charged.
Charge(l, k, cost) == IF Allowed(l, k, cost) THEN cost ELSE 0

LEMMA LeftFacts ==
  ASSUME TypeOK, Numbered, NEW l \in Limiters, NEW k \in Keys, NEW cost \in Costs
  PROVE  /\ Left(l, k, cost).tokens = Refilled(l, k) - Charge(l, k, cost)
         /\ Left(l, k, cost).tokens \in 0..Capacity[l]
         /\ Left(l, k, cost).updatedAt = Clock
         /\ Left(l, k, cost).place = Found(l, k).place
         /\ Left(l, k, cost) \in Bucket
         /\ Charge(l, k, cost) \in Nat
<1>1. PICK n \in Nat : n = Refilled(l, k) /\ n <= Capacity[l]
  BY RefilledFacts, Types
<1>2. cost \in Nat /\ Capacity[l] \in Nat
  BY Types
<1>3. Charge(l, k, cost) \in Nat /\ Charge(l, k, cost) <= n
  BY <1>1, <1>2 DEF Charge, Allowed
<1>4. Left(l, k, cost) = [tokens |-> n - Charge(l, k, cost),
                          updatedAt |-> Clock, place |-> Found(l, k).place]
  BY <1>1 DEF Left, Charge
<1>5. n - Charge(l, k, cost) \in 0..Capacity[l] /\ n - Charge(l, k, cost) \in Nat
  BY <1>1, <1>2, <1>3
<1>6. Found(l, k).place \in Nat /\ Clock \in Int
  BY FoundFacts, EntryTypes
<1>7. Left(l, k, cost) \in Bucket
  BY <1>4, <1>5, <1>6 DEF Bucket
<1> QED
  BY <1>1, <1>3, <1>4, <1>5, <1>7

\* By the moment a denial announces, the entry has earned the cost.
LEMMA RetryAfterCoversDeficit ==
  ASSUME TypeOK, Numbered, NEW l \in Limiters, NEW k \in Keys, NEW cost \in Costs
  PROVE  /\ RetryAfter(l, k, cost) \in Nat
         /\ Refilled(l, k) + Refill[l] * (SecondTicks * RetryAfter(l, k, cost)) >= cost
<1>1. PICK n \in Nat : n = Refilled(l, k)
  BY RefilledFacts, Types
<1>2. PICK r \in Nat \ {0} : r = Refill[l]
  BY Types
<1>3. PICK s \in Nat \ {0} : s = SecondTicks
  BY Types
<1>4. PICK y \in Nat \ {0} : y = r * s
  <2>1. r * s \in Nat /\ r * s # 0
    OBVIOUS
  <2> QED
    BY <2>1
<1>5. cost \in Nat
  BY Types
<1>6. PICK x \in Int : x = cost - n
  BY <1>5
<1>7. PICK q \in Int : q = (x + y - 1) \div y /\ y * q >= x
  BY RoundedUp
<1>8. RetryAfter(l, k, cost) = Max({1, q})
  BY <1>1, <1>2, <1>3, <1>4, <1>6, <1>7 DEF RetryAfter
<1>9. PICK w \in Nat : w = RetryAfter(l, k, cost) /\ q <= w
  BY <1>8, MaxOfTwo
<1>10. y * q <= y * w
  BY <1>9, EarnsMore
<1>11. r * (s * w) = y * w
  BY <1>4
<1>12. y * q \in Int /\ y * w \in Int
  OBVIOUS
<1>13. n + y * w >= cost
  BY <1>5, <1>6, <1>7, <1>10, <1>12
<1> QED
  BY <1>1, <1>2, <1>3, <1>9, <1>11, <1>13

-----------------------------------------------------------------------------
(* A request, at each limiter.                                             *)

LEMMA ArriveAt ==
  ASSUME TypeOK, NEW d \in Devices, NEW cost \in Costs, Arrive(d, cost),
         NEW l \in Limiters, NEW k \in Keys
  PROVE  /\ bucket'[l][k] = IF k = KeyAt(l, d) THEN Left(l, k, cost)
                            ELSE IF k \in Evicted(l) THEN Absent ELSE bucket[l][k]
         /\ granted'[l][k] =
              granted[l][k] + IF k = KeyAt(l, d) THEN Charge(l, k, cost) ELSE 0
         /\ evictions'[l][k] = evictions[l][k] + IF k \in Evicted(l) THEN 1 ELSE 0
         /\ promise'[l][k] = IF k = KeyAt(l, d) THEN Announced(l, k, cost)
                             ELSE promise[l][k]
         /\ Clock' = Clock /\ elapsed' = elapsed /\ jumped' = jumped /\ back' = back
         /\ asked' = asked + 1
<1>1. bucket'[l] = Consumed(l, KeyAt(l, d), cost)
  BY DEF Arrive
<1>2. bucket'[l][k] = IF k = KeyAt(l, d) THEN Left(l, k, cost)
                      ELSE IF k \in Evicted(l) THEN Absent ELSE bucket[l][k]
  BY <1>1 DEF Consumed
<1>3. granted'[l][k] =
        granted[l][k] + IF k = KeyAt(l, d) /\ Allowed(l, k, cost) THEN cost ELSE 0
  BY DEF Arrive
<1>4. (IF k = KeyAt(l, d) /\ Allowed(l, k, cost) THEN cost ELSE 0)
        = IF k = KeyAt(l, d) THEN Charge(l, k, cost) ELSE 0
  BY DEF Charge
<1>5. evictions'[l][k] = evictions[l][k] + IF k \in Evicted(l) THEN 1 ELSE 0
  BY DEF Arrive
<1>6. promise'[l] = [promise[l] EXCEPT ![KeyAt(l, d)] = Announced(l, KeyAt(l, d), cost)]
  BY DEF Arrive
<1>7. promise'[l][k] = IF k = KeyAt(l, d) THEN Announced(l, k, cost) ELSE promise[l][k]
  BY <1>6 DEF TypeOK
<1>8. /\ Clock' = Clock /\ elapsed' = elapsed /\ jumped' = jumped /\ back' = back
      /\ asked' = asked + 1
  BY DEF Arrive, Clock
<1> QED
  BY <1>2, <1>3, <1>4, <1>5, <1>7, <1>8

\* The Map afterwards holds the survivors and the key of the request.
LEMMA TrackedAfter ==
  ASSUME TypeOK, Numbered, NEW d \in Devices, NEW cost \in Costs, Arrive(d, cost),
         NEW l \in Limiters
  PROVE  Tracked(l)' = Survivors(l) \cup {KeyAt(l, d)}
<1>1. KeyAt(l, d) \in Keys
  BY Types
<1>2. bucket'[l][KeyAt(l, d)].place # 0
  <2>1. bucket'[l][KeyAt(l, d)].place = Found(l, KeyAt(l, d)).place
    BY <1>1, ArriveAt, LeftFacts
  <2>2. Found(l, KeyAt(l, d)).place \in 1..(asked + 1)
    BY <1>1, FoundFacts
  <2> QED
    BY <2>1, <2>2, EntryTypes
<1>3. ASSUME NEW k \in Keys, k # KeyAt(l, d)
      PROVE  bucket'[l][k].place # 0 <=> k \in Survivors(l)
  <2>1. CASE k \in Evicted(l)
    BY <1>3, <2>1, ArriveAt DEF Absent, Survivors
  <2>2. CASE k \notin Evicted(l)
    BY <1>3, <2>2, ArriveAt DEF Survivors, Tracked
  <2> QED
    BY <2>1, <2>2
<1>4. Tracked(l)' = {k \in Keys : bucket'[l][k].place # 0}
  BY DEF Tracked
<1>5. Survivors(l) \subseteq Keys
  BY DEF Survivors, Tracked
<1> QED
  BY <1>1, <1>2, <1>3, <1>4, <1>5

LEMMA ArriveKeepsTypes ==
  ASSUME TypeOK, Numbered, NEW d \in Devices, NEW cost \in Costs, Arrive(d, cost)
  PROVE  TypeOK'
<1>1. ASSUME NEW l \in Limiters, NEW k \in Keys
      PROVE  /\ bucket'[l][k] \in Bucket /\ bucket'[l][k].tokens <= Capacity[l]
             /\ granted'[l][k] \in Nat /\ evictions'[l][k] \in Nat
             /\ promise'[l][k] \in Promise
  <2>1. Capacity[l] \in Nat /\ cost \in Nat /\ SecondTicks \in Nat
    BY Types
  <2>2. Absent \in Bucket /\ Absent.tokens <= Capacity[l]
    BY <2>1 DEF Absent, Bucket
  <2>3. Left(l, k, cost) \in Bucket /\ Left(l, k, cost).tokens <= Capacity[l]
        /\ Charge(l, k, cost) \in Nat
    BY <2>1, LeftFacts
  <2>4. /\ bucket[l][k] \in Bucket /\ bucket[l][k].tokens <= Capacity[l]
        /\ granted[l][k] \in Nat /\ evictions[l][k] \in Nat /\ Clock \in Int
    BY EntryTypes
  <2>5. bucket'[l][k] \in Bucket /\ bucket'[l][k].tokens <= Capacity[l]
    BY <2>2, <2>3, <2>4, ArriveAt
  <2>6. granted'[l][k] \in Nat /\ evictions'[l][k] \in Nat
    BY <2>3, <2>4, ArriveAt
  <2>7. Announced(l, k, cost) \in Promise
    <3>1. PICK w \in Nat : w = RetryAfter(l, k, cost)
      BY RetryAfterCoversDeficit
    <3>2. SecondTicks * w \in Int
      BY <2>1
    <3>3. Clock + SecondTicks * w \in Int
      BY <2>4, <3>2
    <3>4. [cost |-> cost, at |-> Clock + SecondTicks * w] \in Promise /\ NoPromise \in Promise
      BY <2>1, <3>3 DEF Promise, NoPromise
    <3> QED
      BY <3>1, <3>4 DEF Announced
  <2>8. promise[l][k] \in Promise
    BY DEF TypeOK
  <2> QED
    BY <2>5, <2>6, <2>7, <2>8, ArriveAt
<1>2. /\ bucket' = [l \in Limiters |-> [k \in Keys |-> bucket'[l][k]]]
      /\ granted' = [l \in Limiters |-> [k \in Keys |-> granted'[l][k]]]
      /\ evictions' = [l \in Limiters |-> [k \in Keys |-> evictions'[l][k]]]
  BY DEF Arrive, Consumed
<1>3. promise' = [l \in Limiters |-> [k \in Keys |-> promise'[l][k]]]
  <2>1. promise \in [Limiters -> [Keys -> Promise]]
    BY DEF TypeOK
  <2>2. \A l \in Limiters : promise'[l] = [k \in Keys |-> promise'[l][k]]
    BY <2>1 DEF Arrive
  <2>3. promise' = [l \in Limiters |-> promise'[l]]
    BY DEF Arrive
  <2> QED
    BY <2>2, <2>3
<1>4. bucket' \in [Limiters -> [Keys -> Bucket]]
  BY <1>1, <1>2
<1>5. granted' \in [Limiters -> [Keys -> Nat]]
  BY <1>1, <1>2
<1>6. evictions' \in [Limiters -> [Keys -> Nat]]
  BY <1>1, <1>2
<1>7. promise' \in [Limiters -> [Keys -> Promise]]
  BY <1>1, <1>3
<1>8. /\ now' \in 0..MaxTime /\ back' \in 0..MaxBack /\ ahead' \in 0..MaxAhead
      /\ asked' \in 0..MaxRequests /\ elapsed' \in Nat /\ jumped' \in Nat
  BY Types DEF Arrive, TypeOK
<1> QED
  BY <1>1, <1>4, <1>5, <1>6, <1>7, <1>8 DEF TypeOK

LEMMA ArriveKeepsNumbers ==
  ASSUME TypeOK, Numbered, NEW d \in Devices, NEW cost \in Costs, Arrive(d, cost)
  PROVE  Numbered' /\ MapsBounded'
<1> SUFFICES ASSUME NEW l \in Limiters
             PROVE  /\ IsFiniteSet(Tracked(l)')
                    /\ \A k \in Tracked(l)' : bucket'[l][k].place <= asked'
                    /\ \A j, k \in Tracked(l)' :
                         bucket'[l][j].place = bucket'[l][k].place => j = k
                    /\ Cardinality(Tracked(l)') <= MaxTracked + 1
  BY DEF Numbered, MapsBounded
<1> DEFINE kk == KeyAt(l, d)
<1>1. kk \in Keys /\ Tracked(l)' = Survivors(l) \cup {kk}
  BY Types, TrackedAfter
<1>2. IsFiniteSet(Survivors(l)) /\ Cardinality(Survivors(l)) <= MaxTracked
  BY SurvivorsAreFew
<1>3. IsFiniteSet(Tracked(l)') /\ Cardinality(Tracked(l)') <= MaxTracked + 1
  <2>1. /\ IsFiniteSet(Survivors(l) \cup {kk})
        /\ Cardinality(Survivors(l) \cup {kk})
             = IF kk \in Survivors(l) THEN Cardinality(Survivors(l))
               ELSE Cardinality(Survivors(l)) + 1
    BY <1>2, FS_AddElement
  <2>2. Cardinality(Survivors(l)) \in Nat /\ MaxTracked \in Nat
    BY <1>2, FS_CardinalityType, Types
  <2> QED
    BY <1>1, <1>2, <2>1, <2>2
<1>4. bucket'[l][kk].place = Found(l, kk).place
  BY <1>1, ArriveAt, LeftFacts
<1>5. \A k \in Survivors(l) : k # kk => bucket'[l][k] = bucket[l][k]
  BY ArriveAt DEF Survivors, Tracked
<1>6. Found(l, kk).place \in 1..(asked + 1)
      /\ \A j \in Survivors(l) : j # kk => bucket[l][j].place # Found(l, kk).place
  BY <1>1, FoundFacts
<1>7. asked \in Nat /\ asked' = asked + 1
  BY Types, ArriveAt, <1>1 DEF TypeOK
<1>8. ASSUME NEW k \in Tracked(l)' PROVE bucket'[l][k].place <= asked'
  <2>1. CASE k = kk
    BY <1>4, <1>6, <1>7, <2>1
  <2>2. CASE k # kk
    <3>1. k \in Survivors(l) /\ k \in Tracked(l) /\ k \in Keys
      BY <1>1, <2>2 DEF Survivors, Tracked
    <3>2. bucket[l][k].place <= asked /\ bucket[l][k].place \in Nat
      BY <3>1, EntryTypes DEF Numbered
    <3> QED
      BY <1>5, <1>7, <2>2, <3>1, <3>2
  <2> QED
    BY <2>1, <2>2
<1>9. ASSUME NEW j \in Tracked(l)', NEW k \in Tracked(l)', j # k
      PROVE  bucket'[l][j].place # bucket'[l][k].place
  <2>1. CASE j = kk
    <3>1. k \in Survivors(l)
      BY <1>1, <1>9, <2>1
    <3> QED
      BY <1>4, <1>5, <1>6, <1>9, <2>1, <3>1
  <2>2. CASE k = kk
    <3>1. j \in Survivors(l)
      BY <1>1, <1>9, <2>2
    <3> QED
      BY <1>4, <1>5, <1>6, <1>9, <2>2, <3>1
  <2>3. CASE j # kk /\ k # kk
    <3>1. j \in Survivors(l) /\ k \in Survivors(l)
      BY <1>1, <2>3
    <3>2. bucket[l][j].place # bucket[l][k].place
      BY <1>9, <3>1 DEF Numbered, Survivors
    <3> QED
      BY <1>5, <2>3, <3>1, <3>2
  <2> QED
    BY <2>1, <2>2, <2>3
<1> QED
  BY <1>3, <1>8, <1>9

\* The request is paid from what was available; a full bucket that replaces a
\* forgotten one is paid by the eviction.
LEMMA ArriveKeepsCover ==
  ASSUME TypeOK, Numbered, Covered,
         NEW d \in Devices, NEW cost \in Costs, Arrive(d, cost), TypeOK'
  PROVE  Covered'
<1> SUFFICES ASSUME NEW l \in Limiters, NEW k \in Keys
             PROVE  granted'[l][k] + Available(l, k)'
                      <= Capacity[l] * (1 + evictions'[l][k]) + Refill[l] * (elapsed' + jumped')
  BY DEF Covered
<1>1. PICK c \in Nat : c = Capacity[l]
  BY Types
<1>2. PICK e \in Nat : e = evictions[l][k]
  BY EntryTypes
<1>3. PICK g \in Nat : g = granted[l][k]
  BY EntryTypes
<1>4. PICK a \in Nat : a = Available(l, k) /\ a <= c
  BY <1>1, AvailableFacts
<1>5. PICK f \in Nat : f = Refill[l] * (elapsed + jumped)
  <2>1. \A r \in Nat, t \in Nat, j \in Nat : r * (t + j) \in Nat
    OBVIOUS
  <2> QED
    BY <2>1, Types, EntryTypes
<1>6. PICK p \in Nat : p = c * (1 + e)
  <2>1. c * (1 + e) \in Nat
    OBVIOUS
  <2> QED
    BY <2>1
<1>7. g + a <= p + f
  BY <1>1, <1>2, <1>3, <1>4, <1>5, <1>6 DEF Covered
<1>8. c * (1 + (e + 1)) = p + c
  BY <1>6
<1>9. PICK h \in Nat : h = granted'[l][k]
  BY DEF TypeOK
<1>10. PICK b \in Nat : b = Available(l, k)' /\ b <= c
  <2>1. Available(l, k)' \in 0..Capacity[l]
    <3>1. Ticks(l, k)' \in Nat
      BY Types DEF TypeOK, Ticks, Clock, Bucket
    <3>2. \A r \in Nat, t \in Nat : r * t \in Nat
      OBVIOUS
    <3>3. Refill[l] * Ticks(l, k)' \in Nat
      BY <3>1, <3>2, Types
    <3>4. bucket'[l][k].tokens \in Nat
      BY DEF TypeOK, Bucket
    <3>5. Earned(l, k)' \in Nat
      BY <3>3, <3>4 DEF Earned
    <3> QED
      BY <3>5, Types DEF Available
  <2> QED
    BY <1>1, <2>1
<1>11. Refill[l] * (elapsed' + jumped') = f
  BY <1>5, ArriveAt
<1>12. CASE k \in Evicted(l)
  <2>1. evictions'[l][k] = e + 1
    BY <1>2, <1>12, ArriveAt
  <2>2. h + b <= g + c
    <3>1. CASE k = KeyAt(l, d)
      <4>1. k \notin Survivors(l)
        BY <1>12 DEF Survivors
      <4>2. Refilled(l, k) = c
        BY <1>1, <4>1, RefilledFacts
      <4>3. PICK y \in Nat : y = Charge(l, k, cost)
        BY LeftFacts
      <4>4. h = g + y
        BY <1>3, <1>9, <3>1, <4>3, ArriveAt
      <4>5. bucket'[l][k].tokens = c - y /\ bucket'[l][k].updatedAt = Clock'
        BY <3>1, <4>2, <4>3, ArriveAt, LeftFacts
      <4>6. Ticks(l, k)' = 0
        <5>1. Clock' \in Int
          BY ArriveAt, EntryTypes
        <5> QED
          BY <4>5, <5>1 DEF Ticks
      <4>7. Earned(l, k)' = c - y
        <5>1. \A r \in Nat : r * 0 = 0
          OBVIOUS
        <5> QED
          BY <4>5, <4>6, <5>1, Types DEF Earned
      <4>8. k \in Tracked(l)'
        BY <3>1, TrackedAfter
      <4>9. b = c - y
        BY <1>1, <1>10, <4>3, <4>7, <4>8 DEF Available
      <4> QED
        BY <4>3, <4>4, <4>9
    <3>2. CASE k # KeyAt(l, d)
      BY <1>3, <1>9, <1>10, <3>2, ArriveAt
    <3> QED
      BY <3>1, <3>2
  <2>3. h + b <= (p + c) + f
    BY <1>7, <2>2
  <2> QED
    BY <1>1, <1>8, <1>9, <1>10, <1>11, <2>1, <2>3
<1>13. CASE k \notin Evicted(l)
  <2>1. evictions'[l][k] = e
    BY <1>2, <1>13, ArriveAt
  <2>2. h + b = g + a
    <3>1. CASE k = KeyAt(l, d)
      <4>1. Refilled(l, k) = a
        BY <1>4, <1>13, RefilledFacts DEF Survivors
      <4>2. PICK y \in Nat : y = Charge(l, k, cost)
        BY LeftFacts
      <4>3. h = g + y
        BY <1>3, <1>9, <3>1, <4>2, ArriveAt
      <4>4. bucket'[l][k].tokens = a - y /\ bucket'[l][k].updatedAt = Clock'
        BY <3>1, <4>1, <4>2, ArriveAt, LeftFacts
      <4>5. Ticks(l, k)' = 0
        <5>1. Clock' \in Int
          BY ArriveAt, EntryTypes
        <5> QED
          BY <4>4, <5>1 DEF Ticks
      <4>6. Earned(l, k)' = a - y
        <5>1. \A r \in Nat : r * 0 = 0
          OBVIOUS
        <5> QED
          BY <4>4, <4>5, <5>1, Types DEF Earned
      <4>7. k \in Tracked(l)'
        BY <3>1, TrackedAfter
      <4>8. b = a - y
        BY <1>1, <1>4, <1>10, <4>2, <4>6, <4>7 DEF Available
      <4> QED
        BY <4>2, <4>3, <4>8
    <3>2. CASE k # KeyAt(l, d)
      <4>1. h = g
        BY <1>3, <1>9, <3>2, ArriveAt
      <4>2. bucket'[l][k] = bucket[l][k] /\ Clock' = Clock
        BY <1>13, <3>2, ArriveAt
      <4>3. Ticks(l, k)' = Ticks(l, k)
        BY <4>2 DEF Ticks
      <4>4. Earned(l, k)' = Earned(l, k)
        BY <4>2, <4>3 DEF Earned
      <4>5. k \in Tracked(l)' <=> k \in Tracked(l)
        BY <4>2 DEF Tracked
      <4>6. b = a
        BY <1>4, <1>10, <4>4, <4>5 DEF Available
      <4> QED
        BY <4>1, <4>6
    <3> QED
      BY <3>1, <3>2
  <2> QED
    BY <1>1, <1>6, <1>7, <1>9, <1>10, <1>11, <2>1, <2>2
<1> QED
  BY <1>12, <1>13

LEMMA ArriveKeepsPromises ==
  ASSUME TypeOK, Numbered, PromisesCovered,
         NEW d \in Devices, NEW cost \in Costs, Arrive(d, cost)
  PROVE  PromisesCovered'
<1> SUFFICES ASSUME NEW l \in Limiters, NEW k \in Tracked(l)'
             PROVE  /\ back' = 0 => bucket'[l][k].updatedAt <= Clock'
                    /\ promise'[l][k] # NoPromise =>
                         bucket'[l][k].tokens
                           + Refill[l] * (promise'[l][k].at - bucket'[l][k].updatedAt)
                             >= promise'[l][k].cost
  BY DEF PromisesCovered
<1>1. k \in Keys
  BY DEF Tracked
<1>2. CASE k = KeyAt(l, d)
  <2>1. bucket'[l][k].updatedAt = Clock /\ bucket'[l][k].updatedAt <= Clock'
    BY <1>1, <1>2, ArriveAt, LeftFacts, EntryTypes
  <2>2. promise'[l][k] = Announced(l, k, cost)
    BY <1>1, <1>2, ArriveAt
  <2>3. CASE Allowed(l, k, cost)
    BY <2>1, <2>2, <2>3 DEF Announced
  <2>4. CASE ~Allowed(l, k, cost)
    <3>1. promise'[l][k] = [cost |-> cost, at |-> Clock + SecondTicks * RetryAfter(l, k, cost)]
      BY <2>2, <2>4 DEF Announced
    <3>2. bucket'[l][k].tokens = Refilled(l, k)
      <4>1. Charge(l, k, cost) = 0
        BY <2>4 DEF Charge
      <4>2. Refilled(l, k) \in Int
        BY <1>1, RefilledFacts, Types
      <4> QED
        BY <1>1, <1>2, <4>1, <4>2, ArriveAt, LeftFacts
    <3>3. PICK x \in Int : x = SecondTicks * RetryAfter(l, k, cost)
      <4>1. \A s \in Nat, w \in Nat : s * w \in Int
        OBVIOUS
      <4> QED
        BY <1>1, <4>1, RetryAfterCoversDeficit, Types
    <3>4. PICK t \in Int : t = Clock
      BY <1>1, EntryTypes
    <3>5. promise'[l][k].at - bucket'[l][k].updatedAt = x
      BY <2>1, <3>1, <3>3, <3>4
    <3>6. promise'[l][k].cost = cost
      BY <3>1
    <3>7. Refilled(l, k) + Refill[l] * x >= cost
      BY <1>1, <3>3, RetryAfterCoversDeficit
    <3> QED
      BY <2>1, <3>2, <3>5, <3>6, <3>7
  <2> QED
    BY <2>3, <2>4
<1>3. CASE k # KeyAt(l, d)
  <2>1. k \in Survivors(l) /\ k \in Tracked(l) /\ k \notin Evicted(l)
    BY <1>3, TrackedAfter DEF Survivors
  <2>2. bucket'[l][k] = bucket[l][k] /\ promise'[l][k] = promise[l][k]
        /\ Clock' = Clock /\ back' = back
    BY <1>1, <1>3, <2>1, ArriveAt
  <2> QED
    BY <2>1, <2>2 DEF PromisesCovered
<1> QED
  BY <1>2, <1>3

-----------------------------------------------------------------------------
(* The clock and the window.                                               *)

\* When no entry changes, neither does what is numbered or bounded.
LEMMA SameEntries ==
  ASSUME bucket' = bucket
  PROVE  /\ \A l \in Limiters : Tracked(l)' = Tracked(l)
         /\ Numbered /\ asked' = asked => Numbered'
         /\ MapsBounded => MapsBounded'
<1>1. \A l \in Limiters : Tracked(l)' = Tracked(l)
  BY DEF Tracked
<1> QED
  BY <1>1 DEF Numbered, MapsBounded

\* When no entry changes and nothing is announced, no entry comes to be dated
\* ahead of a clock that was never set back.
LEMMA SamePromises ==
  ASSUME LimiterInv, bucket' = bucket, promise' = promise, Clock' \in Int,
         back' = 0 => back = 0 /\ Clock <= Clock'
  PROVE  PromisesCovered'
<1> SUFFICES ASSUME NEW l \in Limiters, NEW k \in Tracked(l)
             PROVE  /\ back' = 0 => bucket[l][k].updatedAt <= Clock'
                    /\ promise[l][k] # NoPromise =>
                         bucket[l][k].tokens
                           + Refill[l] * (promise[l][k].at - bucket[l][k].updatedAt)
                             >= promise[l][k].cost
  BY SameEntries DEF PromisesCovered
<1>1. bucket[l][k].updatedAt \in Int /\ Clock \in Int
  BY EntryTypes DEF LimiterInv, Tracked
<1>2. back = 0 => bucket[l][k].updatedAt <= Clock
  BY DEF LimiterInv, PromisesCovered
<1> QED
  BY <1>1, <1>2 DEF LimiterInv, PromisesCovered

\* A clock that goes forward, by itself or because it is set, adds at most a
\* refill to what is available, and one to the budget.
LEMMA ForwardKeepsCover ==
  ASSUME LimiterInv, Clock' = Clock + 1,
         elapsed' + jumped' = elapsed + jumped + 1,
         UNCHANGED <<bucket, granted, evictions>>
  PROVE  Covered'
<1> SUFFICES ASSUME NEW l \in Limiters, NEW k \in Keys
             PROVE  granted'[l][k] + Available(l, k)'
                      <= Capacity[l] * (1 + evictions'[l][k])
                           + Refill[l] * (elapsed' + jumped')
  BY DEF Covered
<1>1. PICK c \in Nat : c = Capacity[l]
  BY Types
<1>2. PICK r \in Nat : r = Refill[l]
  BY Types
<1>3. PICK n \in Nat : n = bucket[l][k].tokens
  BY EntryTypes DEF LimiterInv
<1>4. PICK t \in Nat : t = Ticks(l, k)
  BY AvailableFacts DEF LimiterInv
<1>5. PICK u \in Nat : u = Ticks(l, k)' /\ u <= t + 1
  <2>1. bucket[l][k].updatedAt \in Int /\ Clock \in Int
    BY EntryTypes DEF LimiterInv
  <2> QED
    BY <1>4, <2>1 DEF Ticks
<1>6. r * u <= r * t + r /\ r * u \in Nat /\ r * t \in Nat
  <2>1. r * u <= r * (t + 1)
    BY <1>5, EarnsMore
  <2> QED
    BY <2>1
<1>7. Available(l, k) = IF k \in Tracked(l) /\ n + r * t <= c THEN n + r * t ELSE c
  BY <1>1, <1>2, <1>3, <1>4 DEF Available, Earned
<1>8. Available(l, k)' = IF k \in Tracked(l) /\ n + r * u <= c THEN n + r * u ELSE c
  <2>1. bucket' = bucket /\ Tracked(l)' = Tracked(l)
    BY SameEntries
  <2> QED
    BY <1>1, <1>2, <1>3, <1>5, <2>1 DEF Available, Earned
<1>9. PICK a \in Nat : a = Available(l, k)
  BY AvailableFacts, Types DEF LimiterInv
<1>10. PICK b \in Nat : b = Available(l, k)' /\ b <= a + r
  BY <1>6, <1>7, <1>8, <1>9
<1>11. PICK g \in Nat : g = granted[l][k]
  BY EntryTypes DEF LimiterInv
<1>12. PICK f \in Nat : f = elapsed + jumped
  BY EntryTypes DEF LimiterInv
<1>13. PICK p \in Nat : p = c * (1 + evictions[l][k])
  <2>1. \A x \in Nat, y \in Nat : x * (1 + y) \in Nat
    OBVIOUS
  <2> QED
    BY <2>1, EntryTypes DEF LimiterInv
<1>14. g + a <= p + r * f
  BY <1>1, <1>2, <1>9, <1>11, <1>12, <1>13 DEF LimiterInv, Covered
<1>15. r * (f + 1) = r * f + r /\ r * f \in Nat
  OBVIOUS
<1>16. g + b <= p + r * (f + 1)
  BY <1>10, <1>14, <1>15
<1>17. elapsed' + jumped' = f + 1
  BY <1>12
<1> QED
  BY <1>1, <1>2, <1>10, <1>11, <1>13, <1>16, <1>17

LEMMA ForwardKeepsInv ==
  ASSUME LimiterInv, Tick \/ SetForward
  PROVE  LimiterInv'
<1>1. /\ UNCHANGED <<back, asked, bucket, granted, evictions, promise>>
      /\ elapsed' \in Nat /\ jumped' \in Nat
      /\ elapsed' + jumped' = elapsed + jumped + 1
  <2>1. elapsed \in Nat /\ jumped \in Nat
    BY DEF LimiterInv, TypeOK
  <2>2. CASE Tick
    BY <2>1, <2>2 DEF Tick
  <2>3. CASE SetForward
    BY <2>1, <2>3 DEF SetForward
  <2> QED
    BY <2>2, <2>3
<1>2. Clock' = Clock + 1 /\ Clock \in Int
  BY Types DEF Tick, SetForward, Clock, LimiterInv, TypeOK
<1>3. now' \in 0..MaxTime /\ ahead' \in 0..MaxAhead
  BY Types DEF Tick, SetForward, LimiterInv, TypeOK
<1>4. TypeOK'
  BY <1>1, <1>3 DEF LimiterInv, TypeOK
<1>5. Numbered' /\ MapsBounded'
  BY <1>1, SameEntries DEF LimiterInv
<1>6. PromisesCovered'
  BY <1>1, <1>2, SamePromises
<1>7. Covered'
  BY <1>1, <1>2, ForwardKeepsCover
<1> QED
  BY <1>4, <1>5, <1>6, <1>7 DEF LimiterInv

\* A clock that is set back makes nothing available.
LEMMA SetBackKeepsInv ==
  ASSUME LimiterInv, SetBack
  PROVE  LimiterInv'
<1>1. TypeOK'
  BY Types DEF LimiterInv, TypeOK, SetBack, history
<1>2. Numbered' /\ MapsBounded' /\ PromisesCovered'
  <2>1. /\ UNCHANGED <<asked, bucket, promise>>
        /\ back \in Nat /\ back' = back + 1 /\ Clock' \in Int
    BY Types DEF SetBack, history, Clock, LimiterInv, TypeOK
  <2>2. PromisesCovered'
    BY <2>1, SamePromises
  <2> QED
    BY <2>1, <2>2, SameEntries DEF LimiterInv
<1>3. Covered'
  <2> SUFFICES ASSUME NEW l \in Limiters, NEW k \in Keys
               PROVE  granted'[l][k] + Available(l, k)'
                        <= Capacity[l] * (1 + evictions'[l][k]) + Refill[l] * (elapsed' + jumped')
    BY DEF Covered
  <2>1. PICK c \in Nat : c = Capacity[l]
    BY Types
  <2>2. PICK r \in Nat : r = Refill[l]
    BY Types
  <2>3. PICK n \in Nat : n = bucket[l][k].tokens
    BY EntryTypes DEF LimiterInv
  <2>4. PICK t \in Nat : t = Ticks(l, k)
    BY AvailableFacts DEF LimiterInv
  <2>5. PICK u \in Nat : u = Ticks(l, k)' /\ u <= t
    <3>1. Clock' = Clock - 1 /\ bucket' = bucket
      BY Types DEF SetBack, Clock, LimiterInv, TypeOK
    <3>2. bucket[l][k].updatedAt \in Int /\ Clock \in Int
      BY EntryTypes DEF LimiterInv
    <3> QED
      BY <2>4, <3>1, <3>2 DEF Ticks
  <2>6. r * u <= r * t /\ r * u \in Nat /\ r * t \in Nat
    BY <2>5, EarnsMore
  <2>7. Available(l, k) = IF k \in Tracked(l) /\ n + r * t <= c THEN n + r * t ELSE c
    BY <2>1, <2>2, <2>3, <2>4 DEF Available, Earned
  <2>8. Available(l, k)' = IF k \in Tracked(l) /\ n + r * u <= c THEN n + r * u ELSE c
    <3>1. bucket' = bucket /\ Tracked(l)' = Tracked(l)
      BY SameEntries DEF SetBack
    <3> QED
      BY <2>1, <2>2, <2>3, <2>5, <3>1 DEF Available, Earned
  <2>9. PICK a \in Nat : a = Available(l, k)
    BY AvailableFacts, Types DEF LimiterInv
  <2>10. PICK b \in Nat : b = Available(l, k)' /\ b <= a
    BY <2>6, <2>7, <2>8, <2>9
  <2>11. PICK g \in Nat : g = granted[l][k]
    BY EntryTypes DEF LimiterInv
  <2>12. PICK f \in Nat : f = Capacity[l] * (1 + evictions[l][k]) + Refill[l] * (elapsed + jumped)
    <3>1. \A x, y, v, w, j \in Nat : x * (1 + y) + v * (w + j) \in Nat
      OBVIOUS
    <3> QED
      BY <3>1, EntryTypes, Types DEF LimiterInv
  <2>13. g + a <= f
    BY <2>9, <2>11, <2>12 DEF LimiterInv, Covered
  <2>14. UNCHANGED <<granted, evictions, elapsed, jumped>>
    BY DEF SetBack, history
  <2>15. g + b <= f
    BY <2>10, <2>13
  <2> QED
    BY <2>10, <2>11, <2>12, <2>14, <2>15
<1> QED
  BY <1>1, <1>2, <1>3 DEF LimiterInv

\* A window that opens has a full bucket at most to spend.
LEMMA OpenWindowKeepsInv ==
  ASSUME LimiterInv, OpenWindow
  PROVE  LimiterInv'
<1>1. granted' = ForEveryKey(0) /\ evictions' = ForEveryKey(0)
      /\ elapsed' = 0 /\ jumped' = 0
      /\ UNCHANGED <<now, back, ahead, asked, bucket, promise>>
  BY DEF OpenWindow
<1>2. TypeOK'
  BY <1>1 DEF LimiterInv, TypeOK, ForEveryKey
<1>3. Numbered' /\ MapsBounded' /\ PromisesCovered'
  <2>1. Clock' = Clock /\ Clock \in Int
    BY <1>1, Types DEF Clock, LimiterInv, TypeOK
  <2>2. PromisesCovered'
    BY <1>1, <2>1, SamePromises
  <2> QED
    BY <1>1, <2>2, SameEntries DEF LimiterInv
<1>4. Covered'
  <2> SUFFICES ASSUME NEW l \in Limiters, NEW k \in Keys
               PROVE  granted'[l][k] + Available(l, k)'
                        <= Capacity[l] * (1 + evictions'[l][k]) + Refill[l] * (elapsed' + jumped')
    BY DEF Covered
  <2>1. granted'[l][k] = 0 /\ evictions'[l][k] = 0 /\ elapsed' = 0 /\ jumped' = 0
    BY <1>1 DEF ForEveryKey
  <2>2. Available(l, k)' = Available(l, k)
    <3>1. Clock' = Clock /\ Tracked(l)' = Tracked(l) /\ bucket' = bucket
      BY <1>1, SameEntries DEF Clock
    <3> QED
      BY <3>1 DEF Available, Earned, Ticks
  <2>3. Available(l, k) \in 0..Capacity[l] /\ Capacity[l] \in Nat /\ Refill[l] \in Nat
    BY AvailableFacts, Types DEF LimiterInv
  <2>4. \A c \in Nat, r \in Nat : \A a \in 0..c : 0 + a <= c * (1 + 0) + r * (0 + 0)
    OBVIOUS
  <2> QED
    BY <2>1, <2>2, <2>3, <2>4
<1> QED
  BY <1>2, <1>3, <1>4 DEF LimiterInv

LEMMA LimiterInit == Init => LimiterInv
<1> SUFFICES ASSUME Init PROVE LimiterInv
  OBVIOUS
<1>1. /\ bucket = ForEveryKey(Absent) /\ granted = ForEveryKey(0)
      /\ evictions = ForEveryKey(0) /\ promise = ForEveryKey(NoPromise)
      /\ now = 0 /\ back = 0 /\ ahead = 0 /\ asked = 0 /\ elapsed = 0 /\ jumped = 0
  BY DEF Init
<1>2. Absent \in Bucket /\ Absent.tokens = 0 /\ Absent.place = 0 /\ NoPromise \in Promise
  BY DEF Absent, Bucket, Promise, NoPromise
<1>3. TypeOK
  BY <1>1, <1>2, Types DEF TypeOK, ForEveryKey
<1>4. \A l \in Limiters : Tracked(l) = {}
  BY <1>1, <1>2 DEF Tracked, ForEveryKey
<1>5. Numbered
  BY <1>4, FS_EmptySet DEF Numbered
<1>6. MapsBounded
  BY <1>4, FS_EmptySet, Types DEF MapsBounded
<1>7. PromisesCovered
  BY <1>4 DEF PromisesCovered
<1>8. Covered
  <2> SUFFICES ASSUME NEW l \in Limiters, NEW k \in Keys
               PROVE  granted[l][k] + Available(l, k)
                        <= Capacity[l] * (1 + evictions[l][k]) + Refill[l] * (elapsed + jumped)
    BY DEF Covered
  <2>1. granted[l][k] = 0 /\ evictions[l][k] = 0 /\ elapsed = 0 /\ jumped = 0
    BY <1>1 DEF ForEveryKey
  <2>2. Available(l, k) \in 0..Capacity[l] /\ Capacity[l] \in Nat /\ Refill[l] \in Nat
    BY <1>3, AvailableFacts, Types
  <2>3. \A c \in Nat, r \in Nat : \A a \in 0..c : 0 + a <= c * (1 + 0) + r * (0 + 0)
    OBVIOUS
  <2> QED
    BY <2>1, <2>2, <2>3
<1> QED
  BY <1>3, <1>5, <1>6, <1>7, <1>8 DEF LimiterInv

LEMMA LimiterStep == LimiterInv /\ [Next]_vars => LimiterInv'
<1> SUFFICES ASSUME LimiterInv, [Next]_vars PROVE LimiterInv'
  OBVIOUS
<1>1. CASE \E d \in Devices, cost \in Costs : Arrive(d, cost)
  <2>1. PICK d \in Devices, cost \in Costs : Arrive(d, cost)
    BY <1>1
  <2>2. TypeOK /\ Numbered /\ Covered /\ PromisesCovered
    BY DEF LimiterInv
  <2>3. TypeOK'
    BY <2>1, <2>2, ArriveKeepsTypes
  <2>4. Numbered' /\ MapsBounded'
    BY <2>1, <2>2, ArriveKeepsNumbers
  <2>5. Covered'
    BY <2>1, <2>2, <2>3, ArriveKeepsCover
  <2>6. PromisesCovered'
    BY <2>1, <2>2, ArriveKeepsPromises
  <2> QED
    BY <2>3, <2>4, <2>5, <2>6 DEF LimiterInv
<1>2. CASE Tick \/ SetForward
  BY <1>2, ForwardKeepsInv
<1>3. CASE SetBack
  BY <1>3, SetBackKeepsInv
<1>4. CASE OpenWindow
  BY <1>4, OpenWindowKeepsInv
<1>5. CASE UNCHANGED vars
  <2>1. UNCHANGED <<now, back, ahead, asked, bucket, granted, elapsed, jumped, evictions, promise>>
    BY <1>5 DEF vars, history
  <2>2. TypeOK'
    BY <2>1 DEF LimiterInv, TypeOK
  <2>3. Numbered' /\ MapsBounded' /\ PromisesCovered'
    <3>1. Clock' = Clock /\ Clock \in Int
      BY <2>1, Types DEF Clock, LimiterInv, TypeOK
    <3>2. PromisesCovered'
      BY <2>1, <3>1, SamePromises
    <3> QED
      BY <2>1, <3>2, SameEntries DEF LimiterInv
  <2>4. \A l \in Limiters, k \in Keys : Available(l, k)' = Available(l, k)
    BY <2>1, SameEntries DEF Available, Earned, Ticks, Clock
  <2>5. Covered'
    BY <2>1, <2>4 DEF LimiterInv, Covered
  <2> QED
    BY <2>2, <2>3, <2>5 DEF LimiterInv
<1> QED
  BY <1>1, <1>2, <1>3, <1>4, <1>5 DEF Next

-----------------------------------------------------------------------------
(* What holds of every behaviour.                                          *)

\* The entries of each Map, what was granted and what a denial announced stay
\* in the relation that consume and prune of src/api/security.ts rely on.
THEOREM LimiterInvariant == Spec => []LimiterInv
<1> QED
  BY LimiterInit, LimiterStep, PTL DEF Spec

\* The state has its types, and no bucket holds more than its capacity.
THEOREM LimiterTypeCorrect == Spec => []TypeOK
<1>1. LimiterInv => TypeOK
  BY DEF LimiterInv
<1> QED
  BY <1>1, LimiterInvariant, PTL

\* In any window a key is granted no more than a full bucket, the refill of the
\* window, another full bucket for each time the Map forgot it, and a refill for
\* each tick the clock was set forward; to set it back adds nothing.
THEOREM BudgetsHold == Spec => []BudgetHolds
<1>1. LimiterInv => BudgetHolds
  <2> SUFFICES ASSUME LimiterInv, NEW l \in Limiters, NEW k \in Keys
               PROVE  granted[l][k]
                        <= Capacity[l] * (1 + evictions[l][k]) + Refill[l] * (elapsed + jumped)
    BY DEF BudgetHolds
  <2>1. PICK g \in Nat : g = granted[l][k]
    BY EntryTypes DEF LimiterInv
  <2>2. PICK a \in Nat : a = Available(l, k)
    BY AvailableFacts, Types DEF LimiterInv
  <2>3. PICK f \in Nat : f = Capacity[l] * (1 + evictions[l][k]) + Refill[l] * (elapsed + jumped)
    <3>1. \A x, y, v, w, j \in Nat : x * (1 + y) + v * (w + j) \in Nat
      OBVIOUS
    <3> QED
      BY <3>1, EntryTypes, Types DEF LimiterInv
  <2>4. g + a <= f
    BY <2>1, <2>2, <2>3 DEF LimiterInv, Covered
  <2>5. g <= f
    BY <2>4
  <2> QED
    BY <2>1, <2>3, <2>5
<1> QED
  BY <1>1, LimiterInvariant, PTL

\* A client that waits as long as a limiter's last denial announced is allowed
\* by that limiter, when the clock was never set back.
THEOREM RetryAfterIsEnough == Spec => []RetryAfterSuffices
<1>1. LimiterInv => RetryAfterSuffices
  <2> SUFFICES ASSUME LimiterInv, NEW l \in Limiters, NEW k \in Keys, back = 0,
                      promise[l][k] # NoPromise, promise[l][k].cost <= Capacity[l],
                      Clock >= promise[l][k].at
               PROVE  Allowed(l, k, promise[l][k].cost)
    BY DEF RetryAfterSuffices
  <2>1. PICK n \in Nat : n = promise[l][k].cost
    BY DEF LimiterInv, TypeOK, Promise
  <2>2. PICK at \in Int : at = promise[l][k].at
    BY DEF LimiterInv, TypeOK, Promise
  <2>3. PICK c \in Nat : c = Capacity[l]
    BY Types
  <2>4. n <= c
    BY <2>1, <2>3
  <2>5. CASE k \notin Survivors(l)
    <3>1. Refilled(l, k) = c
      BY <2>3, <2>5, RefilledFacts DEF LimiterInv
    <3> QED
      BY <2>1, <2>3, <2>4, <3>1 DEF Allowed
  <2>6. CASE k \in Survivors(l)
    <3>1. k \in Tracked(l) /\ Refilled(l, k) = Available(l, k)
      BY <2>6, RefilledFacts DEF LimiterInv, Survivors
    <3>2. PICK u \in Int : u = bucket[l][k].updatedAt
      BY EntryTypes DEF LimiterInv
    <3>3. PICK t \in Int : t = Clock
      BY EntryTypes DEF LimiterInv
    <3>4. u <= t /\ at <= t
      BY <2>2, <3>1, <3>2, <3>3 DEF LimiterInv, PromisesCovered
    <3>5. PICK r \in Nat : r = Refill[l]
      BY Types
    <3>6. PICK b \in Nat : b = bucket[l][k].tokens
      BY EntryTypes DEF LimiterInv
    <3>7. b + r * (at - u) >= n
      BY <2>1, <2>2, <3>1, <3>2, <3>5, <3>6 DEF LimiterInv, PromisesCovered
    <3>8. r * (at - u) <= r * (t - u)
      BY <3>4, EarnsMore
    <3>9. r * (at - u) \in Int /\ r * (t - u) \in Int
      OBVIOUS
    <3>10. b + r * (t - u) >= n
      BY <3>7, <3>8, <3>9
    <3>11. Ticks(l, k) = t - u
      BY <3>2, <3>3, <3>4 DEF Ticks
    <3>12. Earned(l, k) = b + r * (t - u)
      BY <3>5, <3>6, <3>11 DEF Earned
    <3>13. Available(l, k) >= n
      <4>1. PICK e \in Int : e = b + r * (t - u)
        BY <3>9
      <4>2. Available(l, k) = IF e <= c THEN e ELSE c
        BY <2>3, <3>1, <3>12, <4>1 DEF Available
      <4> QED
        BY <2>4, <3>10, <4>1, <4>2
    <3> QED
      BY <2>1, <3>1, <3>13 DEF Allowed
  <2> QED
    BY <2>5, <2>6
<1> QED
  BY <1>1, LimiterInvariant, PTL

\* Pruning keeps each Map to MaxTracked entries and the one that is inserted.
THEOREM TrackedKeysAreBounded == Spec => []MapsBounded
<1>1. LimiterInv => MapsBounded
  BY DEF LimiterInv
<1> QED
  BY <1>1, LimiterInvariant, PTL
=============================================================================
