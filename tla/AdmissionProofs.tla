-------------------------- MODULE AdmissionProofs --------------------------
(***************************************************************************)
(* Proofs about Admission, in two parts.  The first is about RateLimiter:  *)
(* what every call of a token bucket preserves, for any limits, clocks and *)
(* units.  The allowance of a client covers what its bucket can give, and  *)
(* the wait a refused client was told covers what its bucket lacks.  Rates *)
(* and ages are variables, so their products are not linear: lemmas name   *)
(* the products once, and the others compare sums.                         *)
(*                                                                         *)
(* The second part: this holds of the gateway, whose requests wait for     *)
(* permits, are authenticated, are limited, leave, and find Redis failing, *)
(* in any order.                                                           *)
(***************************************************************************)
EXTENDS Admission, Collections

LimitType == [capacity : Nat, rate : Int]
PromiseType == [pending : BOOLEAN, left : Nat, limit : LimitType]

\* A product grows with its second factor, and is zero or more.
LEMMA ProductGrows ==
  ASSUME NEW e \in Nat, NEW r \in Nat, NEW s \in Nat, r <= s
  PROVE  e * r <= e * s /\ e * r \in Nat /\ e * s \in Nat
<1>1. PICK d \in Nat : s = r + d
  <2> WITNESS s - r \in Nat
  <2> QED OBVIOUS
<1>2. e * s = e * r + e * d
  BY <1>1
<1>3. e * d \in Nat /\ e * r \in Nat
  OBVIOUS
<1> QED
  BY <1>2, <1>3

\* ... also if the smaller factor is negative.
LEMMA ProductBelow ==
  ASSUME NEW e \in Nat, NEW r \in Int, NEW s \in Nat, r <= s
  PROVE  e * r <= e * s /\ e * r \in Int /\ e * s \in Nat
<1>1. PICK d \in Nat : s = r + d
  <2> WITNESS s - r \in Nat
  <2> QED OBVIOUS
<1>2. e * s = e * r + e * d
  BY <1>1
<1>3. e * d \in Nat /\ e * r \in Int /\ e * s \in Nat
  OBVIOUS
<1> QED
  BY <1>2, <1>3

LEMMA Distributes ==
  ASSUME NEW a \in Int, NEW b \in Int, NEW r \in Int
  PROVE  (a + b) * r = a * r + b * r
OBVIOUS

LEMMA Division ==
  ASSUME NEW n \in Nat, NEW m \in Nat \ {0}
  PROVE  n = m * (n \div m) + (n % m) /\ (n % m) \in 0..(m - 1) /\ n \div m \in Int
OBVIOUS

\* The wait for a bucket that is not full enough is at least a second, and with
\* it the bucket is full enough; unless the bucket does not refill.
LEMMA RefillingWaits ==
  ASSUME NEW level \in Int, NEW limit \in LimitType, level < One, limit.rate > 0
  PROVE  /\ Wait(level, limit) \in Nat \ {0}
         /\ level + (Wait(level, limit) * TicksPerSecond) * limit.rate >= One
<1> DEFINE m == limit.rate * TicksPerSecond
           n == One - level + m - 1
<1>0. limit.rate \in Nat \ {0} /\ TicksPerSecond \in Nat \ {0} /\ One \in Nat \ {0}
  BY LimiterAssumption DEF LimitType
<1>1. m \in Nat \ {0}
  BY <1>0
<1>2. n \in Nat /\ n >= m
  BY <1>0, <1>1
<1>3. Wait(level, limit) = n \div m
  BY DEF Wait
<1> HIDE DEF m
<1>4. n = m * (n \div m) + (n % m) /\ (n % m) \in 0..(m - 1) /\ n \div m \in Int
  BY <1>1, <1>2, Division
<1>5. n \div m >= 1
  <2>1. SUFFICES ASSUME n \div m <= 0 PROVE FALSE
    BY <1>4
  <2>2. m * (n \div m) <= 0
    BY <2>1, <1>1, <1>4
  <2> QED
    BY <2>2, <1>1, <1>2, <1>4
<1>6. m * (n \div m) >= One - level
  BY <1>0, <1>1, <1>4
<1>7. ((n \div m) * TicksPerSecond) * limit.rate = m * (n \div m)
  BY <1>0, <1>4 DEF m
<1> QED
  BY <1>0, <1>3, <1>4, <1>5, <1>6, <1>7

LEMMA WaitCovers ==
  ASSUME NEW level \in Int, NEW limit \in LimitType, level < One
  PROVE  /\ Wait(level, limit) \in Nat /\ (Wait(level, limit) = 0 => limit.rate < 0)
         /\ limit.rate > 0 =>
              level + (Wait(level, limit) * TicksPerSecond) * limit.rate >= One
<1>1. CASE limit.rate > 0
  BY <1>1, RefillingWaits
<1>2. CASE ~(limit.rate > 0)
  <2>1. Wait(level, limit) = EndlessWait(level, limit)
    BY <1>2 DEF Wait
  <2>2. EndlessWait(level, limit) \in {0, Never}
        /\ (EndlessWait(level, limit) = 0 => limit.rate < 0)
    BY LimiterAssumption DEF EndlessWait
  <2> QED
    BY <1>2, <2>1, <2>2, LimiterAssumption
<1> QED
  BY <1>1, <1>2
-----------------------------------------------------------------------------
\* What a finite set of limits has of a field is a finite set.
LEMMA FieldsAreFinite ==
  ASSUME NEW c \in Clients
  PROVE  /\ IsFiniteSet({limit.capacity : limit \in LimitsOf[c]})
         /\ IsFiniteSet({limit.rate : limit \in LimitsOf[c]})
<1>1. IsFiniteSet(LimitsOf[c])
  BY LimiterAssumption
<1> DEFINE capacity == [limit \in LimitsOf[c] |-> limit.capacity]
           rate == [limit \in LimitsOf[c] |-> limit.rate]
<1>2. /\ {limit.capacity : limit \in LimitsOf[c]} = {capacity[limit] : limit \in LimitsOf[c]}
      /\ {limit.rate : limit \in LimitsOf[c]} = {rate[limit] : limit \in LimitsOf[c]}
  OBVIOUS
<1> HIDE DEF capacity, rate
<1>3. /\ IsFiniteSet({capacity[limit] : limit \in LimitsOf[c]})
      /\ IsFiniteSet({rate[limit] : limit \in LimitsOf[c]})
  BY <1>1, ImageIsFinite
<1> QED
  BY <1>2, <1>3

LEMMA LargestBounds ==
  ASSUME NEW c \in Clients
  PROVE  /\ LimitsOf[c] \subseteq LimitType
         /\ Largest(c) \in Nat /\ Fastest(c) \in Nat
         /\ \A limit \in LimitsOf[c] :
              limit.capacity <= Largest(c) /\ limit.rate <= Fastest(c)
         /\ \E limit \in LimitsOf[c] : limit.capacity = Largest(c)
         /\ Fastest(c) \in {0} \cup {limit.rate : limit \in LimitsOf[c]}
<1>1. LimitsOf[c] \subseteq LimitType /\ LimitsOf[c] # {}
  BY LimiterAssumption DEF LimitType
<1>2. /\ Largest(c) \in {limit.capacity : limit \in LimitsOf[c]}
      /\ \A x \in {limit.capacity : limit \in LimitsOf[c]} : Largest(c) >= x
  <2> DEFINE S == {limit.capacity : limit \in LimitsOf[c]}
  <2>1. S \subseteq Int /\ S # {}
    BY <1>1 DEF LimitType
  <2>a. IsFiniteSet(S) /\ Largest(c) = Max(S)
    BY FieldsAreFinite DEF Largest
  <2> HIDE DEF S
  <2>2. Largest(c) \in S /\ \A x \in S : Largest(c) >= x
    BY <2>1, <2>a, MaxIsGreatest
  <2> QED
    BY <2>2 DEF S
<1>3. /\ Fastest(c) \in {0} \cup {limit.rate : limit \in LimitsOf[c]}
      /\ \A x \in {0} \cup {limit.rate : limit \in LimitsOf[c]} : Fastest(c) >= x
  <2> DEFINE R == {limit.rate : limit \in LimitsOf[c]}
             S == {0} \cup R
  <2>1. R \subseteq Int /\ IsFiniteSet(R)
    BY <1>1, FieldsAreFinite DEF LimitType
  <2>2. IsFiniteSet(S)
    <3> HIDE DEF R
    <3>1. IsFiniteSet({0})
      BY FS_Singleton
    <3> QED
      BY <2>1, <3>1, FS_Union
  <2>3. S \subseteq Int /\ S # {} /\ Fastest(c) = Max(S)
    BY <2>1 DEF Fastest
  <2> HIDE DEF S
  <2>4. Fastest(c) \in S /\ \A x \in S : Fastest(c) >= x
    BY <2>2, <2>3, MaxIsGreatest
  <2> QED
    BY <2>4 DEF S
<1>4. /\ Largest(c) \in Nat
      /\ \E limit \in LimitsOf[c] : limit.capacity = Largest(c)
  BY <1>1, <1>2 DEF LimitType
<1>5. Fastest(c) \in Int /\ Fastest(c) >= 0
  BY <1>1, <1>3 DEF LimitType
<1>6. ASSUME NEW limit \in LimitsOf[c]
      PROVE  limit.capacity <= Largest(c) /\ limit.rate <= Fastest(c)
  <2>1. /\ limit.capacity \in {l.capacity : l \in LimitsOf[c]}
        /\ limit.rate \in {l.rate : l \in LimitsOf[c]}
    OBVIOUS
  <2>2. Largest(c) >= limit.capacity /\ Fastest(c) >= limit.rate
    BY <2>1, <1>2, <1>3
  <2>3. limit.capacity \in Nat /\ limit.rate \in Int
    BY <1>1 DEF LimitType
  <2> QED
    BY <1>4, <1>5, <2>2, <2>3
<1> QED
  BY <1>1, <1>3, <1>4, <1>5, <1>6

\* Where keys of one client refill at one rate, it is every key's rate.
LEMMA RateIsOne ==
  ASSUME NEW c \in Clients, Steady(c), NEW limit \in LimitsOf[c]
  PROVE  limit.rate = Fastest(c)
<1> DEFINE rates == {l.rate : l \in LimitsOf[c]}
<1>1. Cardinality(rates) = 1 /\ IsFiniteSet(rates)
  BY FieldsAreFinite DEF Steady
<1>2. PICK rate : rates = {rate}
  <2> HIDE DEF rates
  <2> QED
    BY <1>1, FS_Singleton
<1>3. limit.rate = rate /\ limit.rate >= 0 /\ limit.rate \in Int
  BY <1>2, LargestBounds DEF Steady, LimitType
<1>4. Fastest(c) \in {0, rate} /\ limit.rate <= Fastest(c)
  BY <1>2, LargestBounds
<1> QED
  BY <1>3, <1>4

LEMMA OffsetBounds ==
  /\ Offsets \subseteq Int /\ Max(Offsets) \in Offsets /\ Min(Offsets) \in Offsets
  /\ \A offset \in Offsets : Min(Offsets) <= offset /\ offset <= Max(Offsets)
BY LimiterAssumption, MaxIsGreatest, MinIsLeast

\* A bucket that refills and has not been used for Horizon is full.
LEMMA HorizonFills ==
  ASSUME NEW c \in Clients, NEW limit \in LimitsOf[c], limit.rate > 0
  PROVE  (Horizon + 0) * limit.rate >= limit.capacity * One
BY LimiterAssumption DEF Limits

LEMMA MostAllowedBounds ==
  ASSUME NEW c \in Clients, backend \in {"local", "redis"}
  PROVE  /\ Ahead \in Nat /\ Speed \in Nat \ {0} /\ MostAllowed(c) \in Nat
         /\ MostAllowed(c) = Largest(c) * One + Ahead * Fastest(c)
         /\ Largest(c) * One \in Nat /\ Ahead * Fastest(c) \in Nat
<1>1. Ahead \in Nat
  <2>1. MaxLag \in Nat
    BY LimiterAssumption
  <2>2. Max(Offsets) - Min(Offsets) \in Nat
    <3>1. Max(Offsets) \in Offsets /\ Min(Offsets) \in Offsets
      BY OffsetBounds
    <3>2. Max(Offsets) \in Int /\ Min(Offsets) \in Int /\ Min(Offsets) <= Max(Offsets)
      BY <3>1, OffsetBounds
    <3> QED
      BY <3>2
  <2> QED
    BY <2>1, <2>2 DEF Ahead
<1>2. Speed \in Nat \ {0}
  BY DEF Speed
<1>3. Largest(c) * One \in Nat /\ Ahead * Fastest(c) \in Nat
  BY <1>1, LargestBounds, LimiterAssumption
<1> QED
  BY <1>1, <1>2, <1>3 DEF MostAllowed
-----------------------------------------------------------------------------
(* The invariant.  In Redis a bucket may be read by a clock that is ahead  *)
(* of the one it was written by: what it can give is counted at the        *)
(* fastest clock.                                                          *)

Slack == IF backend = "local" THEN 0 ELSE Max(Offsets)
Honest(c) == backend = "local" \/ Steady(c)

LimiterTypes ==
  /\ backend \in {"local", "redis"}
  /\ known \subseteq Clients
  /\ tokens \in [Clients -> Nat]
  /\ age \in [Clients -> Int]
  /\ allowance \in [Clients -> Int]
  /\ promise \in [Clients -> PromiseType]

AgeIsRead(c) == c \in known => age[c] + Slack \in Nat

LEMMA SlackIsInt == Slack \in Int /\ Slack \in Offsets \cup {0}
<1>1. Max(Offsets) \in Int /\ Max(Offsets) \in Offsets
  BY OffsetBounds
<1> QED
  BY <1>1 DEF Slack

\* The allowance covers what the bucket can give.
Covered(c) ==
  /\ allowance[c] <= MostAllowed(c)
  /\ Honest(c) =>
       IF c \in known
         THEN allowance[c] >= Least(MostAllowed(c),
                                    tokens[c] + (age[c] + Slack) * Fastest(c))
         ELSE allowance[c] = MostAllowed(c)

\* What is left of the wait covers what the bucket lacks.
Returns(c) ==
  LET p == promise[c]
  IN p.pending /\ backend = "local" /\ p.limit.capacity > 0 =>
       /\ c \in known /\ p.limit \in LimitsOf[c] /\ p.limit.rate > 0
       /\ tokens[c] + (age[c] + p.left) * p.limit.rate >= One

ClientInv(c) == AgeIsRead(c) /\ Covered(c) /\ Returns(c)
LimiterInv == LimiterTypes /\ \A c \in Clients : ClientInv(c)

\* What the runs check follows.
LEMMA InvImpliesAllowance == LimiterInv => AllowanceKept
<1> SUFFICES ASSUME LimiterInv, NEW c \in Clients, Honest(c) PROVE allowance[c] >= 0
  BY DEF AllowanceKept, Honest
<1>1. MostAllowed(c) \in Nat
  BY MostAllowedBounds DEF LimiterInv, LimiterTypes
<1>2. CASE c \notin known
  BY <1>1, <1>2 DEF LimiterInv, ClientInv, Covered
<1>3. CASE c \in known
  <2>1. (age[c] + Slack) * Fastest(c) \in Nat
    BY <1>3, LargestBounds DEF LimiterInv, ClientInv, AgeIsRead
  <2>2. tokens[c] \in Nat /\ allowance[c] \in Int
    BY DEF LimiterInv, LimiterTypes
  <2> QED
    BY <1>1, <1>3, <2>1, <2>2 DEF LimiterInv, ClientInv, Covered, Least
<1> QED
  BY <1>2, <1>3

LEMMA FullIsEnough ==
  ASSUME NEW limit \in LimitType, limit.capacity > 0
  PROVE  limit.capacity * One >= One /\ limit.capacity * One \in Nat
<1>1. 1 \in Nat /\ limit.capacity \in Nat /\ 1 <= limit.capacity /\ One \in Nat
  BY LimiterAssumption DEF LimitType
<1>2. One * 1 <= One * limit.capacity /\ One * limit.capacity \in Nat
  BY <1>1, ProductGrows
<1> QED
  BY <1>1, <1>2

LEMMA InvImpliesWait == LimiterInv => WaitIsEnough
<1> SUFFICES ASSUME LimiterInv, NEW c \in Clients, backend = "local", promise[c].pending,
                    promise[c].left = 0, promise[c].limit.capacity > 0
             PROVE  Level(c, promise[c].limit, age[c]) >= One
  BY DEF WaitIsEnough
<1> DEFINE limit == promise[c].limit
<1>1. c \in known /\ limit \in LimitsOf[c] /\ tokens[c] + (age[c] + 0) * limit.rate >= One
  BY DEF LimiterInv, ClientInv, Returns
<1>2. limit \in LimitType /\ age[c] \in Int /\ tokens[c] \in Nat
  BY DEF LimiterInv, LimiterTypes, PromiseType
<1>3. tokens[c] + age[c] * limit.rate >= One
  BY <1>1, <1>2
<1>4. limit.capacity * One >= One
  BY <1>2, FullIsEnough
<1> QED
  BY <1>1, <1>3, <1>4 DEF Level, Least
-----------------------------------------------------------------------------
(* One client that no call is about: time passes for its bucket.           *)

Ages(x, n) ==
  /\ backend' = backend /\ (x \in known' <=> x \in known)
  /\ tokens'[x] = tokens[x] /\ age'[x] = Older(x, n)
  /\ allowance'[x] = Refreshed(x, n)

Passes(x, n) == Ages(x, n) /\ promise'[x] = CountDown(promise[x], n)

LEMMA OlderBounds ==
  ASSUME LimiterTypes, NEW x \in Clients, AgeIsRead(x), x \in known, NEW n \in Nat
  PROVE  /\ Older(x, n) \in Int /\ Older(x, n) <= age[x] + n
         /\ Older(x, n) + Slack \in Nat
         /\ Older(x, n) # age[x] + n => Older(x, n) = Horizon
<1>1. age[x] \in Int /\ age[x] + Slack \in Nat /\ Horizon \in Nat /\ Slack \in Int
  BY LimiterAssumption, SlackIsInt DEF LimiterTypes, AgeIsRead
<1>2. Horizon + Slack \in Nat
  BY SlackIsInt, LimiterAssumption
<1> QED
  BY <1>1, <1>2 DEF Older, Least

LEMMA RefreshedBounds ==
  ASSUME LimiterTypes, NEW x \in Clients, NEW n \in Nat
  PROVE  /\ Refreshed(x, n) \in Int /\ Refreshed(x, n) <= MostAllowed(x)
         /\ Refreshed(x, n) = Least(MostAllowed(x),
                                    allowance[x] + (n * Speed) * Fastest(x))
         /\ (n * Speed) * Fastest(x) \in Nat
         /\ (n * Speed) * Fastest(x) >= n * Fastest(x)
         /\ n * Fastest(x) \in Nat
<1>1. /\ MostAllowed(x) \in Nat /\ Speed \in Nat \ {0} /\ Fastest(x) \in Nat
      /\ allowance[x] \in Int
  BY MostAllowedBounds, LargestBounds DEF LimiterTypes
<1>2. Refreshed(x, n) = Least(MostAllowed(x),
                              allowance[x] + (n * Speed) * Fastest(x))
  BY DEF Refreshed
<1>3. /\ (n * Speed) * Fastest(x) \in Nat
      /\ (n * Speed) * Fastest(x) >= n * Fastest(x)
      /\ n * Fastest(x) \in Nat
  <2>1. n * 1 <= n * Speed /\ n * Speed \in Nat
    BY <1>1, ProductGrows
  <2>2. Fastest(x) * n <= Fastest(x) * (n * Speed)
    BY <1>1, <2>1, ProductGrows
  <2> QED
    BY <1>1, <2>1, <2>2
<1>4. (n * Speed) * Fastest(x) \in Nat
  BY <1>3
<1> HIDE DEF Least
<1> QED
  <2> DEFINE gain == (n * Speed) * Fastest(x)
  <2>1. Least(MostAllowed(x), allowance[x] + gain) \in Int
    BY <1>1, <1>4 DEF Least
  <2>2. Least(MostAllowed(x), allowance[x] + gain) <= MostAllowed(x)
    BY <1>1, <1>4 DEF Least
  <2> QED
    BY <1>2, <1>3, <2>1, <2>2

LEMMA TimeKeepsCover ==
  ASSUME LimiterInv, NEW x \in Clients, NEW n \in Nat, Ages(x, n)
  PROVE  AgeIsRead(x)' /\ Covered(x)'
<1> DEFINE R == Fastest(x)
           M == MostAllowed(x)
<1>1. LimiterTypes /\ AgeIsRead(x) /\ Covered(x)
  BY DEF LimiterInv, ClientInv
<1>2. /\ Slack' = Slack /\ MostAllowed(x)' = M /\ (Honest(x)' <=> Honest(x))
  BY DEF Ages, Slack, MostAllowed, Ahead, Honest
<1>3. AgeIsRead(x)'
  BY <1>1, <1>2, OlderBounds DEF Ages, AgeIsRead
<1>4. allowance'[x] <= M
  BY <1>1, RefreshedBounds DEF Ages
<1>5. R \in Nat /\ M \in Nat /\ allowance[x] \in Int /\ tokens[x] \in Nat
  BY <1>1, MostAllowedBounds, LargestBounds DEF LimiterTypes
<1>6. ASSUME Honest(x), x \notin known PROVE allowance'[x] = M
  <2>1. allowance[x] = M
    BY <1>1, <1>6 DEF Covered
  <2> QED
    BY <2>1, <1>1, <1>5, RefreshedBounds DEF Ages, Least
<1>7. ASSUME Honest(x), x \in known
      PROVE  allowance'[x] >= Least(M, tokens[x] + (age'[x] + Slack) * R)
  <2> DEFINE old == (age[x] + Slack) * R
             new == (age'[x] + Slack) * R
             gain == (n * Speed) * R
  <2>1. allowance[x] >= Least(M, tokens[x] + old)
    BY <1>1, <1>7 DEF Covered
  <2>2. old \in Nat /\ new \in Nat /\ new <= old + n * R
    <3> DEFINE e == age[x] + Slack
               f == age'[x] + Slack
    <3>1. e \in Nat /\ f \in Nat /\ f <= e + n
      <4>1. age[x] \in Int /\ Slack \in Int
        BY <1>1, SlackIsInt DEF LimiterTypes
      <4> QED
        BY <4>1, <1>1, <1>7, OlderBounds DEF AgeIsRead, Ages
    <3> HIDE DEF e, f
    <3>2. R * f <= R * (e + n) /\ R * f \in Nat
      BY <3>1, <1>5, ProductGrows
    <3>3. R * (e + n) = e * R + n * R /\ R * f = f * R /\ e * R \in Nat
      BY <3>1, <1>5
    <3> QED
      BY <3>2, <3>3 DEF e, f
  <2>3. gain \in Nat /\ gain >= n * R /\ n * R \in Nat
    BY <1>1, RefreshedBounds
  <2>4. allowance'[x] = Least(M, allowance[x] + gain)
    BY <1>1, RefreshedBounds DEF Ages
  <2> HIDE DEF old, new, gain, M, R
  <2>5. allowance'[x] >= Least(M, tokens[x] + new)
    BY <1>5, <2>1, <2>2, <2>3, <2>4 DEF Least
  <2> QED
    BY <2>5 DEF new, M, R
<1> QED
  BY <1>2, <1>3, <1>4, <1>6, <1>7 DEF Covered, Ages

LEMMA TimeKeepsReturn ==
  ASSUME LimiterInv, NEW x \in Clients, NEW n \in Nat, Passes(x, n)
  PROVE  Returns(x)'
<1> DEFINE p == promise[x]
           q == CountDown(p, n)
<1>1. LimiterTypes /\ AgeIsRead(x) /\ Returns(x)
  BY DEF LimiterInv, ClientInv
<1>2. p \in PromiseType
  BY <1>1 DEF LimiterTypes
<1>3. /\ q = [p EXCEPT !.left = IF p.left > n THEN p.left - n ELSE 0]
      /\ q.pending = p.pending /\ q.limit = p.limit
      /\ q.left = IF p.left > n THEN p.left - n ELSE 0
  BY <1>2 DEF CountDown, PromiseType
<1>4. promise'[x] = q
  BY DEF Passes
<1> HIDE DEF q
<1>5. SUFFICES ASSUME p.pending, backend = "local", p.limit.capacity > 0
               PROVE  /\ x \in known' /\ p.limit \in LimitsOf[x] /\ p.limit.rate > 0
                      /\ tokens'[x] + (age'[x] + q.left) * p.limit.rate >= One
  BY <1>3, <1>4 DEF Returns, Passes, Ages
<1>6. /\ x \in known /\ p.limit \in LimitsOf[x] /\ p.limit.rate > 0
      /\ tokens[x] + (age[x] + p.left) * p.limit.rate >= One
  BY <1>1, <1>5 DEF Returns
<1>7. /\ p.left \in Nat /\ p.limit.rate \in Nat /\ tokens[x] \in Nat /\ age[x] \in Nat
      /\ q.left \in Nat /\ q.left >= p.left - n /\ One \in Nat
  BY <1>1, <1>2, <1>3, <1>5, <1>6, LimiterAssumption
     DEF LimiterTypes, PromiseType, LimitType, AgeIsRead, Slack
<1>8. /\ age'[x] \in Int /\ age'[x] \in Nat
      /\ age'[x] = age[x] + n \/ age'[x] = Horizon
  BY <1>1, <1>5, <1>6, <1>7, OlderBounds DEF Passes, Ages, Slack
<1>9. CASE age'[x] = age[x] + n
  <2>1. age[x] + p.left \in Nat /\ age'[x] + q.left \in Nat /\ age[x] + p.left <= age'[x] + q.left
    BY <1>7, <1>8, <1>9
  <2>2. p.limit.rate * (age[x] + p.left) <= p.limit.rate * (age'[x] + q.left)
    BY <1>7, <2>1, ProductGrows
  <2>3. /\ p.limit.rate * (age[x] + p.left) = (age[x] + p.left) * p.limit.rate
        /\ p.limit.rate * (age'[x] + q.left) = (age'[x] + q.left) * p.limit.rate
        /\ (age[x] + p.left) * p.limit.rate \in Nat /\ (age'[x] + q.left) * p.limit.rate \in Nat
    BY <1>7, <2>1
  <2> QED
    BY <1>6, <1>7, <2>2, <2>3 DEF Passes, Ages
<1>10. CASE age'[x] = Horizon
  <2>1. (Horizon + 0) * p.limit.rate >= p.limit.capacity * One
    BY <1>6, HorizonFills
  <2>2. p.limit.capacity * One >= One /\ p.limit.capacity * One \in Nat
    BY <1>2, <1>5, FullIsEnough DEF PromiseType
  <2>3. p.limit.rate * (Horizon + 0) <= p.limit.rate * (age'[x] + q.left)
    BY <1>7, <1>8, <1>10, ProductGrows
  <2>4. /\ p.limit.rate * (Horizon + 0) = (Horizon + 0) * p.limit.rate
        /\ p.limit.rate * (age'[x] + q.left) = (age'[x] + q.left) * p.limit.rate
        /\ (Horizon + 0) * p.limit.rate \in Nat /\ (age'[x] + q.left) * p.limit.rate \in Nat
    BY <1>7, <1>8, <1>10
  <2> QED
    BY <1>6, <1>7, <2>1, <2>2, <2>3, <2>4 DEF Passes, Ages
<1> QED
  BY <1>5, <1>6, <1>8, <1>9, <1>10 DEF Passes, Ages
-----------------------------------------------------------------------------
(* The client that a call is about.                                        *)

LEMMA LevelBounds ==
  ASSUME LimiterTypes, NEW c \in Clients, NEW limit \in LimitsOf[c], NEW e \in Int
  PROVE  /\ Level(c, limit, e) \in Int
         /\ Level(c, limit, e) <= limit.capacity * One
         /\ limit.capacity * One <= Largest(c) * One
         /\ c \in known => Level(c, limit, e) <= tokens[c] + e * limit.rate
<1>1. /\ limit \in LimitType /\ One \in Nat /\ tokens[c] \in Nat
      /\ limit.capacity <= Largest(c) /\ Largest(c) \in Nat
  BY LargestBounds, LimiterAssumption DEF LimiterTypes
<1>2. /\ limit.capacity \in Nat /\ limit.rate \in Int
      /\ limit.capacity * One \in Nat /\ e * limit.rate \in Int
  BY <1>1 DEF LimitType
<1>3. One * limit.capacity <= One * Largest(c)
  BY <1>1, <1>2, ProductGrows
<1> QED
  BY <1>1, <1>2, <1>3 DEF Level, Least

\* A token is paid: what the call refills and what it leaves to be refilled
\* again is no more than what the allowance gains.
LEMMA PayingKeepsCover ==
  ASSUME LimiterInv, NEW c \in Clients, NEW limit \in LimitsOf[c],
         NEW e \in Int, NEW stamp \in Int, NEW n \in Nat,
         Level(c, limit, e) >= One, backend' = backend, c \in known',
         tokens'[c] = Level(c, limit, e) - One, age'[c] = stamp,
         allowance'[c] = Spent(Refreshed(c, n)),
         stamp + Slack \in Nat, stamp + Slack <= Ahead,
         Honest(c) /\ c \in known =>
           e * limit.rate + (stamp + Slack) * Fastest(c)
             <= (age[c] + Slack) * Fastest(c) + (n * Speed) * Fastest(c)
  PROVE  AgeIsRead(c)' /\ Covered(c)'
<1> DEFINE R == Fastest(c)
           M == MostAllowed(c)
           full == Largest(c) * One
           level == Level(c, limit, e)
           back == (stamp + Slack) * R
           gain == (n * Speed) * R
           old == (age[c] + Slack) * R
<1>1. LimiterTypes /\ AgeIsRead(c) /\ Covered(c)
  BY DEF LimiterInv, ClientInv
<1>2. Slack' = Slack /\ MostAllowed(c)' = M /\ (Honest(c)' <=> Honest(c))
  BY DEF Slack, MostAllowed, Ahead, Honest
<1>3. AgeIsRead(c)'
  BY <1>2 DEF AgeIsRead
<1>4. /\ R \in Nat /\ M \in Nat /\ full \in Nat /\ allowance[c] \in Int /\ tokens[c] \in Nat
      /\ One \in Nat /\ M = full + Ahead * R /\ Ahead * R \in Nat /\ Ahead \in Nat
  BY <1>1, MostAllowedBounds, LargestBounds, LimiterAssumption DEF LimiterTypes
<1>5. level \in Int /\ level <= full /\ (c \in known => level <= tokens[c] + e * limit.rate)
  <2>1. limit.capacity * One \in Int
    BY LargestBounds, LimiterAssumption DEF LimitType
  <2> QED
    BY <1>1, <1>4, <2>1, LevelBounds
<1>6. back \in Nat /\ back <= Ahead * R
  <2>1. R * (stamp + Slack) <= R * Ahead
    BY <1>4, ProductGrows
  <2>2. stamp + Slack \in Nat
    OBVIOUS
  <2> HIDE DEF R
  <2>3. R * (stamp + Slack) = (stamp + Slack) * R /\ R * Ahead = Ahead * R
    BY <1>4, <2>2
  <2>4. (stamp + Slack) * R \in Nat
    BY <1>4, <2>2
  <2> QED
    BY <2>1, <2>3, <2>4
<1>7. /\ gain \in Nat /\ Refreshed(c, n) = Least(M, allowance[c] + gain)
      /\ Refreshed(c, n) <= M /\ Refreshed(c, n) \in Int
  BY <1>1, RefreshedBounds
<1>8. allowance'[c] \in Int /\ allowance'[c] <= M /\ allowance'[c] >= Refreshed(c, n) - One
  BY <1>4, <1>7 DEF Spent
<1>9. ASSUME Honest(c)
      PROVE  allowance'[c] >= Least(M, tokens'[c] + back)
  <2>1. CASE c \notin known
    <3>1. allowance[c] = M
      BY <1>1, <1>9, <2>1 DEF Covered
    <3> HIDE DEF M, back, gain, full, level
    <3> QED
      BY <3>1, <1>4, <1>5, <1>6, <1>7, <1>8 DEF Least, level, Spent
  <2>2. CASE c \in known
    <3>1. allowance[c] >= Least(M, tokens[c] + old)
      BY <1>1, <1>9, <2>2 DEF Covered
    <3>2. old \in Nat
      BY <1>1, <1>4, <2>2 DEF AgeIsRead
    <3>3. e * limit.rate + back <= old + gain
      BY <1>9, <2>2
    <3>6. level <= tokens[c] + e * limit.rate
      BY <1>5, <2>2
    <3>7. M = full + Ahead * R
      BY <1>4
    <3> DEFINE refill == e * limit.rate
               most == Ahead * R
    <3>4. refill \in Int
      BY LargestBounds DEF LimitType
    <3>5. tokens'[c] = level - One /\ allowance'[c] >= Refreshed(c, n) - One
      BY <1>8
    <3>8. /\ refill + back <= old + gain /\ level <= tokens[c] + refill
          /\ M = full + most /\ back <= most
      BY <3>3, <3>6, <3>7, <1>6
    <3>9. /\ M \in Nat /\ full \in Nat /\ most \in Nat /\ allowance[c] \in Int
          /\ tokens[c] \in Nat /\ One \in Nat
      BY <1>4
    <3> HIDE DEF M, back, gain, full, level, old, R, refill, most
    <3> QED
      BY <3>1, <3>2, <3>4, <3>5, <3>8, <3>9, <1>5, <1>6, <1>7, <1>8 DEF Least
  <2> QED
    BY <2>1, <2>2
<1> QED
  BY <1>2, <1>3, <1>8, <1>9 DEF Covered
-----------------------------------------------------------------------------
(* The operations.                                                         *)

LEMMA AccountBooks ==
  ASSUME LimiterTypes, NEW c \in Clients, NEW limit \in LimitsOf[c], NEW admitted \in BOOLEAN,
         NEW wait \in Nat, NEW n \in Nat, Account(c, admitted, wait, limit, n)
  PROVE  /\ allowance' \in [Clients -> Int] /\ promise' \in [Clients -> PromiseType]
         /\ \A x \in Clients \ {c} : /\ allowance'[x] = Refreshed(x, n)
                                     /\ promise'[x] = CountDown(promise[x], n)
         /\ allowance'[c] = (IF admitted THEN Spent(Refreshed(c, n)) ELSE Refreshed(c, n))
         /\ promise'[c] = IF admitted \/ limit.rate <= 0 THEN NoPromise
                          ELSE [pending |-> TRUE, left |-> wait * TicksPerSecond, limit |-> limit]
<1>1. \A x \in Clients : Refreshed(x, n) \in Int
  BY RefreshedBounds
<1>2. One \in Int /\ TicksPerSecond \in Nat /\ wait * TicksPerSecond \in Nat /\ limit \in LimitType
  BY LargestBounds, LimiterAssumption
<1>3. \A x \in Clients : allowance'[x] = IF x = c /\ admitted THEN Spent(Refreshed(x, n))
                                                              ELSE Refreshed(x, n)
  BY DEF Account
<1>4. allowance' \in [Clients -> Int]
  <2>1. \A x \in Clients : Spent(Refreshed(x, n)) \in Int
    BY <1>1, <1>2 DEF Spent
  <2> QED
    BY <1>1, <2>1 DEF Account
<1>5. \A x \in Clients \ {c} : allowance'[x] = Refreshed(x, n)
  BY <1>1, <1>3
<1>6. ASSUME NEW x \in Clients PROVE CountDown(promise[x], n) \in PromiseType
  <2>1. promise[x] \in PromiseType
    BY DEF LimiterTypes
  <2> QED
    BY <2>1 DEF CountDown, PromiseType
<1>7. NoPromise \in PromiseType
  BY DEF NoPromise, PromiseType, LimitType
<1>8. [pending |-> TRUE, left |-> wait * TicksPerSecond, limit |-> limit] \in PromiseType
  BY <1>2 DEF PromiseType
<1>9. promise' \in [Clients -> PromiseType]
  BY <1>6, <1>7, <1>8 DEF Account
<1>10. /\ \A x \in Clients \ {c} : promise'[x] = CountDown(promise[x], n)
       /\ promise'[c] = IF admitted \/ limit.rate <= 0 THEN NoPromise
                        ELSE [pending |-> TRUE, left |-> wait * TicksPerSecond, limit |-> limit]
  BY DEF Account
<1> QED
  BY <1>3, <1>4, <1>5, <1>9, <1>10

LEMMA PaidBooks ==
  ASSUME LimiterTypes, NEW c \in Clients, NEW limit \in LimitsOf[c], NEW n \in Nat,
         Account(c, TRUE, 0, limit, n)
  PROVE  /\ allowance' \in [Clients -> Int] /\ promise' \in [Clients -> PromiseType]
         /\ \A x \in Clients \ {c} : /\ allowance'[x] = Refreshed(x, n)
                                     /\ promise'[x] = CountDown(promise[x], n)
         /\ allowance'[c] = Spent(Refreshed(c, n)) /\ promise'[c] = NoPromise
<1>1. \A admitted \in BOOLEAN, wait \in Nat :
        Account(c, admitted, wait, limit, n) =>
          /\ allowance' \in [Clients -> Int] /\ promise' \in [Clients -> PromiseType]
          /\ \A x \in Clients \ {c} : /\ allowance'[x] = Refreshed(x, n)
                                      /\ promise'[x] = CountDown(promise[x], n)
          /\ allowance'[c] = (IF admitted THEN Spent(Refreshed(c, n)) ELSE Refreshed(c, n))
          /\ promise'[c] = IF admitted \/ limit.rate <= 0 THEN NoPromise
               ELSE [pending |-> TRUE, left |-> wait * TicksPerSecond, limit |-> limit]
  BY AccountBooks
<1>2. TRUE \in BOOLEAN /\ 0 \in Nat
  OBVIOUS
<1>3. /\ allowance' \in [Clients -> Int] /\ promise' \in [Clients -> PromiseType]
      /\ \A x \in Clients \ {c} : /\ allowance'[x] = Refreshed(x, n)
                                  /\ promise'[x] = CountDown(promise[x], n)
      /\ allowance'[c] = (IF TRUE THEN Spent(Refreshed(c, n)) ELSE Refreshed(c, n))
      /\ promise'[c] = IF TRUE \/ limit.rate <= 0 THEN NoPromise
           ELSE [pending |-> TRUE, left |-> 0 * TicksPerSecond, limit |-> limit]
  BY <1>1, <1>2, Zenon
<1> QED
  BY <1>3

LEMMA RefusedBooks ==
  ASSUME LimiterTypes, NEW c \in Clients, NEW limit \in LimitsOf[c], NEW wait \in Nat,
         NEW n \in Nat, Account(c, FALSE, wait, limit, n)
  PROVE  /\ allowance' \in [Clients -> Int] /\ promise' \in [Clients -> PromiseType]
         /\ \A x \in Clients \ {c} : /\ allowance'[x] = Refreshed(x, n)
                                     /\ promise'[x] = CountDown(promise[x], n)
         /\ allowance'[c] = Refreshed(c, n)
         /\ promise'[c] = IF limit.rate <= 0 THEN NoPromise
              ELSE [pending |-> TRUE, left |-> wait * TicksPerSecond, limit |-> limit]
<1>1. \A admitted \in BOOLEAN :
        Account(c, admitted, wait, limit, n) =>
          /\ allowance' \in [Clients -> Int] /\ promise' \in [Clients -> PromiseType]
          /\ \A x \in Clients \ {c} : /\ allowance'[x] = Refreshed(x, n)
                                      /\ promise'[x] = CountDown(promise[x], n)
          /\ allowance'[c] = (IF admitted THEN Spent(Refreshed(c, n)) ELSE Refreshed(c, n))
          /\ promise'[c] = IF admitted \/ limit.rate <= 0 THEN NoPromise
               ELSE [pending |-> TRUE, left |-> wait * TicksPerSecond, limit |-> limit]
  BY AccountBooks
<1>2. FALSE \in BOOLEAN
  OBVIOUS
<1>3. /\ allowance' \in [Clients -> Int] /\ promise' \in [Clients -> PromiseType]
      /\ \A x \in Clients \ {c} : /\ allowance'[x] = Refreshed(x, n)
                                  /\ promise'[x] = CountDown(promise[x], n)
      /\ allowance'[c] = (IF FALSE THEN Spent(Refreshed(c, n)) ELSE Refreshed(c, n))
      /\ promise'[c] = IF FALSE \/ limit.rate <= 0 THEN NoPromise
           ELSE [pending |-> TRUE, left |-> wait * TicksPerSecond, limit |-> limit]
  BY <1>1, <1>2, Zenon
<1>4. Refreshed(c, n) \in Int
  BY RefreshedBounds
<1> QED
  BY <1>3, <1>4

\* The clients a call is not about.
LEMMA OthersKeep ==
  ASSUME LimiterInv, NEW c, NEW n \in Nat,
         \A x \in Clients \ {c} : Passes(x, n)
  PROVE  \A x \in Clients \ {c} : ClientInv(x)'
<1> SUFFICES ASSUME NEW x \in Clients \ {c} PROVE ClientInv(x)'
  OBVIOUS
<1>1. Passes(x, n) /\ Ages(x, n)
  BY DEF Passes
<1> QED
  BY <1>1, TimeKeepsCover, TimeKeepsReturn DEF ClientInv

LEMMA StoreKeepsTypes ==
  ASSUME LimiterTypes, NEW c \in Clients, NEW level \in Int, level >= One, NEW stamp \in Int,
         NEW n \in Nat, Store(c, level, stamp, n)
  PROVE  /\ known' \subseteq Clients /\ tokens' \in [Clients -> Nat] /\ age' \in [Clients -> Int]
         /\ c \in known' /\ tokens'[c] = level - One /\ age'[c] = stamp
         /\ \A x \in Clients \ {c} : /\ (x \in known' <=> x \in known) /\ tokens'[x] = tokens[x]
                                     /\ age'[x] = Older(x, n)
<1>1. level - One \in Nat
  BY LimiterAssumption
<1>2. \A x \in Clients : Older(x, n) \in Int
  BY LimiterAssumption DEF Older, Least, LimiterTypes
<1> QED
  BY <1>1, <1>2 DEF Store, LimiterTypes

LEMMA LocalAdmitsKeeps ==
  ASSUME LimiterInv, NEW c \in Clients, NEW limit \in LimitsOf[c], NEW lag \in 0..MaxLag,
         LocalAdmits(c, limit, lag)
  PROVE  LimiterInv'
<1> DEFINE R == Fastest(c)
           level == Level(c, limit, age[c] + lag)
<1>1. LimiterTypes /\ AgeIsRead(c) /\ lag \in Nat /\ MaxLag \in Nat /\ age[c] + lag \in Int
  BY LimiterAssumption DEF LimiterInv, ClientInv, LimiterTypes
<1>2. /\ level \in Int /\ level >= One /\ backend = "local" /\ backend' = backend
      /\ Store(c, level, lag, lag) /\ Account(c, TRUE, 0, limit, lag)
  BY <1>1, LevelBounds DEF LocalAdmits
<1> HIDE DEF level
<1>s. /\ known' \subseteq Clients /\ tokens' \in [Clients -> Nat] /\ age' \in [Clients -> Int]
      /\ c \in known' /\ tokens'[c] = level - One /\ age'[c] = lag
      /\ \A x \in Clients \ {c} : /\ (x \in known' <=> x \in known) /\ tokens'[x] = tokens[x]
                                  /\ age'[x] = Older(x, lag)
  BY <1>1, <1>2, StoreKeepsTypes
<1>a. /\ allowance' \in [Clients -> Int] /\ promise' \in [Clients -> PromiseType]
      /\ \A x \in Clients \ {c} : /\ allowance'[x] = Refreshed(x, lag)
                                  /\ promise'[x] = CountDown(promise[x], lag)
      /\ allowance'[c] = Spent(Refreshed(c, lag)) /\ promise'[c] = NoPromise
  BY <1>1, <1>2, PaidBooks
<1>3. LimiterTypes'
  BY <1>1, <1>2, <1>s, <1>a DEF LimiterTypes
<1>4. \A x \in Clients \ {c} : Passes(x, lag)
  BY <1>2, <1>s, <1>a DEF Passes, Ages
<1>5. /\ c \in known' /\ tokens'[c] = level - One /\ age'[c] = lag
      /\ allowance'[c] = Spent(Refreshed(c, lag)) /\ promise'[c] = NoPromise
  BY <1>s, <1>a
<1>6. Slack = 0 /\ Ahead = MaxLag /\ (lag > 0 => Speed = 2) /\ Speed \in Nat
  BY <1>1, <1>2 DEF Slack, Ahead, Speed
<1>7. ASSUME c \in known
      PROVE  (age[c] + lag) * limit.rate + (lag + Slack) * R
               <= (age[c] + Slack) * R + (lag * Speed) * R
  <2>1. age[c] \in Nat /\ R \in Nat /\ limit.rate \in Int /\ limit.rate <= R
    BY <1>1, <1>2, <1>6, <1>7, LargestBounds DEF AgeIsRead, LimiterTypes, LimitType
  <2>2. (age[c] + lag) * limit.rate <= (age[c] + lag) * R /\ (age[c] + lag) * limit.rate \in Int
    <3>1. age[c] + lag \in Nat
      BY <1>1, <2>1
    <3> HIDE DEF R
    <3> QED
      BY <2>1, <3>1, ProductBelow
  <2>3. lag * Speed = lag + lag
    BY <1>1, <1>6
  <2> HIDE DEF R
  <2>4. (age[c] + lag) * R + lag * R = age[c] * R + (lag + lag) * R
    BY <1>1, <2>1
  <2>5. /\ lag * R \in Nat /\ age[c] * R \in Nat /\ (lag + lag) * R \in Nat
        /\ (age[c] + lag) * R \in Nat /\ lag + Slack = lag /\ age[c] + Slack = age[c]
    BY <1>1, <1>6, <2>1
  <2> QED
    BY <2>2, <2>3, <2>4, <2>5
<1>8. AgeIsRead(c)' /\ Covered(c)'
  BY <1>1, <1>2, <1>5, <1>6, <1>7, PayingKeepsCover DEF level
<1>9. Returns(c)'
  BY <1>5 DEF Returns, NoPromise
<1> QED
  BY <1>1, <1>3, <1>4, <1>8, <1>9, OthersKeep DEF LimiterInv, ClientInv

LEMMA LocalRefusesKeeps ==
  ASSUME LimiterInv, NEW c \in Clients, NEW limit \in LimitsOf[c], NEW lag \in 0..MaxLag,
         LocalRefuses(c, limit, lag)
  PROVE  LimiterInv'
<1> DEFINE level == Level(c, limit, age[c] + lag)
           wait == Wait(level, limit)
<1>1. /\ LimiterTypes /\ AgeIsRead(c) /\ lag \in Nat /\ age[c] \in Int /\ age[c] + lag \in Int
      /\ limit \in LimitType /\ limit.capacity * One \in Nat /\ tokens[c] \in Nat
      /\ limit.capacity \in Nat /\ limit.rate \in Int
  BY LargestBounds, LimiterAssumption DEF LimiterInv, ClientInv, LimiterTypes, LimitType
<1>2. /\ level \in Int /\ level < One /\ backend = "local" /\ backend' = backend
      /\ Account(c, FALSE, wait, limit, lag)
  BY <1>1, LevelBounds DEF LocalRefuses
<1>3. wait \in Nat /\ (limit.rate > 0 => level + (wait * TicksPerSecond) * limit.rate >= One)
  BY <1>1, <1>2, WaitCovers
<1>s. /\ known' = known \cup {c} /\ tokens' \in [Clients -> Nat] /\ age' \in [Clients -> Int]
      /\ c \in known => tokens'[c] = tokens[c] /\ age'[c] = Older(c, lag)
      /\ c \notin known => age'[c] = lag
      /\ \A x \in Clients \ {c} : tokens'[x] = tokens[x] /\ age'[x] = Older(x, lag)
  <2>1. \A x \in Clients : Older(x, lag) \in Int
    BY <1>1, LimiterAssumption DEF Older, Least, LimiterTypes
  <2> QED
    BY <1>1, <2>1 DEF LocalRefuses, LimiterTypes
<1>u. c \notin known => level = limit.capacity * One
  BY DEF Level
<1> HIDE DEF level, wait
<1>a. /\ allowance' \in [Clients -> Int] /\ promise' \in [Clients -> PromiseType]
      /\ \A x \in Clients \ {c} : /\ allowance'[x] = Refreshed(x, lag)
                                  /\ promise'[x] = CountDown(promise[x], lag)
      /\ allowance'[c] = Refreshed(c, lag)
      /\ promise'[c] = IF limit.rate <= 0 THEN NoPromise ELSE [pending |-> TRUE, left |-> wait * TicksPerSecond, limit |-> limit]
  <2>1. LimiterTypes /\ lag \in Nat /\ wait \in Nat /\ Account(c, FALSE, wait, limit, lag)
    BY <1>1, <1>2, <1>3
  <2> QED
    BY <2>1, RefusedBooks, ZenonT(30)
<1>4. LimiterTypes'
  BY <1>1, <1>2, <1>s, <1>a DEF LimiterTypes
<1>5. \A x \in Clients \ {c} : Passes(x, lag)
  BY <1>2, <1>s, <1>a DEF Passes, Ages
<1>6. AgeIsRead(c)' /\ Covered(c)'
  <2>1. CASE c \in known
    <3>1. Ages(c, lag)
      BY <1>2, <1>s, <1>a, <2>1 DEF Ages
    <3> QED
      BY <1>1, <3>1, TimeKeepsCover
  <2>2. CASE c \notin known
    <3>1. Slack' = 0 /\ age'[c] = lag /\ MostAllowed(c)' = MostAllowed(c)
      BY <1>2, <1>s, <2>2 DEF Slack, MostAllowed, Ahead
    <3>2. allowance[c] = MostAllowed(c)
      BY <1>2, <2>2 DEF LimiterInv, ClientInv, Covered, Honest
    <3>3. MostAllowed(c) \in Nat /\ allowance[c] \in Int
      BY <1>1, MostAllowedBounds DEF LimiterTypes
    <3>4. allowance'[c] = MostAllowed(c)
      BY <1>1, <1>a, <3>2, <3>3, RefreshedBounds DEF Least
    <3>5. c \in known' /\ tokens'[c] \in Nat /\ (age'[c] + Slack') * Fastest(c) \in Nat
      BY <1>1, <1>s, <3>1, LargestBounds
    <3> QED
      BY <1>1, <3>1, <3>3, <3>4, <3>5 DEF AgeIsRead, Covered, Least
  <2> QED
    BY <2>1, <2>2
<1>7. Returns(c)'
  <2>0. CASE limit.rate <= 0
    BY <1>a, <2>0 DEF Returns, NoPromise
  <2>1. SUFFICES ASSUME limit.capacity > 0, limit.rate > 0
                 PROVE  c \in known' /\ tokens'[c] + (age'[c] + wait * TicksPerSecond) * limit.rate >= One
    BY <1>1, <1>a, <2>0 DEF Returns
  <2>2. limit.capacity * One >= One
    BY <1>1, <2>1, FullIsEnough
  <2>3. c \in known
    BY <1>1, <1>2, <1>u, <2>2, LimiterAssumption
  <2>4. level <= tokens[c] + (age[c] + lag) * limit.rate
    BY <1>1, <2>3, LevelBounds DEF level
  <2> DEFINE left == wait * TicksPerSecond
  <2>5. left \in Nat /\ One \in Nat /\ Horizon \in Nat
    BY <1>3, LimiterAssumption
  <2>6. age'[c] \in Int /\ age[c] \in Nat /\ (age'[c] = age[c] + lag \/ age'[c] = Horizon)
    BY <1>1, <1>2, <1>s, <2>3, OlderBounds DEF AgeIsRead, Slack
  <2> HIDE DEF left
  <2>7. CASE age'[c] = age[c] + lag
    <3>1. (age'[c] + left) * limit.rate = (age[c] + lag) * limit.rate + left * limit.rate
      BY <1>1, <2>5, <2>6, <2>7
    <3>2. /\ (age'[c] + left) * limit.rate \in Int /\ (age[c] + lag) * limit.rate \in Int
          /\ left * limit.rate \in Int
      BY <1>1, <2>5, <2>6
    <3>3. level + left * limit.rate >= One
      BY <1>3, <2>1 DEF left
    <3>4. tokens'[c] + (age'[c] + left) * limit.rate >= One
      BY <1>1, <1>2, <1>s, <2>3, <2>4, <2>5, <3>1, <3>2, <3>3
    <3> QED
      BY <1>s, <3>4 DEF left
  <2>8. CASE age'[c] = Horizon
    <3>1. (Horizon + 0) * limit.rate >= limit.capacity * One
      BY <2>1, HorizonFills
    <3>2. limit.rate * (Horizon + 0) <= limit.rate * (Horizon + left)
      BY <1>1, <2>1, <2>5, ProductGrows
    <3>3. /\ limit.rate * (Horizon + 0) = (Horizon + 0) * limit.rate
          /\ limit.rate * (Horizon + left) = (Horizon + left) * limit.rate
          /\ (Horizon + left) * limit.rate \in Int /\ (Horizon + 0) * limit.rate \in Int
      BY <1>1, <2>5
    <3>4. tokens'[c] + (Horizon + left) * limit.rate >= One
      BY <1>1, <1>s, <2>2, <2>3, <2>5, <3>1, <3>2, <3>3
    <3> QED
      BY <1>s, <2>8, <3>4 DEF left
  <2> QED
    BY <2>6, <2>7, <2>8
<1> QED
  BY <1>1, <1>4, <1>5, <1>6, <1>7, OthersKeep DEF LimiterInv, ClientInv

LEMMA RedisAdmitsKeeps ==
  ASSUME LimiterInv, NEW c \in Clients, NEW limit \in LimitsOf[c], NEW offset \in Offsets,
         RedisAdmits(c, limit, offset)
  PROVE  LimiterInv'
<1> DEFINE R == Fastest(c)
           level == Level(c, limit, age[c] + offset)
<1>0. /\ offset \in Int /\ offset <= Max(Offsets) /\ Min(Offsets) <= offset
      /\ Max(Offsets) \in Int /\ Min(Offsets) \in Int
  BY OffsetBounds
<1>1. /\ LimiterTypes /\ AgeIsRead(c) /\ age[c] \in Int /\ offset \in Int /\ -offset \in Int
      /\ age[c] + offset \in Int /\ offset <= Max(Offsets) /\ Min(Offsets) <= offset
      /\ Max(Offsets) \in Int /\ Min(Offsets) \in Int
  BY <1>0 DEF LimiterInv, ClientInv, LimiterTypes
<1>2. /\ level \in Int /\ level >= One /\ backend = "redis" /\ backend' = backend
      /\ Store(c, level, -offset, 0) /\ Account(c, TRUE, 0, limit, 0)
  BY <1>1, LevelBounds DEF RedisAdmits
<1> HIDE DEF level
<1>s. /\ known' \subseteq Clients /\ tokens' \in [Clients -> Nat] /\ age' \in [Clients -> Int]
      /\ c \in known' /\ tokens'[c] = level - One /\ age'[c] = -offset
      /\ \A x \in Clients \ {c} : /\ (x \in known' <=> x \in known) /\ tokens'[x] = tokens[x]
                                  /\ age'[x] = Older(x, 0)
  BY <1>1, <1>2, StoreKeepsTypes
<1>a. /\ allowance' \in [Clients -> Int] /\ promise' \in [Clients -> PromiseType]
      /\ \A x \in Clients \ {c} : /\ allowance'[x] = Refreshed(x, 0)
                                  /\ promise'[x] = CountDown(promise[x], 0)
      /\ allowance'[c] = Spent(Refreshed(c, 0)) /\ promise'[c] = NoPromise
  BY <1>1, <1>2, PaidBooks
<1>3. LimiterTypes'
  BY <1>1, <1>2, <1>s, <1>a DEF LimiterTypes
<1>4. \A x \in Clients \ {c} : Passes(x, 0)
  BY <1>2, <1>s, <1>a DEF Passes, Ages
<1>5. /\ Slack = Max(Offsets) /\ Ahead = Max(Offsets) - Min(Offsets)
      /\ -offset + Slack \in Nat /\ -offset + Slack <= Ahead
  BY <1>1, <1>2 DEF Slack, Ahead
<1>6. ASSUME Honest(c), c \in known
      PROVE  (age[c] + offset) * limit.rate + (-offset + Slack) * R
               <= (age[c] + Slack) * R + (0 * Speed) * R
  <2>1. limit.rate = R /\ R \in Int /\ Speed \in Int
    BY <1>1, <1>2, <1>6, RateIsOne, LargestBounds, MostAllowedBounds
       DEF Honest, LimiterTypes
  <2> HIDE DEF R
  <2>2. (age[c] + offset) * R + (-offset + Slack) * R
          = ((age[c] + offset) + (-offset + Slack)) * R
    BY <1>1, <1>5, <2>1, Distributes
  <2>3. (age[c] + offset) + (-offset + Slack) = age[c] + Slack
    BY <1>1, <1>5
  <2>4. (0 * Speed) * R = 0 /\ (age[c] + Slack) * R \in Int
    BY <1>1, <1>5, <2>1
  <2> QED
    BY <2>1, <2>2, <2>3, <2>4
<1>7. AgeIsRead(c)' /\ Covered(c)'
  BY <1>1, <1>2, <1>s, <1>a, <1>5, <1>6, PayingKeepsCover DEF level
<1>8. Returns(c)'
  BY <1>a DEF Returns, NoPromise
<1> QED
  BY <1>1, <1>3, <1>4, <1>7, <1>8, OthersKeep DEF LimiterInv, ClientInv

LEMMA RedisRefusesKeeps ==
  ASSUME LimiterInv, NEW c \in Clients, NEW limit \in LimitsOf[c], NEW offset \in Offsets,
         RedisRefuses(c, limit, offset)
  PROVE  LimiterInv'
<1> DEFINE level == Level(c, limit, age[c] + offset)
           wait == Wait(level, limit)
<1>1. /\ LimiterTypes /\ age[c] + offset \in Int /\ limit \in LimitType
  BY OffsetBounds, LargestBounds DEF LimiterInv, LimiterTypes
<1>2. /\ level \in Int /\ level < One /\ backend = "redis" /\ backend' = backend
      /\ Account(c, FALSE, wait, limit, 0) /\ UNCHANGED <<known, tokens, age>>
  BY <1>1, LevelBounds DEF RedisRefuses, bucketVars
<1>3. wait \in Nat
  BY <1>1, <1>2, WaitCovers
<1> HIDE DEF level, wait
<1>a. /\ allowance' \in [Clients -> Int] /\ promise' \in [Clients -> PromiseType]
      /\ \A x \in Clients : allowance'[x] = Refreshed(x, 0)
  <2>1. /\ allowance' \in [Clients -> Int] /\ promise' \in [Clients -> PromiseType]
        /\ \A x \in Clients \ {c} : /\ allowance'[x] = Refreshed(x, 0)
                                    /\ promise'[x] = CountDown(promise[x], 0)
        /\ allowance'[c] = Refreshed(c, 0)
        /\ promise'[c] = IF limit.rate <= 0 THEN NoPromise
             ELSE [pending |-> TRUE, left |-> wait * TicksPerSecond, limit |-> limit]
    <3>1. LimiterTypes /\ 0 \in Nat /\ wait \in Nat /\ Account(c, FALSE, wait, limit, 0)
      BY <1>1, <1>2, <1>3
    <3> QED
      BY <3>1, RefusedBooks, ZenonT(30)
  <2> QED
    BY <2>1
<1>4. LimiterTypes'
  BY <1>1, <1>2, <1>a DEF LimiterTypes
<1>5. ASSUME NEW x \in Clients PROVE ClientInv(x)'
  <2>1. AgeIsRead(x) /\ Covered(x) /\ allowance[x] <= MostAllowed(x)
    BY DEF LimiterInv, ClientInv, Covered
  <2>2. allowance'[x] = allowance[x]
    <3>1. allowance[x] \in Int /\ MostAllowed(x) \in Nat
      BY <1>1, MostAllowedBounds DEF LimiterTypes
    <3>2. (0 * Speed) * Fastest(x) = 0
      BY <1>1, MostAllowedBounds, LargestBounds DEF LimiterTypes
    <3>3. Refreshed(x, 0) = Least(MostAllowed(x), allowance[x] + 0)
      BY <1>1, <3>2, RefreshedBounds
    <3> QED
      BY <1>a, <2>1, <3>1, <3>3 DEF Least
  <2> QED
    BY <1>2, <2>1, <2>2
       DEF ClientInv, AgeIsRead, Covered, Returns, Slack, MostAllowed, Ahead, Honest
<1> QED
  BY <1>4, <1>5 DEF LimiterInv

LEMMA ExpireKeeps ==
  ASSUME LimiterInv, NEW c \in Clients, Expire(c)
  PROVE  LimiterInv'
<1>1. /\ LimiterTypes /\ AgeIsRead(c) /\ Covered(c) /\ c \in known
      /\ backend = "redis" /\ \E offset \in Offsets : age[c] + offset = Expiry
      /\ known' = known \ {c} /\ UNCHANGED <<backend, promise>>
      /\ tokens' = [tokens EXCEPT ![c] = 0] /\ age' = [age EXCEPT ![c] = 0]
      /\ allowance' =
           [allowance EXCEPT ![c] = IF FillsInTime(c) THEN allowance[c] ELSE MostAllowed(c)]
  BY DEF LimiterInv, ClientInv, Expire
<1>m. MostAllowed(c) \in Nat /\ allowance[c] <= MostAllowed(c)
  BY <1>1, MostAllowedBounds DEF LimiterTypes, Covered
<1>2. LimiterTypes'
  BY <1>1, <1>m DEF LimiterTypes
<1>3. Honest(c) /\ FillsInTime(c) => allowance[c] = MostAllowed(c)
  <2> DEFINE R == Fastest(c)
             full == Largest(c) * One
             slow == (Expiry + Min(Offsets) - Max(Offsets)) * R
  <2>1. SUFFICES ASSUME Honest(c), FillsInTime(c) PROVE allowance[c] = MostAllowed(c)
    OBVIOUS
  <2>2. PICK limit \in LimitsOf[c] : limit.capacity = Largest(c)
    BY LargestBounds
  <2>3. limit.rate = R
    BY <1>1, <2>1, RateIsOne DEF Honest
  <2>4. slow >= full
    BY <2>1, <2>2, <2>3 DEF FillsInTime
  <2>5. /\ Slack = Max(Offsets) /\ Ahead = Max(Offsets) - Min(Offsets)
        /\ Max(Offsets) \in Int /\ Min(Offsets) \in Int /\ R \in Nat /\ Expiry \in Nat
        /\ Slack \in Int /\ Ahead \in Int /\ age[c] \in Int
    <3>1. Max(Offsets) \in Int /\ Min(Offsets) \in Int
      BY OffsetBounds
    <3>2. R \in Nat /\ Expiry \in Nat /\ age[c] \in Int
      BY <1>1, LargestBounds, LimiterAssumption DEF LimiterTypes
    <3>3. Slack = Max(Offsets) /\ Ahead = Max(Offsets) - Min(Offsets)
      BY <1>1 DEF Slack, Ahead
    <3> HIDE DEF R
    <3> QED
      BY <3>1, <3>2, <3>3
  <2>6. /\ MostAllowed(c) = full + Ahead * R /\ full \in Nat /\ Ahead * R \in Nat
        /\ MostAllowed(c) \in Nat /\ allowance[c] \in Int /\ tokens[c] \in Nat
    BY <1>1, MostAllowedBounds DEF LimiterTypes
  <2>7. allowance[c] <= MostAllowed(c)
        /\ allowance[c] >= Least(MostAllowed(c), tokens[c] + (age[c] + Slack) * R)
    BY <1>1, <2>1 DEF Covered
  <2>8. (age[c] + Slack) * R >= Expiry * R /\ (age[c] + Slack) * R \in Nat
    <3>1. PICK offset \in Offsets : age[c] + offset = Expiry
      BY <1>1
    <3>2. offset \in Int /\ offset <= Max(Offsets)
      BY OffsetBounds
    <3>3. age[c] + Slack \in Nat /\ Expiry <= age[c] + Slack
      BY <2>5, <3>1, <3>2
    <3> HIDE DEF R
    <3>4. R * Expiry <= R * (age[c] + Slack)
      BY <2>5, <3>3, ProductGrows
    <3> QED
      BY <2>5, <3>3, <3>4
  <2>9. Expiry * R = slow + Ahead * R /\ slow \in Int
    <3> HIDE DEF R
    <3>1. Expiry = (Expiry + Min(Offsets) - Max(Offsets)) + Ahead
      BY <2>5
    <3> QED
      BY <2>5, <3>1, Distributes
  <2> DEFINE held == (age[c] + Slack) * R
             ahead == Ahead * R
             hour == Expiry * R
  <2>10. /\ slow >= full /\ hour = slow + ahead /\ held >= hour /\ MostAllowed(c) = full + ahead
         /\ slow \in Int /\ held \in Nat /\ full \in Nat /\ ahead \in Nat /\ hour \in Int
    BY <2>4, <2>5, <2>6, <2>8, <2>9
  <2>11. allowance[c] >= Least(MostAllowed(c), tokens[c] + held)
    BY <2>7
  <2> HIDE DEF R, full, slow, held, ahead, hour
  <2> QED
    BY <2>6, <2>7, <2>10, <2>11 DEF Least
<1>5. allowance'[c] <= MostAllowed(c) /\ (Honest(c) => allowance'[c] = MostAllowed(c))
  BY <1>1, <1>3, <1>m DEF LimiterTypes
<1>6. ASSUME NEW x \in Clients PROVE ClientInv(x)'
  <2>1. CASE x = c
    BY <1>1, <1>5, <2>1
       DEF LimiterInv, ClientInv, AgeIsRead, Covered, Returns, MostAllowed, Ahead, Honest
  <2>2. CASE x # c
    <3>1. /\ (x \in known' <=> x \in known) /\ tokens'[x] = tokens[x] /\ age'[x] = age[x]
          /\ allowance'[x] = allowance[x] /\ promise'[x] = promise[x] /\ backend' = backend
      BY <1>1, <2>2 DEF LimiterTypes
    <3> QED
      BY <3>1
         DEF LimiterInv, ClientInv, AgeIsRead, Covered, Returns, Slack, MostAllowed, Ahead, Honest
  <2> QED
    BY <2>1, <2>2
<1> QED
  BY <1>2, <1>6 DEF LimiterInv

LEMMA ElapseKeeps == LimiterInv /\ Elapse => LimiterInv'
<1> SUFFICES ASSUME LimiterInv, Elapse PROVE LimiterInv'
  OBVIOUS
<1>1. LimiterTypes
  BY DEF LimiterInv
<1>2. \A x \in Clients : Refreshed(x, 1) \in Int /\ Older(x, 1) \in Int
  BY <1>1, RefreshedBounds, LimiterAssumption DEF Older, Least, LimiterTypes
<1>3. ASSUME NEW x \in Clients PROVE CountDown(promise[x], 1) \in PromiseType
  <2>1. promise[x] \in PromiseType
    BY <1>1 DEF LimiterTypes
  <2> QED
    BY <2>1 DEF CountDown, PromiseType
<1>4. LimiterTypes'
  BY <1>1, <1>2, <1>3 DEF LimiterTypes, Elapse
<1>5. ASSUME NEW x \in Clients PROVE ClientInv(x)'
  <2>1. Passes(x, 1) /\ Ages(x, 1)
    BY DEF Passes, Ages, Elapse
  <2> QED
    BY <2>1, TimeKeepsCover, TimeKeepsReturn DEF ClientInv
<1> QED
  BY <1>4, <1>5 DEF LimiterInv

LEMMA LimiterInitInv == LimiterInit => LimiterInv
<1> SUFFICES ASSUME LimiterInit PROVE LimiterInv
  OBVIOUS
<1>1. \A c \in Clients : MostAllowed(c) \in Nat
  BY MostAllowedBounds DEF LimiterInit
<1>2. LimiterTypes
  BY <1>1 DEF LimiterInit, LimiterTypes, PromiseType, NoPromise, LimitType
<1>3. \A c \in Clients : ClientInv(c)
  BY <1>1 DEF LimiterInit, ClientInv, AgeIsRead, Covered, Returns, NoPromise
<1> QED
  BY <1>2, <1>3 DEF LimiterInv

LEMMA LimiterStutter == LimiterInv /\ UNCHANGED limiterVars => LimiterInv'
BY DEF LimiterInv, LimiterTypes, ClientInv, AgeIsRead, Covered, Returns, Slack, MostAllowed,
       Ahead, Honest, limiterVars
-----------------------------------------------------------------------------
(* The gateway.                                                            *)

\* A token is an entry's key, and the entry's limits are known of its client.
LEMMA ValidateFinds ==
  ASSUME auth \in AuthConfigs, NEW token, NEW entry \in Validate(token)
  PROVE  entry \in Range(auth.apiKeys) /\ entry.key = token
<1> DEFINE matching == {i \in DOMAIN auth.apiKeys : auth.apiKeys[i].key = token}
<1>1. auth.apiKeys \in Seq(Range(auth.apiKeys))
  BY AdmissionAssumption
<1>2. DOMAIN auth.apiKeys = 1..Len(auth.apiKeys) /\ Len(auth.apiKeys) \in Nat
  BY <1>1
<1>3. IsFiniteSet(matching)
  <2>1. IsFiniteSet(1..Len(auth.apiKeys)) /\ matching \subseteq 1..Len(auth.apiKeys)
    BY <1>2, FS_Interval
  <2> HIDE DEF matching
  <2> QED
    BY <2>1, FS_Subset
<1>4. matching # {} /\ entry = auth.apiKeys[Min(matching)]
  BY DEF Validate
<1>5. Min(matching) \in matching
  <2>1. matching \subseteq Int
    BY <1>2
  <2> HIDE DEF matching
  <2> QED
    BY <1>3, <1>4, <2>1, MinIsLeast
<1> QED
  BY <1>4, <1>5 DEF Range

LEMMA EntriesAreLimited ==
  ASSUME auth \in AuthConfigs, NEW entry \in Range(auth.apiKeys)
  PROVE  entry.client \in Clients /\ EffectiveLimit(auth, entry) \in LimitsOf[entry.client]
BY AdmissionAssumption
-----------------------------------------------------------------------------
(* The invariant: what a request carries from one layer to the next.       *)

VisitType ==
  [stage : Stages, path : Paths \cup {"none"}, header : Headers,
   identity : SUBSET Entries, token : {"none", "paid", "failOpen"},
   response : [status : {0, 200} \cup Range(StatusOf), retryAfter : Nat]]

Identified(v) ==
  /\ visit[v].identity \subseteq Range(auth.apiKeys)
  /\ visit[v].stage \in {"limiting", "handling"} /\ auth.enabled =>
       visit[v].header \in {entry.key : entry \in visit[v].identity}

MayPassFree(v) == backend = "redis" \/ \E entry \in visit[v].identity : Drains(entry)

Paid(v) ==
  visit[v].stage = "handling" /\ auth.enabled =>
    visit[v].token = "paid" \/ (visit[v].token = "failOpen" /\ MayPassFree(v))

VisitInv ==
  /\ auth \in AuthConfigs /\ visit \in [Connections -> VisitType]
  /\ \A v \in Connections : Identified(v) /\ Paid(v)

IInv == LimiterInv /\ VisitInv

\* Only the request on one connection moves.
Moves(v) ==
  /\ auth' = auth /\ backend' = backend
  /\ visit' = [visit EXCEPT ![v] = visit'[v]]

LEMMA OneVisitMoves ==
  ASSUME VisitInv, NEW v \in Connections, Moves(v), visit'[v] \in VisitType,
         Identified(v)', Paid(v)'
  PROVE  VisitInv'
<1>1. visit' \in [Connections -> VisitType]
  BY DEF VisitInv, Moves
<1>2. ASSUME NEW w \in Connections, w # v PROVE Identified(w)' /\ Paid(w)'
  <2>1. visit'[w] = visit[w]
    BY <1>2 DEF VisitInv, Moves
  <2> QED
    BY <2>1 DEF VisitInv, Moves, Identified, Paid, MayPassFree, Drains
<1> QED
  BY <1>1, <1>2 DEF VisitInv, Moves

LEMMA AnsweredMoves ==
  ASSUME VisitInv, NEW v \in Connections, auth' = auth, backend' = backend,
         NEW response \in [status : {0, 200} \cup Range(StatusOf), retryAfter : Nat],
         Answered(v, response)
  PROVE  VisitInv'
<1>1. Idle \in VisitType
  BY DEF Idle, VisitType, Stages, Headers
<1>2. [Idle EXCEPT !.stage = "answered", !.response = response] \in VisitType
  BY <1>1, ZenonT(30) DEF VisitType, Stages
<1>3. visit' = [visit EXCEPT ![v] = [Idle EXCEPT !.stage = "answered", !.response = response]]
  BY DEF Answered
<1>4. visit'[v] = [Idle EXCEPT !.stage = "answered", !.response = response]
  BY <1>3 DEF VisitInv
<1>5. Moves(v)
  BY <1>3, <1>4 DEF Moves
<1>6. visit'[v].stage = "answered" /\ visit'[v].identity = {}
  BY <1>4 DEF Idle
<1> QED
  BY <1>2, <1>4, <1>5, <1>6, OneVisitMoves DEF Identified, Paid
-----------------------------------------------------------------------------
LEMMA InitEstablishes == Init => IInv
<1> SUFFICES ASSUME Init PROVE VisitInv
  BY LimiterInitInv DEF Init, IInv
<1>1. Idle \in VisitType
  BY DEF Idle, VisitType, Stages, Headers
<1> QED
  BY <1>1 DEF Init, VisitInv, Identified, Paid, Idle

\* Requests that arrive, get a permit, or leave.
LEMMA QueueKeeps ==
  ASSUME VisitInv, NEW v \in Connections, backend' = backend, auth' = auth,
         \/ \E path \in Paths, header \in Headers : Arrive(v, path, header)
         \/ Enter(v) \/ Disconnect(v)
  PROVE  VisitInv'
<1>1. Idle \in VisitType /\ visit[v] \in VisitType /\ auth \in AuthConfigs
  BY DEF Idle, VisitType, Stages, Headers, VisitInv
<1>2. ASSUME NEW path \in Paths, NEW header \in Headers, Arrive(v, path, header)
      PROVE  VisitInv'
  <2> DEFINE new == [Idle EXCEPT !.stage = "queued", !.path = path, !.header = header]
  <2>1. visit' = [visit EXCEPT ![v] = new] /\ visit'[v] = new
    BY <1>2 DEF Arrive, VisitInv
  <2>2. new \in VisitType /\ new.stage = "queued" /\ new.identity = {}
    BY <1>1, ZenonT(30) DEF VisitType, Stages, Idle
  <2> QED
    BY <2>1, <2>2, OneVisitMoves DEF Identified, Paid, Moves
<1>3. ASSUME Enter(v) PROVE VisitInv'
  <2> DEFINE new == [visit[v] EXCEPT !.stage = IF auth.enabled THEN "authenticating"
                                                                ELSE "handling"]
  <2>1. visit' = [visit EXCEPT ![v] = new] /\ visit'[v] = new
    BY <1>3 DEF Enter, VisitInv
  <2>2. /\ new \in VisitType /\ new.identity = visit[v].identity
        /\ new.stage = (IF auth.enabled THEN "authenticating" ELSE "handling")
    BY <1>1 DEF VisitType, Stages
  <2> HIDE DEF new
  <2>3. Moves(v) /\ visit'[v] \in VisitType
    BY <2>1, <2>2 DEF Moves
  <2>4. Identified(v)' /\ Paid(v)'
    BY <2>1, <2>2 DEF Identified, Paid, VisitInv
  <2> QED
    BY <2>3, <2>4, OneVisitMoves
<1>4. ASSUME Disconnect(v) PROVE VisitInv'
  <2>1. visit' = [visit EXCEPT ![v] = Idle] /\ visit'[v] = Idle
    BY <1>4 DEF Disconnect, VisitInv
  <2>2. Idle.stage = "idle" /\ Idle.identity = {}
    BY DEF Idle
  <2> QED
    BY <1>1, <2>1, <2>2, OneVisitMoves DEF Identified, Paid, Moves
<1> QED
  BY <1>2, <1>3, <1>4

LEMMA StatusIsKnown ==
  ASSUME NEW error \in DOMAIN StatusOf, NEW wait \in Nat
  PROVE  Response(error, wait) \in [status : {0, 200} \cup Range(StatusOf), retryAfter : Nat]
BY DEF Response, Range

LEMMA AuthenticateKeeps ==
  ASSUME VisitInv, NEW v \in Connections, backend' = backend, auth' = auth, Authenticate(v)
  PROVE  VisitInv'
<1>1. visit[v] \in VisitType /\ auth \in AuthConfigs
  BY DEF VisitInv
<1>2. CASE Answered(v, Response("Unauthorized", 0))
  <2>1. "Unauthorized" \in DOMAIN StatusOf
    BY DEF StatusOf
  <2> QED
    BY <1>2, <2>1, StatusIsKnown, AnsweredMoves
<1>3. CASE /\ visit[v].header # "none" /\ Validate(visit[v].header) # {}
           /\ visit' = [visit EXCEPT ![v].stage = "limiting",
                                     ![v].identity = Validate(visit[v].header)]
  <2> DEFINE found == Validate(visit[v].header)
             new == [visit[v] EXCEPT !.stage = "limiting", !.identity = found]
  <2>1. \A entry \in found : entry \in Range(auth.apiKeys) /\ entry.key = visit[v].header
    BY <1>1, ValidateFinds
  <2>2. found \subseteq Entries
    BY <1>1, <2>1 DEF Entries
  <2> HIDE DEF found
  <2>3. visit'[v] = new /\ visit' = [visit EXCEPT ![v] = new]
    BY <1>3 DEF found, VisitInv
  <2>4. new \in VisitType /\ new.stage = "limiting" /\ new.identity = found
        /\ new.header = visit[v].header
    BY <1>1, <2>2 DEF VisitType, Stages
  <2>5. found # {}
    BY <1>3 DEF found
  <2>6. Moves(v) /\ visit'[v] \in VisitType
    BY <2>3, <2>4 DEF Moves
  <2>7. visit[v].header \in {entry.key : entry \in found} /\ found \subseteq Range(auth.apiKeys)
    BY <2>1, <2>5
  <2> HIDE DEF new
  <2>8. Identified(v)' /\ Paid(v)'
    BY <2>3, <2>4, <2>7 DEF Identified, Paid
  <2> QED
    BY <2>6, <2>8, OneVisitMoves
<1> QED
  BY <1>2, <1>3 DEF Authenticate

LEMMA AdmitKeeps ==
  ASSUME VisitInv, NEW v \in Connections, backend' = backend, auth' = auth,
         visit[v].stage = "limiting", NEW token \in {"paid", "failOpen"},
         token = "failOpen" => MayPassFree(v), Admit(v, token)
  PROVE  VisitInv'
<1> DEFINE new == [visit[v] EXCEPT !.stage = "handling", !.token = token]
<1>1. visit[v] \in VisitType
  BY DEF VisitInv
<1>2. visit'[v] = new /\ visit' = [visit EXCEPT ![v] = new]
  BY DEF Admit, VisitInv
<1>3. /\ new \in VisitType /\ new.stage = "handling" /\ new.token = token
      /\ new.identity = visit[v].identity /\ new.header = visit[v].header
  BY <1>1 DEF VisitType, Stages
<1>4. Moves(v) /\ visit'[v] \in VisitType
  BY <1>2, <1>3 DEF Moves
<1>5. Identified(v)' /\ Paid(v)'
  <2>1. Identified(v)
    BY DEF VisitInv
  <2> HIDE DEF new
  <2> QED
    BY <1>2, <1>3, <2>1 DEF Identified, Paid, MayPassFree, Drains
<1> QED
  BY <1>4, <1>5, OneVisitMoves

\* A wait of a second or more is answered; one of 0 is taken for a failing backend.
LEMMA RefuseKeeps ==
  ASSUME VisitInv, NEW v \in Connections, backend' = backend, auth' = auth,
         visit[v].stage = "limiting", NEW wait \in Nat, wait = 0 => MayPassFree(v),
         Refuse(v, wait)
  PROVE  VisitInv'
<1>1. CASE wait = 0
  <2>1. Admit(v, "failOpen") /\ MayPassFree(v)
    BY <1>1 DEF Refuse
  <2> QED
    BY <2>1, AdmitKeeps
<1>2. CASE wait # 0
  <2>1. Answered(v, Response("RateLimited", wait))
    BY <1>2 DEF Refuse
  <2>2. "RateLimited" \in DOMAIN StatusOf
    BY DEF StatusOf
  <2> QED
    BY <2>1, <2>2, StatusIsKnown, AnsweredMoves
<1> QED
  BY <1>1, <1>2

LEMMA LimitLocallyKeeps ==
  ASSUME IInv, NEW v \in Connections, LimitLocally(v)
  PROVE  IInv'
<1>1. PICK entry \in visit[v].identity, lag \in 0..MaxLag :
        LET limit == EffectiveLimit(auth, entry)
        IN /\ visit[v].stage = "limiting" /\ auth' = auth
           /\ \/ LocalAdmits(entry.client, limit, lag) /\ Admit(v, "paid")
              \/ LocalRefuses(entry.client, limit, lag)
                 /\ Refuse(v, WaitFor(entry.client, limit, age[entry.client] + lag))
  BY DEF LimitLocally
<1> DEFINE c == entry.client
           limit == EffectiveLimit(auth, entry)
<1>2. c \in Clients /\ limit \in LimitsOf[c]
  BY EntriesAreLimited DEF IInv, VisitInv, Identified
<1> HIDE DEF c, limit
<1>3. VisitInv /\ LimiterInv
  BY DEF IInv
<1>4. CASE LocalAdmits(c, limit, lag) /\ Admit(v, "paid")
  <2>1. LimiterInv'
    BY <1>2, <1>3, <1>4, LocalAdmitsKeeps
  <2>2. backend' = backend
    BY <1>4 DEF LocalAdmits
  <2> QED
    BY <1>1, <1>3, <1>4, <2>1, <2>2, AdmitKeeps DEF IInv
<1>5. CASE LocalRefuses(c, limit, lag) /\ Refuse(v, WaitFor(c, limit, age[c] + lag))
  <2> DEFINE level == Level(c, limit, age[c] + lag)
  <2>1. LimiterInv'
    BY <1>2, <1>3, <1>5, LocalRefusesKeeps
  <2>2. backend' = backend /\ level < One
    BY <1>5 DEF LocalRefuses
  <2>3. age[c] + lag \in Int /\ limit \in LimitType
    BY <1>2, <1>3, LargestBounds, LimiterAssumption DEF LimiterInv, LimiterTypes
  <2>4. level \in Int
    BY <1>2, <1>3, <2>3, LevelBounds DEF LimiterInv
  <2> HIDE DEF level
  <2>5. Wait(level, limit) \in Nat /\ (Wait(level, limit) = 0 => MayPassFree(v))
    <3>1. Wait(level, limit) \in Nat /\ (Wait(level, limit) = 0 => limit.rate < 0)
      BY <2>2, <2>3, <2>4, WaitCovers
    <3>2. limit.rate < 0 => Drains(entry)
      BY DEF limit, Drains
    <3> QED
      BY <3>1, <3>2 DEF MayPassFree
  <2>6. Refuse(v, Wait(level, limit))
    BY <1>5 DEF WaitFor, level
  <2>7. VisitInv'
    BY <1>1, <1>3, <2>2, <2>5, <2>6, RefuseKeeps
  <2> QED
    BY <2>1, <2>7 DEF IInv
<1> QED
  BY <1>1, <1>4, <1>5 DEF c, limit

LEMMA LimitInRedisKeeps ==
  ASSUME IInv, NEW v \in Connections, LimitInRedis(v)
  PROVE  IInv'
<1>1. PICK entry \in visit[v].identity, offset \in Offsets :
        LET limit == EffectiveLimit(auth, entry)
        IN /\ visit[v].stage = "limiting" /\ auth' = auth
           /\ \/ RedisAdmits(entry.client, limit, offset) /\ Admit(v, "paid")
              \/ RedisAdmits(entry.client, limit, offset) /\ Refuse(v, 0)
              \/ RedisRefuses(entry.client, limit, offset)
                 /\ Refuse(v, WaitFor(entry.client, limit, age[entry.client] + offset))
  BY DEF LimitInRedis
<1> DEFINE c == entry.client
           limit == EffectiveLimit(auth, entry)
<1>2. c \in Clients /\ limit \in LimitsOf[c]
  BY EntriesAreLimited DEF IInv, VisitInv, Identified
<1> HIDE DEF c, limit
<1>3. VisitInv /\ LimiterInv
  BY DEF IInv
<1>4. CASE RedisAdmits(c, limit, offset) /\ (Admit(v, "paid") \/ Refuse(v, 0))
  <2>1. LimiterInv'
    BY <1>2, <1>3, <1>4, RedisAdmitsKeeps
  <2>2. backend' = backend /\ backend = "redis"
    BY <1>4 DEF RedisAdmits
  <2>3. Admit(v, "paid") \/ Admit(v, "failOpen")
    BY <1>4 DEF Refuse
  <2> QED
    BY <1>1, <1>3, <2>1, <2>2, <2>3, AdmitKeeps DEF IInv, MayPassFree
<1>5. CASE RedisRefuses(c, limit, offset) /\ Refuse(v, WaitFor(c, limit, age[c] + offset))
  <2> DEFINE level == Level(c, limit, age[c] + offset)
  <2>1. LimiterInv'
    BY <1>2, <1>3, <1>5, RedisRefusesKeeps
  <2>2. backend' = backend /\ level < One
    BY <1>5 DEF RedisRefuses
  <2>3. age[c] + offset \in Int /\ limit \in LimitType
    BY <1>2, <1>3, LargestBounds, OffsetBounds DEF LimiterInv, LimiterTypes
  <2>4. level \in Int
    BY <1>2, <1>3, <2>3, LevelBounds DEF LimiterInv
  <2> HIDE DEF level
  <2>5. Wait(level, limit) \in Nat /\ (Wait(level, limit) = 0 => MayPassFree(v))
    <3>1. Wait(level, limit) \in Nat /\ (Wait(level, limit) = 0 => limit.rate < 0)
      BY <2>2, <2>3, <2>4, WaitCovers
    <3>2. limit.rate < 0 => Drains(entry)
      BY DEF limit, Drains
    <3> QED
      BY <3>1, <3>2 DEF MayPassFree
  <2>6. Refuse(v, Wait(level, limit))
    BY <1>5 DEF WaitFor, level
  <2>7. VisitInv'
    BY <1>1, <1>3, <2>2, <2>5, <2>6, RefuseKeeps
  <2> QED
    BY <2>1, <2>7 DEF IInv
<1> QED
  BY <1>1, <1>4, <1>5 DEF c, limit

LEMMA HandleKeeps ==
  ASSUME VisitInv, NEW v \in Connections, backend' = backend, auth' = auth,
         NEW error \in {"none"} \cup HandlerErrors, Handle(v, error)
  PROVE  VisitInv'
<1>1. CASE Answered(v, [status |-> 200, retryAfter |-> 0])
  <2>1. [status |-> 200, retryAfter |-> 0]
          \in [status : {0, 200} \cup Range(StatusOf), retryAfter : Nat]
    OBVIOUS
  <2> QED
    BY <1>1, <2>1, AnsweredMoves
<1>2. CASE error \in HandlerErrors /\ Answered(v, Response(error, 1))
  BY <1>2, AdmissionAssumption, StatusIsKnown, AnsweredMoves
<1> QED
  BY <1>1, <1>2 DEF Handle

LEMMA NextPreserves == IInv /\ [Next]_vars => IInv'
<1> SUFFICES ASSUME IInv, [Next]_vars PROVE IInv'
  OBVIOUS
<1>0. LimiterInv /\ VisitInv
  BY DEF IInv
<1>u. ASSUME UNCHANGED limiterVars PROVE LimiterInv' /\ backend' = backend
  BY <1>0, <1>u, LimiterStutter DEF limiterVars
<1>1. ASSUME NEW v \in Connections,
             \/ \E path \in Paths, header \in Headers : Arrive(v, path, header)
             \/ Enter(v) \/ Disconnect(v)
      PROVE  IInv'
  <2>1. UNCHANGED <<limiterVars, auth>>
    BY <1>1 DEF Arrive, Enter, Disconnect
  <2> QED
    BY <1>0, <1>1, <1>u, <2>1, QueueKeeps DEF IInv
<1>2. ASSUME NEW v \in Connections, Authenticate(v) PROVE IInv'
  <2>1. UNCHANGED <<limiterVars, auth>>
    BY <1>2 DEF Authenticate
  <2> QED
    BY <1>0, <1>2, <1>u, <2>1, AuthenticateKeeps DEF IInv
<1>3. ASSUME NEW v \in Connections, RedisFails(v) PROVE IInv'
  <2>1. UNCHANGED <<limiterVars, auth>> /\ Admit(v, "failOpen") /\ visit[v].stage = "limiting"
        /\ backend = "redis"
    BY <1>3 DEF RedisFails, Refuse
  <2> QED
    BY <1>0, <1>u, <2>1, AdmitKeeps DEF IInv, MayPassFree
<1>4. ASSUME NEW v \in Connections, NEW error \in {"none"} \cup HandlerErrors, Handle(v, error)
      PROVE  IInv'
  <2>1. UNCHANGED <<limiterVars, auth>>
    BY <1>4 DEF Handle
  <2> QED
    BY <1>0, <1>4, <1>u, <2>1, HandleKeeps DEF IInv
<1>5. ASSUME backend' = backend, UNCHANGED <<auth, visit>> PROVE VisitInv'
  BY <1>0, <1>5 DEF VisitInv, Identified, Paid, MayPassFree, Drains
<1>6. ASSUME NEW c \in Clients, Expire(c), UNCHANGED <<auth, visit>> PROVE IInv'
  BY <1>0, <1>5, <1>6, ExpireKeeps DEF IInv, Expire
<1>7. ASSUME Tick PROVE IInv'
  BY <1>0, <1>5, <1>7, ElapseKeeps DEF IInv, Tick, Elapse
<1>8. CASE UNCHANGED vars
  BY <1>5, <1>8, <1>u DEF IInv, vars
<1> QED
  BY <1>1, <1>2, <1>3, <1>4, <1>6, <1>7, <1>8, LimitLocallyKeeps, LimitInRedisKeeps
     DEF Next, Progress
-----------------------------------------------------------------------------
\* The invariant holds in every state the gateway reaches.
THEOREM Inductive == Spec => []IInv
BY InitEstablishes, NextPreserves, PTL DEF Spec

\* No client gets more than its burst, its refill and what the clocks add, over
\* any stretch of time and any number of calls, keys, gateways and connections; in
\* Redis if its keys refill at one rate, also a slow one or none, of which an idle
\* hour makes a full bucket.
THEOREM AllowanceIsKept == Spec => []AllowanceKept
<1>1. IInv => AllowanceKept
  BY InvImpliesAllowance DEF IInv
<1> QED
  BY <1>1, Inductive, PTL

\* The seconds of Retry-After are enough for one more token, in the in-memory
\* bucket and of a key that refills, whatever other keys and clients do meanwhile.
THEOREM WaitsAreEnough == Spec => []WaitIsEnough
<1>1. IInv => WaitIsEnough
  BY InvImpliesWait DEF IInv
<1> QED
  BY <1>1, Inductive, PTL

\* No request reaches a handler unidentified or, but for a failing Redis and keys
\* that drain, unpaid.
THEOREM HandledRequestsPaid == Spec => []HandledHavePaid
<1>1. IInv => HandledHavePaid
  BY DEF IInv, VisitInv, Identified, Paid, MayPassFree, HandledHavePaid
<1> QED
  BY <1>1, Inductive, PTL
=============================================================================
