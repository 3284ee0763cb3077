--------------------------- MODULE BalancerProofs ---------------------------
(***************************************************************************)
(* Proofs about Balancer, on the requests of MCBalancer: over whole cycles *)
(* the weighted walk gives each provider exactly its weight, whatever the  *)
(* weights and their number; within a cycle nobody is far from its share;  *)
(* and over a long sample that is less than five percent.                  *)
(*                                                                         *)
(* A position owns the tickets from Before up to its cumulative weight.    *)
(* These ranges meet without a gap or an overlap (RangesAreApart), so the  *)
(* walk finds the owner of each ticket (WalkFindsRange), and after k       *)
(* requests a position has been selected Share times: its weight for each  *)
(* whole cycle, and what of its range the cycle under way has passed.      *)
(* The three theorems follow from that one invariant (SharesHold).         *)
(***************************************************************************)
EXTENDS MCBalancer, Collections

-----------------------------------------------------------------------------
\* A list of providers that have some weight between them.
Weighted(w) == \E n \in Nat \ {0} : w \in [1..n -> Nat] /\ TotalWeight(w) > 0

\* The weight of the positions before i: where the range of i begins.
Before(w, i) == SumFunctionOnSet(w, {j \in DOMAIN w : j < i})

\* What being weighted says of the domain, the weights and their total.
LEMMA Sizes ==
  ASSUME NEW w, Weighted(w)
  PROVE  /\ IsFiniteSet(DOMAIN w) /\ DOMAIN w \subseteq Nat /\ DOMAIN w # {}
         /\ \A i \in DOMAIN w : w[i] \in Nat
         /\ TotalWeight(w) \in Nat \ {0}
<1>1. PICK n \in Nat \ {0} : w \in [1..n -> Nat] /\ TotalWeight(w) > 0
  BY DEF Weighted
<1>2. IsFiniteSet(1..n) /\ DOMAIN w = 1..n
  BY <1>1, FS_Interval
<1>3. TotalWeight(w) \in Nat
  BY <1>1, <1>2, SumIsNat DEF TotalWeight, SumFunction
<1> QED
  BY <1>1, <1>2, <1>3

\* What precedes a position, with its own weight, is its cumulative weight, and
\* no more than the total.
LEMMA RunningSum ==
  ASSUME NEW w, Weighted(w), NEW i \in DOMAIN w
  PROVE  /\ Before(w, i) \in Nat /\ Cumulative(w, i) = Before(w, i) + w[i]
         /\ Cumulative(w, i) <= TotalWeight(w)
<1> DEFINE under == {j \in DOMAIN w : j < i}
           upto == {j \in DOMAIN w : j <= i}
<1>1. IsFiniteSet(under) /\ i \notin under /\ under \cup {i} = upto
      /\ upto \in SUBSET DOMAIN w
  BY Sizes, FS_Subset
<1>2. SumFunctionOnSet(w, under) \in Nat /\ SumFunctionOnSet(w, upto) \in Nat
      /\ SumFunctionOnSet(w, upto) <= SumFunctionOnSet(w, DOMAIN w)
  <2>1. under \in SUBSET DOMAIN w
    OBVIOUS
  <2> HIDE DEF under, upto
  <2> QED
    BY <1>1, <2>1, Sizes, SumOfSubset
<1>3. SumFunctionOnSet(w, under \cup {i}) = w[i] + SumFunctionOnSet(w, under)
  <2>1. \A y \in under \cup {i} : w[y] \in Int
    BY Sizes
  <2> HIDE DEF under
  <2> QED
    BY <1>1, <2>1, SumAdds
<1>4. SumFunctionOnSet(w, upto) = w[i] + SumFunctionOnSet(w, under)
  BY <1>1, <1>3, Zenon
<1> QED
  BY <1>2, <1>4, Sizes DEF Before, Cumulative, TotalWeight, SumFunction

\* Ranges meet: where that of one position ends, that of the next begins.
LEMMA RangesAreApart ==
  ASSUME NEW w, Weighted(w), NEW i \in DOMAIN w, NEW j \in DOMAIN w, i < j
  PROVE  Cumulative(w, i) <= Before(w, j)
<1> DEFINE upto == {k \in DOMAIN w : k <= i}
           under == {k \in DOMAIN w : k < j}
<1>1. IsFiniteSet(under) /\ upto \in SUBSET under /\ \A x \in under : w[x] \in Nat
  BY Sizes, FS_Subset
<1> HIDE DEF upto, under
<1>2. SumFunctionOnSet(w, upto) <= SumFunctionOnSet(w, under)
  BY <1>1, SumOfSubset
<1> QED
  BY <1>2 DEF Cumulative, Before, upto, under

\* The walk finds the position in whose range the ticket lies.
LEMMA WalkFindsRange ==
  ASSUME NEW w, Weighted(w), NEW ticket \in Nat, ticket < TotalWeight(w)
  PROVE  LET i == Walk(w, ticket)
         IN i \in DOMAIN w /\ Before(w, i) <= ticket /\ ticket < Before(w, i) + w[i]
<1> DEFINE reached == {i \in DOMAIN w : ticket < Cumulative(w, i)}
<1>1. PICK n \in Nat \ {0} : w \in [1..n -> Nat]
  BY DEF Weighted
<1>2. n \in reached
  <2>1. {j \in DOMAIN w : j <= n} = DOMAIN w
    BY <1>1
  <2>2. Cumulative(w, n) = TotalWeight(w)
    BY <2>1, Zenon DEF Cumulative, TotalWeight, SumFunction
  <2> QED
    BY <1>1, <2>2
<1>3. IsFiniteSet(reached) /\ reached \subseteq Int
  BY Sizes, FS_Subset
<1>4. Min(reached) \in reached /\ \A j \in reached : Min(reached) <= j
  BY <1>2, <1>3, MinIsLeast
<1> DEFINE i == Min(reached)
<1>5. Walk(w, ticket) = i
  BY <1>2 DEF Walk
<1>6. i \in 1..n /\ ticket < Before(w, i) + w[i]
  BY <1>1, <1>4, RunningSum
<1>7. DOMAIN w = 1..n /\ i \in 1..n /\ \A j \in reached : i <= j
  BY <1>1, <1>4, <1>6
<1> HIDE DEF i
<1>8. Before(w, i) <= ticket
  <2>1. CASE i = 1
    <3>1. {j \in DOMAIN w : j < i} = {}
      BY <1>7, <2>1
    <3>2. Before(w, i) = 0
      BY <3>1, SumOfNone DEF Before
    <3> QED
      BY <3>2
  <2>2. CASE i # 1
    <3>1. i - 1 \in DOMAIN w /\ i - 1 \notin reached
      BY <1>7, <2>2
    <3>2. {j \in DOMAIN w : j < i} = {j \in DOMAIN w : j <= i - 1}
      BY <1>6, <1>7
    <3>3. Before(w, i) = Cumulative(w, i - 1)
      BY <3>2, Zenon DEF Before, Cumulative
    <3>4. Before(w, i) \in Nat
      BY <1>1, <1>6, RunningSum
    <3> QED
      BY <3>1, <3>3, <3>4
  <2> QED
    BY <2>1, <2>2
<1> QED
  BY <1>5, <1>6, <1>7, <1>8

-----------------------------------------------------------------------------
\* The part of a range that has been passed when the ticket is so far beyond its
\* beginning, and what a position has been selected after k requests.
Passed(beyond, size) == IF beyond <= 0 THEN 0 ELSE IF beyond >= size THEN size ELSE beyond

Share(w, i, k) ==
  w[i] * (k \div TotalWeight(w)) + Passed((k % TotalWeight(w)) - Before(w, i), w[i])

\* The next request is the next of the same cycle, or the first of the next one.
LEMMA Cycle ==
  ASSUME NEW k \in Nat, NEW t \in Nat \ {0}
  PROVE  /\ k \div t \in Nat /\ k % t \in 0..(t - 1) /\ k = t * (k \div t) + (k % t)
         /\ (k % t) + 1 < t => (k + 1) \div t = k \div t /\ (k + 1) % t = (k % t) + 1
         /\ (k % t) + 1 = t => (k + 1) \div t = k \div t + 1 /\ (k + 1) % t = 0
<1>1. k \div t \in Nat /\ k % t \in 0..(t - 1) /\ k = t * (k \div t) + (k % t)
  BY SMTT(20)
<1>2. ASSUME NEW q \in Nat, NEW r \in 0..(t - 1), NEW n \in Nat, n = t * q + r
      PROVE  n \div t = q /\ n % t = r
  BY <1>2, SMTT(20)
<1> DEFINE q == k \div t
           r == k % t
<1> HIDE DEF q, r
<1>3. q \in Nat /\ r \in 0..(t - 1) /\ k = t * q + r
  BY <1>1 DEF q, r
<1>4. CASE r + 1 < t
  <2>1. k + 1 = t * q + (r + 1)
    BY <1>3
  <2>2. (k + 1) \div t = q /\ (k + 1) % t = r + 1
    BY <1>2, <1>3, <1>4, <2>1
  <2> QED
    BY <1>1, <1>4, <2>2 DEF q, r
<1>5. CASE r + 1 = t
  <2>1. k + 1 = t * (q + 1) + 0
    BY <1>3, <1>5
  <2>2. (k + 1) \div t = q + 1 /\ (k + 1) % t = 0
    BY <1>2, <1>3, <2>1
  <2> QED
    BY <1>1, <1>5, <2>2 DEF q, r
<1> QED
  BY <1>1, <1>4, <1>5 DEF q, r

\* A fact of arithmetic, on its own for the prover.
LEMMA Distributes ==
  \A a, b \in Nat : a * (b + 1) = a * b + a
BY SMT

\* A request adds one to the share of the position the walk finds for its ticket,
\* and to no other share.
LEMMA ShareGrows ==
  ASSUME NEW w, Weighted(w), NEW k \in Nat, NEW i \in DOMAIN w
  PROVE  Share(w, i, k + 1) = IF Walk(w, k % TotalWeight(w)) = i THEN Share(w, i, k) + 1
                                                                 ELSE Share(w, i, k)
<1> DEFINE t == TotalWeight(w)
           q == k \div t
           r == k % t
           from == Before(w, i)
           chosen == Walk(w, r)
<1>1. t \in Nat \ {0} /\ w[i] \in Nat /\ from \in Nat /\ from + w[i] <= t
  BY Sizes, RunningSum
<1>2. /\ q \in Nat /\ r \in 0..(t - 1)
      /\ r + 1 < t => (k + 1) \div t = q /\ (k + 1) % t = r + 1
      /\ r + 1 = t => (k + 1) \div t = q + 1 /\ (k + 1) % t = 0
  BY <1>1, Cycle
<1>3. chosen = i <=> from <= r /\ r < from + w[i]
  <2>1. chosen \in DOMAIN w /\ Before(w, chosen) <= r /\ r < Before(w, chosen) + w[chosen]
    BY <1>1, <1>2, WalkFindsRange
  <2>2. chosen \in Nat /\ i \in Nat
    BY <2>1, Sizes
  <2>3. CASE chosen < i
    <3>1. Before(w, chosen) + w[chosen] <= from
      BY <2>1, <2>3, RangesAreApart, RunningSum
    <3>2. Before(w, chosen) \in Nat /\ w[chosen] \in Nat
      BY <2>1, RunningSum, Sizes
    <3> HIDE DEF chosen
    <3> QED
      BY <1>1, <1>2, <2>1, <2>2, <2>3, <3>1, <3>2
  <2>4. CASE i < chosen
    <3>1. from + w[i] <= Before(w, chosen)
      BY <2>1, <2>4, RangesAreApart, RunningSum
    <3>2. Before(w, chosen) \in Nat /\ w[chosen] \in Nat
      BY <2>1, RunningSum, Sizes
    <3> HIDE DEF chosen
    <3> QED
      BY <1>1, <1>2, <2>1, <2>2, <2>4, <3>1, <3>2
  <2> HIDE DEF chosen
  <2> QED
    BY <2>1, <2>2, <2>3, <2>4
<1>4. Share(w, i, k) = w[i] * q + Passed(r - from, w[i])
  BY DEF Share
<1>5. w[i] * q \in Nat /\ w[i] * (q + 1) = w[i] * q + w[i]
  BY <1>1, <1>2, Distributes
<1> DEFINE whole == w[i] * q
           more == w[i] * (q + 1)
<1> SUFFICES Share(w, i, k + 1) = IF chosen = i THEN Share(w, i, k) + 1 ELSE Share(w, i, k)
  OBVIOUS
<1>6. r + 1 < t => Share(w, i, k + 1) = whole + Passed((r + 1) - from, w[i])
  BY <1>2, Zenon DEF Share
<1>7. r + 1 = t => Share(w, i, k + 1) = more + Passed(0 - from, w[i])
  BY <1>2 DEF Share
<1> HIDE DEF t, q, r, from, chosen, whole, more
<1>8. Share(w, i, k) = whole + Passed(r - from, w[i]) /\ whole \in Nat /\ more = whole + w[i]
  BY <1>4, <1>5 DEF whole, more
<1>9. CASE r + 1 < t
  BY <1>1, <1>2, <1>3, <1>6, <1>8, <1>9 DEF Passed
<1>10. CASE r + 1 = t
  BY <1>1, <1>2, <1>3, <1>7, <1>8, <1>10 DEF Passed
<1> QED
  BY <1>1, <1>2, <1>9, <1>10
-----------------------------------------------------------------------------
\* Every table has one route, and the sample is over before the counter wraps.
OneRouteAlone ==
  /\ \A t \in Tables : \E w : t = <<w>> /\ Weighted(w)
  /\ Sample <= CounterModulus

\* A route that has the counter to itself: each position has got its share.
Shares ==
  \E w : LET k == SumFunction(picks[1])
         IN /\ Weighted(w) /\ table = <<w>> /\ turn = 1
            /\ DOMAIN picks = {1} /\ picks[1] \in [DOMAIN w -> Nat]
            /\ k \in 0..Sample
            /\ Ticks(w) => counter = k % CounterModulus
            /\ \A i \in DOMAIN w : picks[1][i] = Share(w, i, k)

\* At first no position has a share.
LEMMA InitShares ==
  ASSUME OneRouteAlone, Init
  PROVE  Shares
<1>1. PICK w : table = <<w>> /\ Weighted(w)
  BY DEF Init, OneRouteAlone
<1> DEFINE none == [i \in DOMAIN w |-> 0]
<1>2. /\ turn = 1 /\ counter = 0 /\ DOMAIN picks = {1}
      /\ picks[1] = none
  BY <1>1 DEF Init, CounterInit
<1>3. /\ IsFiniteSet(DOMAIN w) /\ \A i \in DOMAIN w : w[i] \in Nat
      /\ TotalWeight(w) \in Nat \ {0}
  BY <1>1, Sizes
<1>4. SumFunction(none) = 0
  <2> DEFINE Q == {T \in SUBSET DOMAIN w : SumFunctionOnSet(none, T) = 0}
  <2>1. {} \in Q
    BY SumOfNone
  <2>2. ASSUME NEW T \in SUBSET DOMAIN w, NEW x \in DOMAIN w \ T, T \in Q
        PROVE  T \cup {x} \in Q
    <3>1. SumFunctionOnSet(none, T \cup {x}) = none[x] + SumFunctionOnSet(none, T)
      BY <1>3, SumAdds, FS_Subset
    <3> QED
      BY <2>2, <3>1
  <2> HIDE DEF Q
  <2>3. DOMAIN w \in Q
    BY <1>3, <2>1, <2>2, SetInduction, SMTT(30)
  <2> QED
    BY <2>3 DEF Q, SumFunction
<1>5. ASSUME NEW i \in DOMAIN w PROVE Share(w, i, 0) = 0
  <2>1. 0 \div TotalWeight(w) = 0 /\ 0 % TotalWeight(w) = 0
    BY <1>3, Cycle
  <2>2. Before(w, i) \in Nat /\ w[i] \in Nat
    BY <1>1, <1>3, RunningSum
  <2> QED
    BY <2>1, <2>2 DEF Share, Passed
<1>6. 0 % CounterModulus = 0
  BY CounterAssumption
<1> HIDE DEF none
<1>7. none \in [DOMAIN w -> Nat] /\ \A i \in DOMAIN w : none[i] = 0
  BY DEF none
<1> QED
  BY <1>1, <1>2, <1>4, <1>5, <1>6, <1>7, SampleAssumption DEF Shares

\* What is selected next, by the walk or by the fast path for one provider.
LEMMA ChoiceFollowsShares ==
  ASSUME NEW w, Weighted(w), NEW k \in Nat, Ticks(w) => counter = k
  PROVE  Choice(w) = Walk(w, k % TotalWeight(w))
<1>1. k % TotalWeight(w) \in 0..(TotalWeight(w) - 1)
  BY Sizes, Cycle
<1>2. Walk(w, k % TotalWeight(w)) \in DOMAIN w
  BY <1>1, Sizes, WalkFindsRange
<1>3. CASE Ticks(w)
  BY <1>3 DEF Choice
<1>4. CASE ~Ticks(w)
  <2>1. Cardinality(DOMAIN w) = 1
    BY <1>4, Sizes, FS_CardinalityType, FS_EmptySet DEF Ticks
  <2>2. PICK i : DOMAIN w = {i}
    BY <2>1, Sizes, FS_Singleton
  <2>3. Min(DOMAIN w) = i
    BY <2>2, Sizes, MinIsLeast
  <2> QED
    BY <1>2, <1>4, <2>2, <2>3 DEF Choice
<1> QED
  BY <1>3, <1>4

\* A request keeps the shares: what select_provider returns is the position whose
\* share grows.
LEMMA RequestShares ==
  ASSUME OneRouteAlone, Shares, Request
  PROVE  Shares'
<1> DEFINE k == SumFunction(picks[1])
<1>1. PICK w : /\ Weighted(w) /\ table = <<w>> /\ turn = 1
               /\ DOMAIN picks = {1} /\ picks[1] \in [DOMAIN w -> Nat]
               /\ k \in 0..Sample
               /\ Ticks(w) => counter = k % CounterModulus
               /\ \A i \in DOMAIN w : picks[1][i] = Share(w, i, k)
  BY DEF Shares
<1> DEFINE chosen == Choice(w)
<1>2. k \in Nat /\ k < Sample /\ k < CounterModulus /\ k % CounterModulus = k
  BY <1>1, SampleAssumption, CounterAssumption DEF Request, Taken, OneRouteAlone
<1>3. chosen = Walk(w, k % TotalWeight(w)) /\ chosen \in DOMAIN w
  <2>1. k % TotalWeight(w) \in 0..(TotalWeight(w) - 1)
    BY <1>1, <1>2, Sizes, Cycle
  <2> HIDE DEF k
  <2>2. chosen = Walk(w, k % TotalWeight(w))
    BY <1>1, <1>2, ChoiceFollowsShares
  <2> QED
    BY <1>1, <2>1, <2>2, Sizes, WalkFindsRange
<1>4. /\ table' = table /\ turn' = 1
      /\ picks' = [picks EXCEPT ![1][chosen] = @ + 1]
      /\ Advance(w)
  <2>1. DOMAIN table = {1} /\ table[1] = w
    BY <1>1
  <2>2. Cardinality(DOMAIN table) = 1
    BY <2>1, FS_Singleton
  <2> QED
    BY <1>1, <2>1, <2>2 DEF Request
<1> HIDE DEF chosen
<1>5. /\ DOMAIN picks' = {1} /\ picks'[1] = [picks[1] EXCEPT ![chosen] = @ + 1]
      /\ picks'[1] \in [DOMAIN w -> Nat]
  BY <1>1, <1>3, <1>4
<1>6. SumFunction(picks'[1]) = k + 1
  BY <1>1, <1>3, <1>5, Sizes, SumIncrement
<1> HIDE DEF k
<1>7. Ticks(w) => counter' = (k + 1) % CounterModulus
  BY <1>1, <1>2, <1>4 DEF Advance
<1>8. ASSUME NEW i \in DOMAIN w PROVE picks'[1][i] = Share(w, i, k + 1)
  <2>1. Share(w, i, k + 1) = IF chosen = i THEN Share(w, i, k) + 1 ELSE Share(w, i, k)
    BY <1>1, <1>2, <1>3, ShareGrows
  <2> QED
    BY <1>1, <1>5, <2>1
<1>9. k + 1 \in 0..Sample
  BY <1>2, SampleAssumption
<1> QED
  BY <1>1, <1>4, <1>5, <1>6, <1>7, <1>8, <1>9 DEF Shares

LEMMA SharesHold ==
  ASSUME OneRouteAlone
  PROVE  Spec => []Shares
<1>1. Init => Shares
  BY InitShares
<1>2. Shares /\ [Request]_vars => Shares'
  <2>1. ASSUME Shares, UNCHANGED vars PROVE Shares'
    BY <2>1 DEF Shares, vars
  <2> QED
    BY <2>1, RequestShares
<1> QED
  BY <1>1, <1>2, PTL DEF Spec

\* After whole cycles a share is the number of cycles times the weight.
LEMMA SharesAreExact ==
  ASSUME Shares
  PROVE  WholeCyclesAreExact
<1> DEFINE k == SumFunction(picks[1])
<1>1. PICK w : /\ Weighted(w) /\ table = <<w>> /\ k \in 0..Sample
               /\ \A i \in DOMAIN w : picks[1][i] = Share(w, i, k)
  BY DEF Shares
<1> DEFINE t == TotalWeight(w)
<1>2. t \in Nat \ {0} /\ k \in Nat /\ \A i \in DOMAIN w : w[i] \in Nat
  BY <1>1, Sizes, SampleAssumption
<1>3. ASSUME k % t = 0, NEW i \in DOMAIN w PROVE picks[1][i] * t = w[i] * k
  <2> DEFINE q == k \div t
  <2>1. Before(w, i) \in Nat
    BY <1>1, <1>3, RunningSum
  <2>2. q \in Nat /\ k = t * q
    <3>1. q \in Nat /\ k = t * q + (k % t)
      BY <1>2, Cycle
    <3> QED
      BY <1>2, <1>3, <3>1
  <2>3. picks[1][i] = w[i] * q
    <3>1. Passed(0 - Before(w, i), w[i]) = 0
      BY <2>1 DEF Passed
    <3>2. Share(w, i, k) = w[i] * q + 0
      BY <1>3, <3>1 DEF Share
    <3>3. w[i] * q \in Int
      BY <1>2, <1>3, <2>2
    <3> QED
      BY <1>1, <1>3, <3>2, <3>3
  <2>4. \A a, b, c \in Nat : (a * b) * c = a * (c * b)
    BY SMT
  <2>5. w[i] \in Nat
    BY <1>2, <1>3
  <2> HIDE DEF t, k, q
  <2> QED
    BY <1>2, <2>2, <2>3, <2>4, <2>5
<1>4. DOMAIN table = {1} /\ table[1] = w
  BY <1>1
<1> HIDE DEF t
<1> QED
  BY <1>3, <1>4 DEF WholeCyclesAreExact, Taken, t

-----------------------------------------------------------------------------
(* How far from its share a provider can be, within a cycle and over the     *)
(* sample.                                                                   *)

\* Facts of arithmetic, on their own for the prover.
LEMMA TimesIsMonotone ==
  \A a, b, c \in Nat : a <= b => a * c <= b * c /\ c * a <= c * b
BY SMT

LEMMA TimesDistributes ==
  \A a, b, c \in Nat : a * (b + c) = a * b + a * c /\ (a + b) * c = a * c + b * c
BY SMT

LEMMA TimesCommutes ==
  /\ \A a, b \in Nat : a * b \in Nat /\ a * b = b * a
  /\ \A a, b, c \in Nat : (a * b) * c = (a * c) * b
BY SMT

\* Of a range of size w in a cycle of w + u tickets, r tickets into the cycle.
LEMMA WithinACycle ==
  ASSUME NEW w \in Nat, NEW u \in Nat, NEW r \in Nat, NEW from \in Nat,
         from <= u, r <= w + u
  PROVE  LET p == Passed(r - from, w)
         IN /\ p \in Nat
            /\ p * (w + u) - w * r <= w * u
            /\ w * r - p * (w + u) <= w * u
<1> DEFINE p == Passed(r - from, w)
<1>1. p \in Nat /\ p <= w /\ p <= r /\ r <= u + p
  BY DEF Passed
<1> HIDE DEF p
<1>2. p * u <= w * u /\ p * w <= r * w /\ w * r <= w * (u + p)
  BY <1>1, TimesIsMonotone
<1>3. p * (w + u) = p * w + p * u /\ w * (u + p) = w * u + w * p
  BY <1>1, TimesDistributes
<1>4. /\ r * w = w * r /\ w * p = p * w
      /\ w * r \in Nat /\ p * w \in Nat /\ p * u \in Nat /\ w * u \in Nat
  BY <1>1, TimesCommutes
<1> QED
  BY <1>1, <1>2, <1>3, <1>4 DEF p

\* Whole cycles leave no one behind, so the cycle under way is all that counts.
LEMMA SharesAreNear ==
  ASSUME Shares
  PROVE  NeverFarOff
<1> DEFINE k == SumFunction(picks[1])
<1>1. PICK w : /\ Weighted(w) /\ table = <<w>> /\ k \in 0..Sample
               /\ \A i \in DOMAIN w : picks[1][i] = Share(w, i, k)
  BY DEF Shares
<1> DEFINE t == TotalWeight(w)
<1>2. t \in Nat \ {0} /\ k \in Nat /\ \A i \in DOMAIN w : w[i] \in Nat
  BY <1>1, Sizes, SampleAssumption
<1>3. ASSUME NEW i \in DOMAIN w
      PROVE  /\ picks[1][i] * t - w[i] * k <= w[i] * (t - w[i])
             /\ -(picks[1][i] * t - w[i] * k) <= w[i] * (t - w[i])
  <2> DEFINE q == k \div t
             r == k % t
             from == Before(w, i)
             u == t - w[i]
             p == Passed(r - from, w[i])
             v == w[i]
             n == picks[1][i]
  <2>1. v \in Nat /\ from \in Nat /\ from + v <= t
    BY <1>1, <1>2, <1>3, RunningSum
  <2>2. q \in Nat /\ r \in 0..(t - 1) /\ k = t * q + r
    BY <1>2, Cycle
  <2>3. n = v * q + p
    BY <1>1, <1>3 DEF Share
  <2> HIDE DEF k, t, q, r, from, v, n
  <2>4. u \in Nat /\ t = v + u /\ from <= u /\ r \in Nat /\ r <= v + u
    BY <1>2, <2>1, <2>2 DEF v
  <2>5. /\ p \in Nat
        /\ p * (v + u) - v * r <= v * u
        /\ v * r - p * (v + u) <= v * u
    <3> HIDE DEF u
    <3> QED
      BY <2>1, <2>4, WithinACycle DEF v
  <2> HIDE DEF u, p
  <2>6. n * t = (v * q) * t + p * t /\ v * k = v * (t * q) + v * r
    <3>1. v * q \in Nat /\ t * q \in Nat
      BY <1>2, <2>1, <2>2, TimesCommutes
    <3> QED
      BY <1>2, <2>1, <2>2, <2>3, <2>4, <2>5, <3>1, TimesDistributes
  <2>7. (v * q) * t = v * (t * q)
    <3>1. \A a, b, c \in Nat : (a * b) * c = a * (c * b)
      BY SMT
    <3> QED
      BY <1>2, <2>1, <2>2, <3>1
  <2>8. /\ (v * q) * t \in Nat /\ p * t \in Nat /\ v * r \in Nat /\ v * u \in Nat
    <3>1. v * q \in Nat
      BY <2>1, <2>2, TimesCommutes
    <3> QED
      BY <1>2, <2>1, <2>4, <2>5, <3>1, TimesCommutes
  <2>9. n * t - v * k = p * t - v * r
    BY <2>6, <2>7, <2>8
  <2>10. n * t - v * k <= v * u /\ -(n * t - v * k) <= v * u
    BY <2>4, <2>5, <2>8, <2>9
  <2> QED
    BY <2>10 DEF v, n, u
<1>4. DOMAIN table = {1} /\ table[1] = w
  BY <1>1
<1> HIDE DEF t
<1> QED
  BY <1>3, <1>4 DEF NeverFarOff, Taken, t

\* For any number of providers and any weights: at every moment each provider of
\* a route that is alone on the counter is near its share.
THEOREM SharesStayNear ==
  ASSUME OneRouteAlone
  PROVE  Spec => []NeverFarOff
<1>1. Spec => []Shares
  BY SharesHold
<1>2. Shares => NeverFarOff
  BY SharesAreNear
<1> QED
  BY <1>1, <1>2, PTL

\* The sample is at least five cycles: 1000 requests for weights up to 200 in all.
LightWeights == \A t \in Tables : 5 * TotalWeight(t[1]) <= Sample

\* The product of two parts is at most a quarter of the square of the whole.
LEMMA QuarterOfSquare ==
  ASSUME NEW v \in Nat, NEW u \in Nat
  PROVE  4 * (v * u) <= (v + u) * (v + u)
<1>1. \A a, b \in Nat : a <= b => 4 * (a * b) <= (a + b) * (a + b)
  <2> SUFFICES ASSUME NEW a \in Nat, NEW b \in Nat, a <= b
               PROVE  4 * (a * b) <= (a + b) * (a + b)
    OBVIOUS
  <2>1. PICK d \in Nat : b = a + d
    <3>1. b - a \in Nat /\ b = a + (b - a)
      OBVIOUS
    <3> QED
      BY <3>1
  <2>2. a * b = a * a + a * d
    BY <2>1, TimesDistributes
  <2>3. (a + b) * (a + b) = (a * a + a * b) + (a * b + b * b)
    <3>1. (a + b) * (a + b) = a * (a + b) + b * (a + b)
      BY TimesDistributes
    <3>2. a * (a + b) = a * a + a * b /\ b * (a + b) = b * a + b * b
      BY TimesDistributes
    <3> QED
      BY <3>1, <3>2, TimesCommutes
  <2>4. b * b = (a * a + a * d) + (a * d + d * d)
    <3>1. b * b = a * b + d * b
      BY <2>1, TimesDistributes
    <3>2. d * b = d * a + d * d
      BY <2>1, TimesDistributes
    <3>3. d * a = a * d
      BY TimesCommutes
    <3> QED
      BY <2>2, <3>1, <3>2, <3>3
  <2>5. a * a \in Nat /\ a * d \in Nat /\ d * d \in Nat
    BY TimesCommutes
  <2> QED
    BY <2>2, <2>3, <2>4, <2>5
<1>2. CASE v <= u
  BY <1>1, <1>2
<1>3. CASE u <= v
  <2>1. 4 * (u * v) <= (u + v) * (u + v)
    BY <1>1, <1>3
  <2>2. u * v = v * u /\ u + v = v + u
    BY TimesCommutes
  <2> QED
    BY <2>1, <2>2
<1> QED
  BY <1>2, <1>3

\* A quarter of a cycle is five per cent of five cycles.
LEMMA NearIsWithinFive ==
  ASSUME Shares, NeverFarOff, table \in Tables, LightWeights
  PROVE  WithinFivePercent
<1>1. PICK w : Weighted(w) /\ table = <<w>> /\ picks[1] \in [DOMAIN w -> Nat]
  BY DEF Shares
<1> DEFINE t == TotalWeight(w)
<1>2. DOMAIN table = {1} /\ table[1] = w
  BY <1>1
<1>3. t \in Nat \ {0} /\ Sample \in Nat /\ 5 * t <= Sample
  BY <1>1, <1>2, Sizes, SampleAssumption DEF LightWeights
<1>4. ASSUME Taken(1) = Sample, NEW i \in DOMAIN w
      PROVE  LET off == picks[1][i] * t - w[i] * Sample
             IN off * 100 <= 5 * Sample * t /\ -off * 100 <= 5 * Sample * t
  <2> DEFINE off == picks[1][i] * t - w[i] * Sample
             v == w[i]
             u == t - v
  <2>1. v \in Nat /\ u \in Nat /\ t = v + u
    <3>1. Before(w, i) \in Nat /\ w[i] \in Nat /\ Before(w, i) + w[i] <= t
      BY <1>1, <1>4, RunningSum, Sizes
    <3> HIDE DEF t
    <3> QED
      BY <1>3, <3>1
  <2>2. off \in Int /\ off <= v * u /\ -off <= v * u
    <3>1. off <= v * u /\ -off <= v * u
      BY <1>2, <1>4 DEF NeverFarOff
    <3>2. picks[1][i] \in Nat
      BY <1>1, <1>4
    <3>3. off \in Int
      <4> HIDE DEF t, v
      <4>1. picks[1][i] * t \in Nat /\ v * Sample \in Nat
        BY <1>3, <2>1, <3>2, TimesCommutes
      <4> QED
        BY <4>1 DEF v
    <3> QED
      BY <3>1, <3>3
  <2> HIDE DEF off, u, v, t
  <2>3. 4 * (v * u) <= t * t
    BY <2>1, QuarterOfSquare
  <2>4. (5 * t) * t <= Sample * t
    BY <1>3, TimesIsMonotone
  <2>5. (5 * t) * t = 5 * (t * t) /\ 5 * Sample * t = 5 * (Sample * t)
    <3>1. \A b, c \in Nat : (5 * b) * c = 5 * (b * c)
      BY SMT
    <3> QED
      BY <1>3, <3>1
  <2>6. v * u \in Nat /\ t * t \in Nat /\ Sample * t \in Nat
    BY <1>3, <2>1, TimesCommutes
  <2>7. off * 100 <= 5 * Sample * t /\ -off * 100 <= 5 * Sample * t
    BY <2>2, <2>3, <2>4, <2>5, <2>6
  <2> QED
    BY <2>7 DEF off, v
<1> HIDE DEF t
<1> QED
  BY <1>2, <1>4 DEF WithinFivePercent, t

\* The documented "at most 5% deviation over 1000 requests" holds of every route
\* that has the counter to itself and whose weights add up to at most 200.
THEOREM DeviationIsSmall ==
  ASSUME OneRouteAlone, LightWeights
  PROVE  Spec => []WithinFivePercent
<1>1. Spec => []Shares
  BY SharesHold
<1>2. Spec => [](table \in Tables)
  <2>1. Init => table \in Tables
    BY DEF Init
  <2>2. table \in Tables /\ [Request]_vars => (table \in Tables)'
    BY DEF Request, vars
  <2> QED
    BY <2>1, <2>2, PTL DEF Spec
<1>3. Shares /\ table \in Tables => WithinFivePercent
  BY SharesAreNear, NearIsWithinFive
<1> QED
  BY <1>1, <1>2, <1>3, PTL

\* For a route of any length, any weights and any counter width: whenever a whole
\* number of cycles of select_provider is over, each provider has had exactly its
\* weight of the requests.
THEOREM CyclesAreExact ==
  ASSUME OneRouteAlone
  PROVE  Spec => []WholeCyclesAreExact
<1>1. Spec => []Shares
  BY SharesHold
<1>2. Shares => WholeCyclesAreExact
  BY SharesAreExact
<1> QED
  BY <1>1, <1>2, PTL
=============================================================================
