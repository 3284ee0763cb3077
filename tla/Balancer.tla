------------------------------ MODULE Balancer ------------------------------
(***************************************************************************)
(* WeightedRoundRobin of src/src/balancer.rs: one atomic counter, shared   *)
(* by every route and every request, whose value modulo the total weight   *)
(* of the providers on offer selects one of them.                          *)
(*                                                                         *)
(* The slice of providers is the function `weights` from the positions     *)
(* that are on offer in a route to their weights: the caller filters the   *)
(* providers it excludes and the positions left keep their order.          *)
(***************************************************************************)
EXTENDS Integers, FiniteSetsExt, Functions

CONSTANT CounterModulus   \* the counter is a u64 that wraps: 2^64

ASSUME CounterAssumption == CounterModulus \in Nat \ {0}

VARIABLE counter

CounterOK == counter \in 0..(CounterModulus - 1)

CounterInit == counter = 0

TotalWeight(weights) == SumFunction(weights)

\* The running sum of the walk, once it has passed position i.
Cumulative(weights, i) == SumFunctionOnSet(weights, {j \in DOMAIN weights : j <= i})

\* "No providers available": nothing on offer, or several and none has weight.
Refuses(weights) ==
  \/ DOMAIN weights = {}
  \/ Cardinality(DOMAIN weights) > 1 /\ TotalWeight(weights) = 0

\* The single-provider fast path neither looks at the weight nor ticks.
Ticks(weights) == Cardinality(DOMAIN weights) > 1 /\ TotalWeight(weights) > 0

\* Fault: ranges are taken to include their upper end.
WalkInclusive(weights, position) ==
  LET reached == {i \in DOMAIN weights : position <= Cumulative(weights, i)}
  IN IF reached # {} THEN Min(reached) ELSE Max(DOMAIN weights)

\* The first provider whose running sum exceeds the position in the cycle.
Walk(weights, position) ==
  LET reached == {i \in DOMAIN weights : position < Cumulative(weights, i)}
  IN IF reached # {} THEN Min(reached) ELSE Max(DOMAIN weights)

\* The position that select_provider answers when it does not refuse.
Choice(weights) ==
  IF Ticks(weights) THEN Walk(weights, counter % TotalWeight(weights))
                    ELSE Min(DOMAIN weights)

\* fetch_add on the shared counter, for a slice that ticks.
Advance(weights) ==
  counter' = IF Ticks(weights) THEN (counter + 1) % CounterModulus ELSE counter
=============================================================================
