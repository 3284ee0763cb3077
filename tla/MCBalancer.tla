----------------------------- MODULE MCBalancer -----------------------------
(***************************************************************************)
(* Balancer for TLC: requests arrive in turn on the routes of a table, all *)
(* drawing on the one counter, and the selections are counted.             *)
(***************************************************************************)
EXTENDS Balancer

CONSTANTS Tables,   \* the routing tables to try: route -> (position -> weight)
          Sample    \* the number of requests counted on each route

ASSUME SampleAssumption == Sample \in Nat \ {0}

VARIABLES table,    \* the routing table in force
          turn,     \* the route of the next request
          picks     \* how often each route has selected each position

vars == <<counter, table, turn, picks>>

\* Every list of two or three providers with weights up to 3, on its own.
SingleRoutes ==
  {<<w>> : w \in {v \in [1..2 -> 0..3] \cup [1..3 -> 0..3] : ~Refuses(v)}}

\* Two routes that split their load evenly.
TwoEvenRoutes == {<< <<1, 1>>, <<1, 1>> >>}

Taken(route) == SumFunction(picks[route])

Init ==
  /\ CounterInit
  /\ table \in Tables
  /\ turn = 1
  /\ picks = [route \in DOMAIN table |-> [i \in DOMAIN table[route] |-> 0]]

Request ==
  /\ Taken(turn) < Sample
  /\ picks' = [picks EXCEPT ![turn][Choice(table[turn])] = @ + 1]
  /\ Advance(table[turn])
  /\ turn' = IF turn = Cardinality(DOMAIN table) THEN 1 ELSE turn + 1
  /\ UNCHANGED table

Spec == Init /\ [][Request]_vars

\* Over every whole number of cycles a route gives each provider exactly its
\* weight: no position is skipped or visited twice where ranges meet, and a
\* provider without weight is never selected.
WholeCyclesAreExact ==
  \A route \in DOMAIN table :
    LET total == TotalWeight(table[route])
    IN Taken(route) % total = 0 =>
         \A i \in DOMAIN table[route] :
           picks[route][i] * total = table[route][i] * Taken(route)

\* In the midst of a cycle too: a provider of weight w out of W is never more than
\* w * (W - w) / W requests ahead of its share, or behind it, which is a quarter
\* of a cycle at worst.
NeverFarOff ==
  \A route \in DOMAIN table :
    LET total == TotalWeight(table[route])
        ahead(i) == picks[route][i] * total - table[route][i] * Taken(route)
    IN \A i \in DOMAIN table[route] :
         LET most == table[route][i] * (total - table[route][i])
         IN ahead(i) <= most /\ -ahead(i) <= most

\* As documented: over the whole sample the share of each provider is within
\* five percentage points of its weight.
WithinFivePercent ==
  \A route \in DOMAIN table :
    LET total == TotalWeight(table[route])
        offBy(i) == picks[route][i] * total - table[route][i] * Sample
    IN Taken(route) = Sample =>
         \A i \in DOMAIN table[route] :
           /\ offBy(i) * 100 <= 5 * Sample * total
           /\ -offBy(i) * 100 <= 5 * Sample * total
=============================================================================
