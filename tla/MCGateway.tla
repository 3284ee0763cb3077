----------------------------- MODULE MCGateway -----------------------------
(***************************************************************************)
(* Gateway for TLC, with the history of LateCalls.                         *)
(***************************************************************************)
EXTENDS LateCalls, TLC

CONSTANTS p1, p2, p3, r1, r2

Weighted(name, weight) == [name |-> name, weight |-> weight]

TwoProviders == {<<Weighted(p1, 1), Weighted(p2, 1)>>}

ConnectionSymmetry == Permutations(Requests)
=============================================================================
