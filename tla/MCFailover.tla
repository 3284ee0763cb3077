----------------------------- MODULE MCFailover -----------------------------
(***************************************************************************)
(* Gateway for TLC: one connection, requests of every kind one after the   *)
(* other over routes of every shape, so that each meets the circuits that  *)
(* earlier ones left behind.                                               *)
(***************************************************************************)
EXTENDS Gateway

CONSTANTS p1, p2, p3, p4, r1

Weighted(name, weight) == [name |-> name, weight |-> weight]

\* No provider at all, three of unequal weight, a name that occurs twice, and
\* weights that leave several providers on offer but none selectable.
ShortRoutes ==
  {<<>>,
   <<Weighted(p1, 1), Weighted(p2, 2), Weighted(p3, 1)>>,
   <<Weighted(p1, 1), Weighted(p2, 1), Weighted(p1, 1)>>,
   <<Weighted(p3, 1), Weighted(p1, 0), Weighted(p2, 0)>>}

\* More providers than the loop has attempts.
LongRoute ==
  {<<Weighted(p1, 1), Weighted(p2, 1), Weighted(p3, 1), Weighted(p4, 1)>>}
=============================================================================
