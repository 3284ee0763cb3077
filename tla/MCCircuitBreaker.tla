-------------------------- MODULE MCCircuitBreaker --------------------------
(***************************************************************************)
(* CircuitBreaker for TLC.  Circuits do not influence each other, so one   *)
(* provider carries every behaviour of the breaker.                        *)
(***************************************************************************)
EXTENDS CircuitBreaker
=============================================================================
