---------------------------- MODULE ProviderGate ----------------------------
(***************************************************************************)
(* What a circuit breaker promises its callers, without the windows, the   *)
(* threshold or the growth factor: a provider that is cut off stays cut    *)
(* off for a wait that is at least OpenTtl, at most MaxTtl, and never      *)
(* shorter than the previous one until the provider has recovered; it is   *)
(* tried again only after that wait, and accepted again only by a trial.   *)
(***************************************************************************)
EXTENDS Integers

CONSTANTS Providers, OpenTtl, MaxTtl

VARIABLES phase,   \* what each provider's gate does with a request
          left,    \* the part of the wait that is still to come
          wait     \* the wait of the latest cut-off

gateVars == <<phase, left, wait>>

GateInit ==
  /\ phase = [p \in Providers |-> "Closed"]
  /\ left = [p \in Providers |-> 0]
  /\ wait = [p \in Providers |-> OpenTtl]

CutOff(p, ttl) ==
  /\ phase' = [phase EXCEPT ![p] = "Open"]
  /\ left' = [left EXCEPT ![p] = ttl]
  /\ wait' = [wait EXCEPT ![p] = ttl]

FirstCutOff(p) == phase[p] = "Closed" /\ CutOff(p, OpenTtl)

FailedTrial(p) ==
  /\ phase[p] = "HalfOpen"
  /\ \E ttl \in wait[p]..MaxTtl : CutOff(p, ttl)

Trial(p) ==
  /\ phase[p] = "Open" /\ left[p] = 0
  /\ phase' = [phase EXCEPT ![p] = "HalfOpen"]
  /\ UNCHANGED <<left, wait>>

Accept(p) ==
  /\ phase[p] = "HalfOpen"
  /\ phase' = [phase EXCEPT ![p] = "Closed"]
  /\ wait' = [wait EXCEPT ![p] = OpenTtl]
  /\ UNCHANGED left

PassTime ==
  /\ left' = [p \in Providers |-> IF left[p] = 0 THEN 0 ELSE left[p] - 1]
  /\ UNCHANGED <<phase, wait>>

GateNext ==
  \/ \E p \in Providers : FirstCutOff(p) \/ FailedTrial(p) \/ Trial(p) \/ Accept(p)
  \/ PassTime

GateSpec == GateInit /\ [][GateNext]_gateVars
=============================================================================
