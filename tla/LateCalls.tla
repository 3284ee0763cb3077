----------------------------- MODULE LateCalls -----------------------------
(***************************************************************************)
(* A history of the gateway: which requests had passed the breaker but not *)
(* reached the provider yet when its circuit opened.  Between is_available *)
(* and the call, src/src/router.rs resolves the provider, awaits a token   *)
(* and translates the payload, so the answer of the check may be stale by  *)
(* then.                                                                   *)
(***************************************************************************)
EXTENDS Gateway

VARIABLE overtaken   \* requests overtaken by the cut-off, of each provider

lateVars == <<vars, overtaken>>

\* Granted, and neither called nor over.
Waiting(p) == {r \in Requests : req[r].stage = "prepare" /\ Selected(r) = p}

Opens(p) == circuit[p] # "Open" /\ circuit'[p] = "Open"

LateInit == Init /\ overtaken = [p \in Providers |-> {}]

LateNext ==
  /\ Next
  /\ overtaken' = [p \in Providers |->
                    IF Opens(p) THEN Waiting(p)' ELSE overtaken[p] \cap Waiting(p)']

LateSpec == LateInit /\ [][LateNext]_lateVars

\* The request goes from its grant to the call (a stream: to its reply).
Proceeds(r) == req[r].stage = "prepare" /\ req'[r].stage \in {"sent", "record"}

\* A provider that is cut off is called only by requests that the opening of the
\* circuit has overtaken, each of them once: nobody reaches it on an answer of
\* the breaker that was given, or used, during the cut-off.
OnlyOvertakenCallsArriveLate ==
  [][\A r \in Requests :
       /\ Proceeds(r)
       /\ circuit[Selected(r)] = "Open" /\ openFor[Selected(r)] > 0
       => r \in overtaken[Selected(r)] /\ r \notin overtaken'[Selected(r)]]_lateVars
=============================================================================
