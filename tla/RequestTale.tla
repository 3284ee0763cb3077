---------------------------- MODULE RequestTale ----------------------------
(***************************************************************************)
(* What failover promises the client of a request, without routes, rounds, *)
(* weights and circuits: providers are asked one after the other, none of  *)
(* them twice, at most three, and the next one only after an answer that   *)
(* leaves hope; the client is told what the last one answered, or why      *)
(* nobody was asked (any more).  A stream is handed to the client before a *)
(* provider has been asked.                                                *)
(***************************************************************************)
EXTENDS Integers, Sequences, Functions

CONSTANTS Requests, Providers

VARIABLE tale   \* of each request: what its providers were asked, and answered

\* What the client is told of the last answer.
Tells ==
  [ok |-> "Ok", badBody |-> "ProviderError", rateLimited |-> "RateLimited",
   serverError |-> "ServiceUnavailable", network |-> "ServiceUnavailable",
   timeout |-> "ServiceUnavailable", otherStatus |-> "ProviderError"]
Final == {"ok", "badBody"}   \* these are not asked about again

\* The gateway's own reasons to stop.
Own == {"NoProviders", "AuthUnavailable", "Internal"}

\* A request under way: whom it was put to, and the last answer; or over.
UnderWay(state, stream, asked, last) ==
  [state |-> state, stream |-> stream, asked |-> asked, last |-> last, reply |-> "none"]
Over(reply) ==
  [state |-> "over", stream |-> FALSE, asked |-> <<>>, last |-> "none", reply |-> reply]

TaleInit == tale = [r \in Requests |-> Over("none")]

Goes(r, t) == tale' = [tale EXCEPT ![r] = t]

Begin(r) ==
  /\ tale[r].state = "over"
  /\ \E stream \in BOOLEAN : Goes(r, UnderWay("open", stream, <<>>, "none"))

Ask(r, p) ==
  /\ tale[r].state = "open" /\ ~tale[r].stream
  /\ tale[r].last \notin Final
  /\ p \notin Range(tale[r].asked) /\ Len(tale[r].asked) < 3
  /\ Goes(r, UnderWay("waiting", FALSE, Append(tale[r].asked, p), tale[r].last))

Hear(r, answer) ==
  /\ tale[r].state = "waiting"
  /\ Goes(r, UnderWay("open", FALSE, tale[r].asked, answer))

\* The provider finds fault with the request itself.
Reject(r, reply) ==
  /\ tale[r].state = "waiting"
  /\ Goes(r, Over(reply))

Finish(r, reply) ==
  /\ tale[r].state = "open"
  /\ \/ tale[r].last # "none" /\ reply = Tells[tale[r].last]
     \/ tale[r].last \notin Final /\ reply \in Own
     \/ tale[r].last = "none" /\ reply = "Exhausted"
     \/ tale[r].stream /\ reply = "Ok"
  /\ Goes(r, Over(reply))

\* The client leaves.
Leave(r) == tale[r].state # "over" /\ Goes(r, Over("none"))

TaleNext ==
  \E r \in Requests :
    \/ Begin(r) \/ Leave(r)
    \/ \E p \in Providers : Ask(r, p)
    \/ \E answer \in DOMAIN Tells : Hear(r, answer)
    \/ \E reply \in {"BadRequest", "Unauthorized"} : Reject(r, reply)
    \/ \E reply \in Own \cup {"Exhausted"} \cup Range(Tells) : Finish(r, reply)

TaleSpec == TaleInit /\ [][TaleNext]_tale
=============================================================================
