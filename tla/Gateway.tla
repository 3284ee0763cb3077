------------------------------- MODULE Gateway -------------------------------
(***************************************************************************)
(* chat_completions_handler of src/src/router.rs, run by concurrent        *)
(* requests over one shared circuit breaker and one shared balancer.       *)
(*                                                                         *)
(* A request is a future: between two await points it runs on alone as far *)
(* as the state the others see is concerned, and at an await point every   *)
(* other request may run and the client may disconnect, which drops it.    *)
(* The await points are the breaker's write lock ("check", "record"), the  *)
(* token fetch of a Vertex provider ("prepare") and the provider's answer  *)
(* ("sent").  What does not decide the control flow (compaction, bodies,   *)
(* headers, metrics) is left out.                                          *)
(***************************************************************************)
EXTENDS Balancer, Sequences   \* one balancer: its counter is a variable of the gateway

CONSTANTS Requests,           \* the connections requests arrive on
          Routes,             \* provider lists: sequences of [name, weight]
          Streaming,          \* whether requests stream: a subset of BOOLEAN
          Answers,            \* the ways a call to a provider can end
          AdcProviders,       \* vertex_anthropic: a token is fetched first
          TranslatedProviders \* anthropic, vertex_anthropic: the payload is translated

CONSTANTS Providers, Slots, WindowDuration, MinRequests, FailureThreshold,
          OpenTtl, MaxTtl, BackoffNum, BackoffDen

VARIABLES circuit, openFor, currentBackoff, totalRequests, failures, age

VARIABLES req,    \* the local variables of the handler of each request
          trace   \* history of each request: what its providers saw and did

breakerVars == <<circuit, openFor, currentBackoff, totalRequests, failures, age>>
vars == <<breakerVars, counter, req, trace>>

Breaker == INSTANCE CircuitBreaker

\* Fault: any HTTP answer is taken for a sign that the provider is up.
RecordedByReachability ==
  [ok |-> "Success", badBody |-> "Success", streamOpened |-> "Success",
   rateLimited |-> "RateLimited", serverError |-> "Success",
   network |-> "Failure", timeout |-> "Timeout"]

\* How a call to a provider can end, with what the handler tells the breaker.
\* ("streamOpened" is no answer: send_stream returns before it connects.)
Recorded ==
  [ok |-> "Success", badBody |-> "Success", streamOpened |-> "Success",
   rateLimited |-> "RateLimited", serverError |-> "Failure",
   network |-> "Failure", timeout |-> "Timeout"]
\* ... and, when the breaker is not told, with the reply to the client.
Rejected == [badRequest |-> "BadRequest", authError |-> "Unauthorized"]
AllAnswers == {"ok", "badBody", "rateLimited", "serverError", "network", "timeout",
               "badRequest", "authError", "otherStatus"}

ASSUME GatewayAssumption ==
  /\ Routes \subseteq Seq([name : Providers, weight : Nat])
  /\ Streaming \subseteq BOOLEAN
  /\ Answers \subseteq AllAnswers
  /\ Breaker!ConfigAssumption
  /\ AdcProviders \subseteq TranslatedProviders

\* Fault: the client error is passed on instead of the gateway error.
ErrorUnmapped ==
  [rateLimited |-> "rateLimited", serverError |-> "serverError",
   network |-> "network", timeout |-> "timeout", otherStatus |-> "otherStatus"]

\* The error that is remembered for the client when the next provider is tried.
ErrorOf ==
  [rateLimited |-> "RateLimited", serverError |-> "ServiceUnavailable",
   network |-> "ServiceUnavailable", timeout |-> "ServiceUnavailable",
   otherStatus |-> "ProviderError"]
Errors == {"RateLimited", "ServiceUnavailable", "ProviderError"}

\* Replies with the same status are told apart by their message.
Replies == Errors \cup {"Ok", "BadRequest", "Unauthorized", "Internal",
                        "AuthUnavailable", "NoProviders", "Exhausted"}

Stages == {"idle", "select", "check", "prepare", "sent", "record", "replied"}
Active == {r \in Requests : req[r].stage \notin {"idle", "replied"}}

Selected(r) == req[r].route[req[r].selected].name

\* Fault: the retries are counted, not the attempts.
MaxRetries(route) == IF Len(route) < 2 THEN Len(route) ELSE 2

MaxAttempts(route) == IF Len(route) < 3 THEN Len(route) ELSE 3

\* `available`: the providers of the route that are not excluded, by position.
Offered(r) ==
  LET route == req[r].route
      left == {i \in DOMAIN route : route[i].name \notin req[r].excluded}
  IN [i \in left |-> route[i].weight]
-----------------------------------------------------------------------------
Idle == [stage |-> "idle", route |-> <<>>, stream |-> FALSE, attempts |-> 0,
         excluded |-> {}, lastError |-> "none", selected |-> 0,
         outcome |-> "none", reply |-> "none"]

NoTrace == [contacted |-> <<>>, refused |-> {}, probe |-> FALSE, heard |-> "none"]

Init ==
  /\ Breaker!Init
  /\ CounterInit
  /\ req = [r \in Requests |-> Idle]
  /\ trace = [r \in Requests |-> NoTrace]

\* The request is answered: what the handler knew is gone with its future.
Reply(r, reply) ==
  /\ req' = [req EXCEPT ![r] = [Idle EXCEPT !.stage = "replied", !.reply = reply]]
  /\ trace' = [trace EXCEPT ![r] = NoTrace]

\* Fault: the provider is not excluded.
TryAgain(r, error) ==
  req' = [req EXCEPT ![r].stage = "select", ![r].attempts = @ + 1,
                     ![r].lastError = IF error = "none" THEN @ ELSE error]

\* Fault: an open circuit clears last_error.
TryNextForgetful(r, error) ==
  req' = [req EXCEPT ![r].stage = "select", ![r].attempts = @ + 1,
                     ![r].excluded = @ \cup {Selected(r)}, ![r].lastError = error]

\* Fault: a refusal by the breaker is not an attempt.
TryNextUncounted(r, error) ==
  req' = [req EXCEPT ![r].stage = "select", ![r].attempts = IF error = "none" THEN @ ELSE @ + 1,
                     ![r].excluded = @ \cup {Selected(r)},
                     ![r].lastError = IF error = "none" THEN @ ELSE error]

\* The provider is excluded and the loop goes round; error "none" keeps last_error.
TryNext(r, error) ==
  req' = [req EXCEPT ![r].stage = "select", ![r].attempts = @ + 1,
                     ![r].excluded = @ \cup {Selected(r)},
                     ![r].lastError = IF error = "none" THEN @ ELSE error]

\* A valid request arrives and its route is resolved (an unknown path has no
\* providers).  Bound: the windows have room for what active requests record.
Start(r, route, stream) ==
  /\ req[r].stage \in {"idle", "replied"}
  /\ \A p \in Providers : Cardinality(Breaker!Prune(p, totalRequests[p]))
                            + Cardinality(Active) < Cardinality(Slots)
  /\ req' = [req EXCEPT ![r] = [Idle EXCEPT !.stage = "select", !.route = route,
                                            !.stream = stream]]
  /\ UNCHANGED <<breakerVars, counter, trace>>

\* Fault: a round with nothing on offer is not ended.
GiveUpAtLimit(r) ==
  /\ req[r].stage = "select"
  /\ req[r].attempts = MaxAttempts(req[r].route)
  /\ Reply(r, IF req[r].lastError = "none" THEN "Exhausted" ELSE req[r].lastError)
  /\ UNCHANGED <<breakerVars, counter>>

\* The for loop ends, or starts a round with every provider excluded.
GiveUp(r) ==
  /\ req[r].stage = "select"
  /\ \/ req[r].attempts = MaxAttempts(req[r].route)
     \/ DOMAIN Offered(r) = {}
  /\ Reply(r, IF req[r].lastError = "none" THEN "Exhausted" ELSE req[r].lastError)
  /\ UNCHANGED <<breakerVars, counter>>

\* select_provider, up to the wait for the breaker's lock.  Its error replaces
\* last_error.
Select(r) ==
  /\ req[r].stage = "select"
  /\ req[r].attempts < MaxAttempts(req[r].route)
  /\ DOMAIN Offered(r) # {}
  /\ \/ /\ Refuses(Offered(r))
        /\ Reply(r, "NoProviders")
     \/ /\ ~Refuses(Offered(r))
        /\ req' = [req EXCEPT ![r].stage = "check",
                              ![r].selected = Choice(Offered(r))]
        /\ UNCHANGED trace
  /\ Advance(Offered(r))
  /\ UNCHANGED breakerVars

\* Fault: the last provider left is tried even if its circuit is open.
CheckLastResort(r) ==
  /\ req[r].stage = "check"
  /\ Breaker!IsAvailable(Selected(r))
  /\ \/ /\ Breaker!Available(Selected(r)) \/ Cardinality(DOMAIN Offered(r)) = 1
        /\ req' = [req EXCEPT ![r].stage = "prepare"]
        /\ UNCHANGED trace
     \/ /\ ~Breaker!Available(Selected(r)) /\ Cardinality(DOMAIN Offered(r)) > 1
        /\ TryNext(r, "none")
        /\ trace' = [trace EXCEPT ![r].refused = @ \cup {Selected(r)}]
  /\ UNCHANGED counter

\* Fault: a half-open circuit waits for the result of its one probe.
CheckOneProbe(r) ==
  LET granted == Breaker!Available(Selected(r)) /\ circuit[Selected(r)] # "HalfOpen"
  IN /\ req[r].stage = "check"
     /\ Breaker!IsAvailable(Selected(r))
     /\ \/ /\ granted
           /\ req' = [req EXCEPT ![r].stage = "prepare"]
           /\ UNCHANGED trace
        \/ /\ ~granted
           /\ TryNext(r, "none")
           /\ trace' = [trace EXCEPT ![r].refused = @ \cup {Selected(r)}]
     /\ UNCHANGED counter

\* is_available: a refusal uses up an attempt and leaves last_error as it is.
Check(r) ==
  /\ req[r].stage = "check"
  /\ Breaker!IsAvailable(Selected(r))
  /\ \/ /\ Breaker!Available(Selected(r))
        /\ req' = [req EXCEPT ![r].stage = "prepare"]
        /\ trace' = [trace EXCEPT ![r].probe = circuit'[Selected(r)] = "HalfOpen"]
     \/ /\ ~Breaker!Available(Selected(r))
        /\ TryNext(r, "none")
        /\ trace' = [trace EXCEPT ![r].refused = @ \cup {Selected(r)}]
  /\ UNCHANGED counter

\* Headers and body.  Both ways to fail here end the request without failover
\* and without a result for the breaker.
PrepareFails(r) ==
  /\ req[r].stage = "prepare"
  /\ \/ Selected(r) \in AdcProviders /\ Reply(r, "AuthUnavailable")
     \/ Selected(r) \in TranslatedProviders /\ Reply(r, "Internal")
  /\ UNCHANGED <<breakerVars, counter>>

\* send.
Send(r) ==
  /\ req[r].stage = "prepare" /\ ~req[r].stream
  /\ req' = [req EXCEPT ![r].stage = "sent"]
  /\ trace' = [trace EXCEPT ![r].contacted = Append(@, Selected(r))]
  /\ UNCHANGED <<breakerVars, counter>>

\* send_stream is lazy: nothing has reached the provider when it returns, and
\* a success is about to be recorded.
OpenStream(r) ==
  /\ req[r].stage = "prepare" /\ req[r].stream
  /\ req' = [req EXCEPT ![r].stage = "record", ![r].outcome = "streamOpened"]
  /\ UNCHANGED <<breakerVars, counter, trace>>

\* The call ends, by an answer, a network error or the client's timeout.
Answer(r, answer) ==
  /\ req[r].stage = "sent"
  /\ \/ answer \in DOMAIN Rejected /\ Reply(r, Rejected[answer])
     \/ /\ \/ /\ answer \in DOMAIN Recorded
              /\ req' = [req EXCEPT ![r].stage = "record", ![r].outcome = answer]
           \/ answer = "otherStatus" /\ TryNext(r, ErrorOf[answer])
        /\ trace' = [trace EXCEPT ![r].heard = answer]
  /\ UNCHANGED <<breakerVars, counter>>

\* Fault: a response that cannot be parsed is taken for a failed call.
RecordAndTryNext(r) ==
  LET outcome == req[r].outcome
  IN /\ req[r].stage = "record"
     /\ Breaker!RecordResult(Selected(r), Recorded[outcome])
     /\ \/ outcome \in {"ok", "streamOpened"} /\ Reply(r, "Ok")
        \/ outcome = "badBody" /\ TryNext(r, "ProviderError") /\ UNCHANGED trace
        \/ outcome \in DOMAIN ErrorOf /\ TryNext(r, ErrorOf[outcome]) /\ UNCHANGED trace
     /\ UNCHANGED counter

\* record_result, and what the handler does with the answer after it.
Record(r) ==
  LET outcome == req[r].outcome
  IN /\ req[r].stage = "record"
     /\ Breaker!RecordResult(Selected(r), Recorded[outcome])
     /\ \/ outcome \in {"ok", "streamOpened"} /\ Reply(r, "Ok")
        \/ outcome = "badBody" /\ Reply(r, "ProviderError")
        \/ outcome \in DOMAIN ErrorOf /\ TryNext(r, ErrorOf[outcome]) /\ UNCHANGED trace
     /\ UNCHANGED counter

\* The client goes away while the handler waits: its future is dropped there.
Disconnect(r) ==
  /\ \/ req[r].stage \in {"check", "sent", "record"}
     \/ req[r].stage = "prepare" /\ Selected(r) \in AdcProviders
  /\ req' = [req EXCEPT ![r] = Idle]
  /\ trace' = [trace EXCEPT ![r] = NoTrace]
  /\ UNCHANGED <<breakerVars, counter>>

Tick == Breaker!Tick /\ UNCHANGED <<counter, req, trace>>

\* What the runtime and the HTTP client's timeout drive a request through.
Progress(r) ==
  \/ GiveUp(r) \/ Select(r) \/ Check(r) \/ PrepareFails(r) \/ Send(r)
  \/ OpenStream(r) \/ (\E answer \in Answers : Answer(r, answer)) \/ Record(r)

Next ==
  \/ \E r \in Requests :
       \/ \E route \in Routes, stream \in Streaming : Start(r, route, stream)
       \/ Progress(r)
       \/ Disconnect(r)
  \/ Tick

Spec == Init /\ [][Next]_vars

Fairness == (\A r \in Requests : WF_vars(Progress(r))) /\ WF_vars(Tick)
FairSpec == Spec /\ Fairness

-----------------------------------------------------------------------------
(* Properties.                                                             *)

RequestState ==
  [stage : Stages, route : Routes \cup {<<>>}, stream : BOOLEAN,
   attempts : 0..3, excluded : SUBSET Providers,
   lastError : Errors \cup {"none"}, selected : Nat,
   outcome : DOMAIN Recorded \cup {"none"}, reply : Replies \cup {"none"}]

History ==
  [contacted : Seq(Providers), refused : SUBSET Providers, probe : BOOLEAN,
   heard : AllAnswers \cup {"none"}]

TypeOK ==
  /\ CounterOK
  /\ req \in [Requests -> RequestState]
  /\ trace \in [Requests -> History]

\* Failover never sends one client request to the same provider twice, nor to
\* more than three providers, however circuits open and close while it runs and
\* even if a route names a provider twice.
NeverTwice ==
  \A r \in Requests : LET sent == trace[r].contacted
                      IN Len(sent) <= 3 /\ IsInjective(sent)

\* The requests a provider has been granted to and that are not over yet.
Granted(p) ==
  {r \in Requests : req[r].stage \in {"prepare", "sent", "record"} /\ Selected(r) = p}

\* While a circuit is open and its TTL runs, requests granted earlier may still
\* reach the provider, but no request joins them.
NoNewCallsWhileOpen ==
  [][\A p \in Providers :
       circuit[p] = "Open" /\ openFor[p] > 0 => Granted(p)' \subseteq Granted(p)]_vars

\* A circuit under test closes only when a request that really reached the
\* provider has its 2xx answer (streams aside: see ClosesOnlyOnAnswer).
ClosesOnCallAnswer ==
  [][\A p \in Providers : circuit[p] = "HalfOpen" /\ circuit'[p] = "Closed" =>
       \E r \in Requests :
         /\ req'[r] # req[r] /\ req[r].stage = "record" /\ Selected(r) = p
         /\ \/ req[r].stream
            \/ trace[r].heard \in {"ok", "badBody"} /\ p \in Range(trace[r].contacted)
    ]_vars

Replying(r) == req[r].stage # "replied" /\ req'[r].stage = "replied"

\* The failover loop gives up only when every provider of the route has been
\* asked or was refused by its breaker: up to three providers with a weight.
NoProviderLeftUntried ==
  [][\A r \in Requests : Replying(r) /\ req[r].stage = "select" =>
       LET route == req[r].route
           tried == Range(trace[r].contacted) \cup trace[r].refused
       IN Len(route) <= 3 /\ (\A i \in DOMAIN route : route[i].weight > 0)
            => \A i \in DOMAIN route : route[i].name \in tried]_vars

\* The client is told what happened.  An error of a provider is the answer of
\* the one that failed last, which a circuit refusal in between does not hide;
\* a rejection comes from the provider that was asked last; "all providers
\* exhausted" means that none was even asked.  The gateway's own errors do hide
\* an earlier answer, and only these: "no providers" when each provider of the
\* route that has a weight was asked or refused by its breaker (what is left on
\* offer has none), and a failed token or translation of a provider that the
\* request has not asked.
ReplyTellsTheStory ==
  [][\A r \in Requests : Replying(r) =>
       LET heard == trace[r].heard
           asked == trace[r].contacted
           reply == req'[r].reply
       IN /\ reply = "Ok" => heard = "ok" \/ req[r].stream
          /\ reply = "Exhausted" => asked = <<>>
          /\ reply = "RateLimited" => heard = "rateLimited"
          /\ reply = "ServiceUnavailable" => heard \in {"serverError", "network", "timeout"}
          /\ reply = "ProviderError" => heard \in {"otherStatus", "badBody"}
          /\ reply \in {"BadRequest", "Unauthorized"} =>
               req[r].stage = "sent" /\ Selected(r) \in Range(asked)
          /\ reply \in {"AuthUnavailable", "Internal"} =>
               req[r].stage = "prepare" /\ Selected(r) \notin Range(asked)
          /\ reply = "NoProviders" =>
               \A i \in DOMAIN req[r].route : req[r].route[i].weight > 0 =>
                 req[r].route[i].name \in Range(asked) \cup trace[r].refused]_vars

\* What a client could know of its request: see RequestTale.
TaleOf(r) ==
  IF req[r].stage \in {"idle", "replied"}
    THEN [state |-> "over", stream |-> FALSE, asked |-> <<>>, last |-> "none",
          reply |-> req[r].reply]
    ELSE [state |-> IF req[r].stage = "sent" THEN "waiting" ELSE "open",
          stream |-> req[r].stream, asked |-> trace[r].contacted,
          last |-> trace[r].heard, reply |-> "none"]

EveryTale == [r \in Requests |-> TaleOf(r)]

Client == INSTANCE RequestTale WITH tale <- EveryTale

\* The handler implements RequestTale: whatever circuits, weights and other
\* requests do, a provider is asked only where there is hope and not after a
\* final answer, and the client is told what came of it.
TellsOneTale == Client!TaleSpec

\* The most steps a request can still take: those of the rounds it has left, and
\* what remains of the round it is in.
StepsLeft(q) ==
  LET ofRound == [select |-> 5, check |-> 4, prepare |-> 3, sent |-> 2, record |-> 1]
  IN IF q.stage \in DOMAIN ofRound
       THEN 5 * (MaxAttempts(q.route) - q.attempts) + ofRound[q.stage]
       ELSE 0

\* Failover cannot go on for ever: whatever a handler does brings its request
\* closer to its end, of at most twenty steps, and nothing the other requests or
\* the breaker do puts it off.
FailoverRunsOut ==
  [][\A r \in Requests : req[r].stage \notin {"idle", "replied"} /\ req'[r] # req[r] =>
       /\ StepsLeft(req[r]) \in 1..20
       /\ StepsLeft(req'[r]) \in 0..(StepsLeft(req[r]) - 1)]_vars

\* Every request is answered unless its client leaves: no combination of open
\* circuits, failing providers and late results keeps the loop going, or a
\* request waiting for the breaker.
Answered == \A r \in Requests : req[r].stage = "select" ~> req[r].stage \in {"idle", "replied"}

\* As documented: while a circuit is half-open one probe request is out.
OneProbe ==
  \A p \in Providers : circuit[p] = "HalfOpen" =>
    Cardinality({r \in Granted(p) : trace[r].probe}) <= 1

\* A provider whose breaker keeps being asked, and that from some time on answers
\* every call well, ends up in use for good.  A probe that was granted and came to
\* nothing before then (its client left, its token failed, the provider found fault
\* with the request) leaves no lock behind that nobody would release.
HealsWhenAnswered ==
  \A p \in Providers :
    /\ []<><<\E r \in Requests : Check(r) /\ Selected(r) = p>>_vars
    /\ <>[][\A r \in Requests : /\ ~Disconnect(r) /\ ~PrepareFails(r)
                                /\ \A answer \in Answers \ {"ok"} : ~Answer(r, answer)]_vars
    => <>[](circuit[p] = "Closed")

\* As documented: the probe has to succeed for the circuit to close.
ClosesOnlyOnAnswer ==
  [][\A p \in Providers : circuit[p] = "HalfOpen" /\ circuit'[p] = "Closed" =>
       \E r \in Requests : req'[r] # req[r] /\ Selected(r) = p /\ trace[r].heard # "none"]_vars

\* As documented: failover goes on to a provider that is available as long as
\* the request has attempts left, three calls in all.
FallsBackToHealthy ==
  [][\A r \in Requests :
       /\ Replying(r) /\ req[r].stage = "select"
       /\ Len(trace[r].contacted) < 3
       => \A i \in DOMAIN req[r].route :
            LET p == req[r].route[i].name
            IN p \notin Range(trace[r].contacted) => circuit[p] # "Closed"]_vars
=============================================================================
