---------------------------- MODULE GatewayProofs ----------------------------
(***************************************************************************)
(* Proofs about Gateway, for any number of connections, any routes and any *)
(* behaviour of the providers.  The inductive invariant is local to each   *)
(* request: Consistent relates the local variables of its handler to what  *)
(* its providers saw and did.  The circuits, the counter and the other     *)
(* requests may change in any way meanwhile, which is why failover and the *)
(* reply to the client do not depend on the interleaving.                  *)
(***************************************************************************)
EXTENDS LateCalls, Collections

Looking == {"select", "check", "prepare"}   \* no call to the selected provider yet
Chosen == {"check", "prepare", "sent", "record"}

\* A selected provider is in the route, not excluded, and within the attempts.
SelectionValid(q) ==
  q.stage \in Chosen =>
    /\ q.selected \in DOMAIN q.route
    /\ q.route[q.selected].name \notin q.excluded
    /\ q.attempts < MaxAttempts(q.route)

\* Every provider called in an earlier round is excluded: one call per round.
CallsAccounted(q, t) ==
  /\ IsInjective(t.contacted)
  /\ q.stage \in Looking =>
       Range(t.contacted) \subseteq q.excluded /\ Len(t.contacted) <= q.attempts
  /\ q.stage \in {"sent", "record"} =>
       /\ Range(t.contacted) \subseteq q.excluded \cup {q.route[q.selected].name}
       /\ Len(t.contacted) <= q.attempts + 1
       /\ ~q.stream => q.route[q.selected].name \in Range(t.contacted)
  /\ q.stage \in {"idle", "replied"} => t = NoTrace

\* last_error is the last thing a provider answered.
AnswersAccounted(q, t) ==
  /\ q.stage \in Looking =>
       IF q.lastError = "none" THEN t.contacted = <<>>
       ELSE t.heard \in DOMAIN ErrorOf /\ q.lastError = ErrorOf[t.heard]
  /\ q.stage = "record" =>
       IF q.stream THEN q.outcome = "streamOpened"
       ELSE q.outcome = t.heard /\ q.outcome \in DOMAIN Recorded \ {"streamOpened"}
  /\ q.stage = "sent" => ~q.stream

Consistent(q, t) == SelectionValid(q) /\ CallsAccounted(q, t) /\ AnswersAccounted(q, t)

IInv == TypeOK /\ \A r \in Requests : Consistent(req[r], trace[r])

-----------------------------------------------------------------------------
(* Facts about the balancer.                                               *)

\* select_provider never returns a provider that is not in the slice it is
\* given, neither by the walk nor by its fallbacks.
THEOREM ChoiceIsOnOffer ==
  ASSUME NEW weights, IsFiniteSet(DOMAIN weights), DOMAIN weights \subseteq Int,
         DOMAIN weights # {}
  PROVE  Choice(weights) \in DOMAIN weights
<1>1. ASSUME NEW position PROVE Walk(weights, position) \in DOMAIN weights
  <2> DEFINE reached == {i \in DOMAIN weights : position < Cumulative(weights, i)}
  <2>1. IsFiniteSet(reached) /\ reached \subseteq Int
    BY FS_Subset
  <2>2. reached # {} => Min(reached) \in reached
    BY <2>1, MinIsLeast
  <2>3. Max(DOMAIN weights) \in DOMAIN weights
    BY MaxIsGreatest
  <2>4. Walk(weights, position) = IF reached # {} THEN Min(reached) ELSE Max(DOMAIN weights)
    BY DEF Walk
  <2> QED
    BY <2>2, <2>3, <2>4
<1>2. Min(DOMAIN weights) \in DOMAIN weights
  BY MinIsLeast
<1> QED
  BY <1>1, <1>2 DEF Choice

\* The counter stays a machine word.
LEMMA CounterStaysOK ==
  ASSUME CounterOK, NEW weights, Advance(weights)
  PROVE  CounterOK'
BY CounterAssumption DEF CounterOK, Advance

-----------------------------------------------------------------------------
(* Facts about a single request.                                           *)

\* An element of a sequence is of its elements' kind, and its length is a number.
LEMMA SequenceElements ==
  ASSUME NEW S, NEW s \in Seq(S)
  PROVE  Len(s) \in Nat /\ DOMAIN s = 1..Len(s) /\ \A i \in DOMAIN s : s[i] \in S
OBVIOUS

\* A route is a list of providers.
LEMMA RouteIsList ==
  ASSUME NEW q \in RequestState
  PROVE  q.route \in Seq([name : Providers, weight : Nat])
<1> DEFINE S == [name : Providers, weight : Nat]
<1>1. Routes \subseteq Seq(S)
  BY GatewayAssumption
<1>2. q.route \in Routes \cup {<<>>}
  BY DEF RequestState
<1> HIDE DEF S
<1>3. <<>> \in Seq(S)
  OBVIOUS
<1>4. q.route \in Seq(S)
  BY <1>1, <1>2, <1>3
<1> QED
  BY <1>4 DEF S

\* The provider a request has selected is a provider.
LEMMA SelectedIsProvider ==
  ASSUME NEW q \in RequestState, SelectionValid(q), q.stage \in Chosen
  PROVE  q.route[q.selected].name \in Providers
<1>1. q.selected \in DOMAIN q.route
  BY DEF SelectionValid
<1>2. q.route[q.selected] \in [name : Providers, weight : Nat]
  BY <1>1, RouteIsList, SequenceElements, Zenon
<1> QED
  BY <1>2

\* No more than three rounds.
LEMMA AttemptsBound ==
  ASSUME NEW q \in RequestState
  PROVE  MaxAttempts(q.route) \in 0..3
<1> DEFINE n == Len(q.route)
<1>1. n \in Nat
  BY RouteIsList, SequenceElements, Zenon
<1>2. MaxAttempts(q.route) = IF n < 3 THEN n ELSE 3
  BY DEF MaxAttempts
<1> HIDE DEF n
<1> QED
  BY <1>1, <1>2

\* A step that moves one request keeps the invariant if it leaves that request
\* consistent: nothing else of the invariant is shared.
LEMMA OneRequestMoves ==
  ASSUME IInv, CounterOK', NEW r \in Requests,
         NEW q \in RequestState, NEW t \in History, Consistent(q, t),
         req' = [req EXCEPT ![r] = q], trace' = [trace EXCEPT ![r] = t]
  PROVE  IInv'
<1>1. TypeOK'
  BY DEF IInv, TypeOK
<1>2. ASSUME NEW x \in Requests PROVE Consistent(req'[x], trace'[x])
  <2>1. CASE x = r
    BY <2>1 DEF IInv, TypeOK
  <2>2. CASE x # r
    <3>1. req'[x] = req[x] /\ trace'[x] = trace[x]
      BY <2>2 DEF IInv, TypeOK
    <3> QED
      BY <3>1 DEF IInv
  <2> QED
    BY <2>1, <2>2
<1>3. (\A x \in Requests : Consistent(req[x], trace[x]))'
  BY <1>2 DEF Consistent, SelectionValid, CallsAccounted, AnswersAccounted
<1> QED
  BY <1>1, <1>3 DEF IInv

\* A request that is over is consistent, answered or not.
LEMMA OverIsConsistent ==
  ASSUME NEW q \in RequestState, q.stage \in {"idle", "replied"}
  PROVE  NoTrace \in History /\ Consistent(q, NoTrace)
<1>1. NoTrace \in History
  BY DEF NoTrace, History
<1>2. IsInjective(NoTrace.contacted)
  BY DEF NoTrace, IsInjective
<1> QED
  BY <1>1, <1>2 DEF Consistent, SelectionValid, CallsAccounted,
       AnswersAccounted, Looking, Chosen

\* The local variables of a request that has been answered.
LEMMA AnsweredState ==
  ASSUME NEW reply \in Replies
  PROVE  /\ [Idle EXCEPT !.stage = "replied", !.reply = reply] \in RequestState
         /\ [Idle EXCEPT !.stage = "replied", !.reply = reply].stage = "replied"
<1>1. Idle \in RequestState
  BY DEF Idle, RequestState, Stages
<1> QED
  BY <1>1 DEF RequestState, Stages

-----------------------------------------------------------------------------
(* Each action moves one request and leaves it consistent.                 *)

LEMMA IdleState ==
  /\ Idle \in RequestState /\ Idle.lastError = "none" /\ Idle.attempts = 0
  /\ NoTrace \in History /\ NoTrace.contacted = <<>>
<1>1. Idle \in RequestState
  BY DEF Idle, RequestState, Stages
<1>2. NoTrace \in History
  BY DEF NoTrace, History
<1> QED
  BY <1>1, <1>2 DEF Idle, NoTrace

LEMMA StartIInv ==
  ASSUME IInv, NEW r \in Requests, NEW route \in Routes, NEW stream \in BOOLEAN,
         Start(r, route, stream)
  PROVE  IInv'
<1>1. /\ req' = [req EXCEPT ![r] = req'[r]]
      /\ trace' = [trace EXCEPT ![r] = trace[r]]
      /\ CounterOK'
  BY DEF Start, IInv, TypeOK, CounterOK
<1>2. /\ req'[r] \in RequestState /\ req'[r].stage = "select"
      /\ req'[r].lastError = "none" /\ req'[r].attempts = 0
  BY IdleState, ZenonT(30) DEF Start, IInv, TypeOK, RequestState, Stages
<1>3. trace[r] = NoTrace
  BY DEF Start, IInv, Consistent, CallsAccounted
<1>4. IsInjective(<<>>) /\ Range(<<>>) = {} /\ Len(<<>>) = 0
  BY DEF IsInjective, Range
<1>5. Consistent(req'[r], NoTrace)
  BY <1>2, <1>4, IdleState DEF Consistent, SelectionValid, CallsAccounted,
       AnswersAccounted, Chosen, Looking
<1> QED
  BY <1>1, <1>2, <1>3, <1>5, IdleState, OneRequestMoves

LEMMA ReplyIInv ==
  ASSUME IInv, CounterOK', NEW r \in Requests, NEW reply \in Replies, Reply(r, reply)
  PROVE  IInv'
BY AnsweredState, OverIsConsistent, OneRequestMoves DEF Reply

\* The loop goes round: the provider is excluded, and its answer, or what was
\* remembered before it refused, is what last_error says.
LEMMA TryNextIInv ==
  ASSUME IInv, CounterOK', NEW r \in Requests, NEW error \in Errors \cup {"none"},
         req[r].stage \in Chosen, TryNext(r, error),
         NEW t \in History, trace' = [trace EXCEPT ![r] = t],
         t.contacted = trace[r].contacted,
         \/ /\ error = "none" /\ t.heard = trace[r].heard
            /\ req[r].stage \in Looking
         \/ t.heard \in DOMAIN ErrorOf /\ error = ErrorOf[t.heard]
  PROVE  IInv'
<1>1. /\ req[r] \in RequestState /\ trace[r] \in History /\ Consistent(req[r], trace[r])
      /\ req' = [req EXCEPT ![r] = req'[r]]
  BY DEF TryNext, IInv, TypeOK
<1>2. /\ req'[r].stage = "select"
      /\ req'[r].attempts = req[r].attempts + 1
      /\ req'[r].excluded = req[r].excluded \cup {Selected(r)}
      /\ req'[r].lastError = IF error = "none" THEN req[r].lastError ELSE error
  BY DEF TryNext, IInv, TypeOK, RequestState
<1>3. Selected(r) \in Providers
  BY <1>1, SelectedIsProvider DEF Selected, Consistent
<1>4. req[r].attempts + 1 \in 0..3
  <2>1. req[r].attempts \in 0..3 /\ req[r].attempts < MaxAttempts(req[r].route)
    BY <1>1 DEF Consistent, SelectionValid, RequestState
  <2> QED
    BY <1>1, <2>1, AttemptsBound
<1>5. req'[r] \in RequestState
  BY <1>1, <1>3, <1>4 DEF TryNext, IInv, TypeOK, RequestState, Stages
<1>6. CallsAccounted(req'[r], t)
  <2>1. /\ IsInjective(t.contacted)
        /\ Range(t.contacted) \subseteq req[r].excluded \cup {Selected(r)}
        /\ Len(t.contacted) <= req[r].attempts + 1
    BY <1>1 DEF Consistent, CallsAccounted, Selected, Chosen, Looking, RequestState, History
  <2> QED
    BY <1>2, <2>1 DEF CallsAccounted, Looking
<1>7. AnswersAccounted(req'[r], t)
  BY <1>1, <1>2 DEF Consistent, AnswersAccounted, Looking, ErrorOf
<1>8. SelectionValid(req'[r])
  BY <1>2 DEF SelectionValid, Chosen
<1> QED
  BY <1>1, <1>5, <1>6, <1>7, <1>8, OneRequestMoves DEF Consistent

LEMMA GiveUpIInv ==
  ASSUME IInv, NEW r \in Requests, GiveUp(r)
  PROVE  IInv'
<1> DEFINE reply == IF req[r].lastError = "none" THEN "Exhausted" ELSE req[r].lastError
<1>1. req[r].lastError \in Errors \cup {"none"}
  BY DEF IInv, TypeOK, RequestState
<1>2. reply \in Replies
  BY <1>1 DEF Replies
<1>3. Reply(r, reply) /\ CounterOK'
  BY DEF GiveUp, IInv, TypeOK, CounterOK
<1> HIDE DEF reply
<1> QED
  BY <1>2, <1>3, ReplyIInv

\* What select_provider chooses from what is offered is in the route and not
\* excluded.
LEMMA ChoiceIsValid ==
  ASSUME IInv, NEW r \in Requests, DOMAIN Offered(r) # {}
  PROVE  LET i == Choice(Offered(r))
         IN /\ i \in DOMAIN req[r].route /\ i \in Nat
            /\ req[r].route[i].name \notin req[r].excluded
<1> DEFINE route == req[r].route
           left == {i \in DOMAIN route : route[i].name \notin req[r].excluded}
<1>1. DOMAIN Offered(r) = left
  BY DEF Offered
<1>2. /\ DOMAIN route = 1..Len(route) /\ Len(route) \in Nat
  BY RouteIsList, SequenceElements, Zenon DEF IInv, TypeOK
<1>3. DOMAIN route \subseteq Nat /\ IsFiniteSet(DOMAIN route)
  <2> DEFINE n == Len(route)
  <2>1. DOMAIN route = 1..n /\ n \in Nat
    BY <1>2
  <2> HIDE DEF n
  <2>2. 1..n \subseteq Nat /\ IsFiniteSet(1..n)
    BY <2>1, FS_Interval
  <2> QED
    BY <2>1, <2>2
<1>4. left \subseteq Int /\ IsFiniteSet(left)
  BY <1>3, FS_Subset
<1>5. Choice(Offered(r)) \in left
  BY <1>1, <1>4, ChoiceIsOnOffer
<1> QED
  BY <1>3, <1>5

LEMMA SelectIInv ==
  ASSUME IInv, NEW r \in Requests, Select(r)
  PROVE  IInv'
<1>1. CounterOK'
  BY CounterStaysOK DEF Select, IInv, TypeOK
<1>2. CASE Reply(r, "NoProviders")
  BY <1>1, <1>2, ReplyIInv DEF Replies
<1>3. CASE /\ req' = [req EXCEPT ![r].stage = "check",
                                ![r].selected = Choice(Offered(r))]
           /\ UNCHANGED trace
  <2> DEFINE i == Choice(Offered(r))
  <2>1. /\ i \in DOMAIN req[r].route /\ i \in Nat
        /\ req[r].route[i].name \notin req[r].excluded
    BY ChoiceIsValid DEF Select
  <2>0. req' = [req EXCEPT ![r].stage = "check", ![r].selected = i]
    BY <1>3
  <2> HIDE DEF i
  <2>2. /\ req[r] \in RequestState /\ trace[r] \in History
        /\ Consistent(req[r], trace[r])
        /\ req[r].stage = "select" /\ req[r].attempts < MaxAttempts(req[r].route)
    BY DEF Select, IInv, TypeOK
  <2>3. /\ req' = [req EXCEPT ![r] = req'[r]]
        /\ trace' = [trace EXCEPT ![r] = trace[r]]
    BY <1>3 DEF IInv, TypeOK
  <2>4. /\ req'[r].stage = "check" /\ req'[r].selected = i
        /\ req'[r].route = req[r].route /\ req'[r].excluded = req[r].excluded
        /\ req'[r].attempts = req[r].attempts /\ req'[r].lastError = req[r].lastError
    BY <2>0 DEF IInv, TypeOK, RequestState
  <2>5. req'[r] \in RequestState
    <3>1. req'[r] = [req[r] EXCEPT !.stage = "check", !.selected = i]
      BY <2>0 DEF IInv, TypeOK
    <3> QED
      BY <2>1, <2>2, <3>1 DEF RequestState, Stages
  <2>6. SelectionValid(req'[r])
    BY <2>1, <2>2, <2>4 DEF SelectionValid
  <2>7. CallsAccounted(req'[r], trace[r]) /\ AnswersAccounted(req'[r], trace[r])
    BY <2>2, <2>4 DEF Consistent, CallsAccounted, AnswersAccounted, Looking
  <2> QED
    BY <1>1, <2>2, <2>3, <2>5, <2>6, <2>7, OneRequestMoves DEF Consistent
<1> QED
  BY <1>2, <1>3 DEF Select

LEMMA CheckIInv ==
  ASSUME IInv, NEW r \in Requests, Check(r)
  PROVE  IInv'
<1>1. /\ CounterOK'
      /\ req[r] \in RequestState /\ trace[r] \in History /\ Consistent(req[r], trace[r])
      /\ req[r].stage = "check"
  BY DEF Check, IInv, TypeOK, CounterOK
<1>2. Selected(r) \in Providers
  BY <1>1, SelectedIsProvider DEF Selected, Consistent, Chosen
<1>3. CASE Breaker!Available(Selected(r))
  <2>1. /\ req' = [req EXCEPT ![r] = req'[r]]
        /\ trace' = [trace EXCEPT ![r] = trace'[r]]
        /\ req'[r] = [req[r] EXCEPT !.stage = "prepare"]
        /\ trace'[r] = [trace[r] EXCEPT !.probe = circuit'[Selected(r)] = "HalfOpen"]
    BY <1>3 DEF Check, IInv, TypeOK
  <2>2. req'[r] \in RequestState /\ trace'[r] \in History
    BY <1>1, <2>1 DEF RequestState, History, Stages
  <2>3. /\ req'[r].stage = "prepare" /\ req'[r].selected = req[r].selected
        /\ req'[r].route = req[r].route /\ req'[r].excluded = req[r].excluded
        /\ req'[r].attempts = req[r].attempts /\ req'[r].lastError = req[r].lastError
        /\ trace'[r].contacted = trace[r].contacted /\ trace'[r].heard = trace[r].heard
    BY <1>1, <2>1 DEF RequestState, History
  <2>4. Consistent(req'[r], trace'[r])
    BY <1>1, <2>3 DEF Consistent, SelectionValid, CallsAccounted, AnswersAccounted,
                      Looking, Chosen
  <2> QED
    BY <1>1, <2>1, <2>2, <2>4, OneRequestMoves
<1>4. CASE ~Breaker!Available(Selected(r))
  <2> DEFINE t == [trace[r] EXCEPT !.refused = @ \cup {Selected(r)}]
  <2>1. TryNext(r, "none") /\ trace' = [trace EXCEPT ![r] = t]
    BY <1>4 DEF Check, IInv, TypeOK
  <2>2. /\ t \in History /\ t.contacted = trace[r].contacted
        /\ t.heard = trace[r].heard
    BY <1>1, <1>2 DEF History
  <2> HIDE DEF t
  <2> QED
    BY <1>1, <2>1, <2>2, TryNextIInv DEF Looking, Chosen
<1> QED
  BY <1>3, <1>4

LEMMA PrepareFailsIInv ==
  ASSUME IInv, NEW r \in Requests, PrepareFails(r)
  PROVE  IInv'
<1>1. CounterOK'
  BY DEF PrepareFails, IInv, TypeOK, CounterOK
<1> QED
  BY <1>1, ReplyIInv DEF PrepareFails, Replies

LEMMA SendIInv ==
  ASSUME IInv, NEW r \in Requests, Send(r)
  PROVE  IInv'
<1> DEFINE name == Selected(r)
           before == trace[r].contacted
           after == Append(before, name)
<1>1. /\ CounterOK'
      /\ req[r] \in RequestState /\ trace[r] \in History /\ Consistent(req[r], trace[r])
      /\ req[r].stage = "prepare" /\ ~req[r].stream
  BY DEF Send, IInv, TypeOK, CounterOK
<1>2. /\ req' = [req EXCEPT ![r] = req'[r]]
      /\ trace' = [trace EXCEPT ![r] = trace'[r]]
      /\ req'[r] = [req[r] EXCEPT !.stage = "sent"]
      /\ trace'[r] = [trace[r] EXCEPT !.contacted = after]
  BY DEF Send, IInv, TypeOK
<1>3. name \in Providers /\ name \notin req[r].excluded
  BY <1>1, SelectedIsProvider DEF Selected, Consistent, SelectionValid, Chosen
<1>4. /\ before \in Seq(Providers) /\ IsInjective(before)
      /\ Range(before) \subseteq req[r].excluded /\ Len(before) <= req[r].attempts
  BY <1>1 DEF History, Consistent, CallsAccounted, Looking
<1>5. /\ after \in Seq(Providers) /\ IsInjective(after)
      /\ Range(after) \subseteq req[r].excluded \cup {name}
      /\ name \in Range(after) /\ Len(after) <= req[r].attempts + 1
  <2> HIDE DEF name, before
  <2>1. /\ after \in Seq(Providers) /\ Len(after) = Len(before) + 1
        /\ \A i \in 1..Len(before) : after[i] = before[i]
        /\ after[Len(before) + 1] = name
        /\ DOMAIN before = 1..Len(before) /\ DOMAIN after = 1..(Len(before) + 1)
        /\ Len(before) \in Nat
    BY <1>3, <1>4
  <2>2. \A i \in DOMAIN before : before[i] # name
    BY <1>3, <1>4 DEF Range
  <2> HIDE DEF after
  <2>3. IsInjective(after)
    BY <1>4, <2>1, <2>2 DEF IsInjective
  <2>4. Range(after) = Range(before) \cup {name}
    BY <2>1 DEF Range
  <2>5. req[r].attempts \in Nat
    BY <1>1 DEF RequestState
  <2> QED
    BY <1>4, <2>1, <2>3, <2>4, <2>5
<1>6. req'[r] \in RequestState /\ trace'[r] \in History
  BY <1>1, <1>2, <1>5 DEF RequestState, History, Stages
<1>7. /\ req'[r].stage = "sent" /\ req'[r].selected = req[r].selected
      /\ req'[r].route = req[r].route /\ req'[r].excluded = req[r].excluded
      /\ req'[r].attempts = req[r].attempts /\ req'[r].stream = req[r].stream
      /\ trace'[r].contacted = after
  BY <1>1, <1>2 DEF RequestState, History
<1>8. Consistent(req'[r], trace'[r])
  <2> HIDE DEF after
  <2> QED
    BY <1>1, <1>5, <1>7 DEF Consistent, SelectionValid, CallsAccounted, AnswersAccounted,
                          Looking, Chosen, Selected
<1> QED
  BY <1>1, <1>2, <1>6, <1>8, OneRequestMoves

LEMMA OpenStreamIInv ==
  ASSUME IInv, NEW r \in Requests, OpenStream(r)
  PROVE  IInv'
<1>1. /\ CounterOK'
      /\ req[r] \in RequestState /\ trace[r] \in History /\ Consistent(req[r], trace[r])
      /\ req[r].stage = "prepare" /\ req[r].stream
  BY DEF OpenStream, IInv, TypeOK, CounterOK
<1>2. /\ req' = [req EXCEPT ![r] = req'[r]]
      /\ trace' = [trace EXCEPT ![r] = trace[r]]
      /\ req'[r] = [req[r] EXCEPT !.stage = "record", !.outcome = "streamOpened"]
  BY DEF OpenStream, IInv, TypeOK
<1>3. /\ req'[r].stage = "record" /\ req'[r].outcome = "streamOpened"
      /\ req'[r].selected = req[r].selected
      /\ req'[r].route = req[r].route /\ req'[r].excluded = req[r].excluded
      /\ req'[r].attempts = req[r].attempts /\ req'[r].stream = req[r].stream
  <2>1. req[r] = [stage |-> req[r].stage, route |-> req[r].route, stream |-> req[r].stream,
                  attempts |-> req[r].attempts, excluded |-> req[r].excluded,
                  lastError |-> req[r].lastError, selected |-> req[r].selected,
                  outcome |-> req[r].outcome, reply |-> req[r].reply]
    BY <1>1 DEF RequestState
  <2> QED
    BY <1>2, <2>1
<1>4. req'[r] \in RequestState
  BY <1>1, <1>2 DEF RequestState, Stages, Recorded
<1>5. Len(trace[r].contacted) \in Nat /\ req[r].attempts \in Nat
  BY <1>1 DEF History, RequestState
<1>6. Consistent(req'[r], trace[r])
  <2>1. SelectionValid(req'[r])
    BY <1>1, <1>3, <1>5 DEF Consistent, SelectionValid, Chosen
  <2>2. CallsAccounted(req'[r], trace[r])
    BY <1>1, <1>3, <1>5 DEF Consistent, CallsAccounted, Looking, Chosen
  <2>3. AnswersAccounted(req'[r], trace[r])
    BY <1>1, <1>3, <1>5 DEF Consistent, AnswersAccounted, Looking, Chosen
  <2> QED
    BY <2>1, <2>2, <2>3 DEF Consistent
<1> QED
  BY <1>1, <1>2, <1>4, <1>6, OneRequestMoves

LEMMA AnswerIInv ==
  ASSUME IInv, NEW r \in Requests, NEW answer \in Answers, Answer(r, answer)
  PROVE  IInv'
<1>1. /\ CounterOK'
      /\ req[r] \in RequestState /\ trace[r] \in History /\ Consistent(req[r], trace[r])
      /\ req[r].stage = "sent"
  BY DEF Answer, IInv, TypeOK, CounterOK
<1>2. answer \in AllAnswers
  BY GatewayAssumption
<1>3. CASE answer \in DOMAIN Rejected /\ Reply(r, Rejected[answer])
  <2>1. Rejected[answer] \in Replies
    BY <1>3 DEF Rejected, Replies
  <2> QED
    BY <1>1, <1>3, <2>1, ReplyIInv
<1>4. ASSUME trace' = [trace EXCEPT ![r].heard = answer]
      PROVE  /\ trace' = [trace EXCEPT ![r] = trace'[r]]
             /\ trace'[r] \in History /\ trace'[r].heard = answer
             /\ trace'[r].contacted = trace[r].contacted
  BY <1>1, <1>2, <1>4 DEF IInv, TypeOK, History
<1>5. CASE /\ answer \in DOMAIN Recorded
           /\ req' = [req EXCEPT ![r].stage = "record", ![r].outcome = answer]
           /\ trace' = [trace EXCEPT ![r].heard = answer]
  <2>1. /\ req' = [req EXCEPT ![r] = req'[r]]
        /\ req'[r] = [req[r] EXCEPT !.stage = "record", !.outcome = answer]
    BY <1>5 DEF IInv, TypeOK
  <2>2. /\ req'[r].stage = "record" /\ req'[r].outcome = answer
        /\ req'[r].selected = req[r].selected
        /\ req'[r].route = req[r].route /\ req'[r].excluded = req[r].excluded
        /\ req'[r].attempts = req[r].attempts /\ req'[r].stream = req[r].stream
    BY <1>1, <2>1 DEF RequestState
  <2>3. req'[r] \in RequestState
    <3>1. answer \in DOMAIN Recorded
      BY <1>5
    <3> QED
      BY <1>1, <2>1, <3>1 DEF RequestState, Stages
  <2>4. answer # "streamOpened"
    BY <1>2 DEF AllAnswers
  <2>5. Consistent(req'[r], trace'[r])
    BY <1>1, <1>4, <1>5, <2>2, <2>4 DEF Consistent, SelectionValid, CallsAccounted,
                                        AnswersAccounted, Looking, Chosen
  <2> QED
    BY <1>1, <1>4, <1>5, <2>1, <2>3, <2>5, OneRequestMoves
<1>6. CASE /\ answer = "otherStatus" /\ TryNext(r, ErrorOf[answer])
           /\ trace' = [trace EXCEPT ![r].heard = answer]
  <2>1. answer \in DOMAIN ErrorOf /\ ErrorOf[answer] \in Errors
    BY <1>6 DEF ErrorOf, Errors
  <2> DEFINE error == ErrorOf[answer]
             t == trace'[r]
  <2>2. /\ trace' = [trace EXCEPT ![r] = t] /\ t \in History
        /\ t.contacted = trace[r].contacted
        /\ t.heard \in DOMAIN ErrorOf /\ error = ErrorOf[t.heard]
    BY <1>4, <1>6, <2>1
  <2>3. TryNext(r, error) /\ error \in Errors \cup {"none"}
    BY <1>6, <2>1
  <2> HIDE DEF error, t
  <2> QED
    BY <1>1, <2>2, <2>3, TryNextIInv DEF Chosen
<1> QED
  BY <1>3, <1>5, <1>6 DEF Answer

LEMMA RecordIInv ==
  ASSUME IInv, NEW r \in Requests, Record(r)
  PROVE  IInv'
<1> DEFINE outcome == req[r].outcome
<1>1. /\ CounterOK'
      /\ req[r] \in RequestState /\ trace[r] \in History /\ Consistent(req[r], trace[r])
      /\ req[r].stage = "record"
  BY DEF Record, IInv, TypeOK, CounterOK
<1>2. CASE Reply(r, "Ok") \/ Reply(r, "ProviderError")
  BY <1>1, <1>2, ReplyIInv DEF Replies, Errors
<1>3. CASE outcome \in DOMAIN ErrorOf /\ TryNext(r, ErrorOf[outcome]) /\ UNCHANGED trace
  <2>1. outcome = trace[r].heard
    BY <1>1, <1>3 DEF Consistent, AnswersAccounted, ErrorOf
  <2>2. ErrorOf[outcome] \in Errors
    BY <1>3 DEF ErrorOf, Errors
  <2>3. trace' = [trace EXCEPT ![r] = trace[r]]
    BY <1>3 DEF IInv, TypeOK
  <2> DEFINE error == ErrorOf[outcome]
             t == trace[r]
  <2>4. error \in Errors \cup {"none"} /\ TryNext(r, error)
    BY <1>3, <2>2
  <2>5. t \in History /\ t.contacted = trace[r].contacted /\ trace' = [trace EXCEPT ![r] = t]
    BY <1>1, <2>3
  <2>6. t.heard \in DOMAIN ErrorOf /\ error = ErrorOf[t.heard]
    BY <1>3, <2>1
  <2>7. req[r].stage \in Chosen
    BY <1>1 DEF Chosen
  <2> HIDE DEF error, t, outcome
  <2> QED
    BY <1>1, <2>4, <2>5, <2>6, <2>7, TryNextIInv, ZenonT(30)
<1> QED
  BY <1>2, <1>3 DEF Record

LEMMA DisconnectIInv ==
  ASSUME IInv, NEW r \in Requests, Disconnect(r)
  PROVE  IInv'
<1>1. CounterOK' /\ req' = [req EXCEPT ![r] = Idle] /\ trace' = [trace EXCEPT ![r] = NoTrace]
  BY DEF Disconnect, IInv, TypeOK, CounterOK
<1>2. Idle.stage = "idle"
  BY DEF Idle
<1> QED
  BY <1>1, <1>2, IdleState, OverIsConsistent, OneRequestMoves

-----------------------------------------------------------------------------
LEMMA InitIInv == Init => IInv
<1> SUFFICES ASSUME Init PROVE IInv
  OBVIOUS
<1>1. TypeOK
  BY IdleState, CounterAssumption DEF Init, TypeOK, CounterInit, CounterOK
<1>2. Idle.stage = "idle"
  BY DEF Idle
<1>3. \A r \in Requests : Consistent(req[r], trace[r])
  BY <1>2, IdleState, OverIsConsistent DEF Init
<1> QED
  BY <1>1, <1>3 DEF IInv

LEMMA NextIInv == IInv /\ [Next]_vars => IInv'
<1> SUFFICES ASSUME IInv, [Next]_vars PROVE IInv'
  OBVIOUS
<1>1. ASSUME NEW r \in Requests, NEW route \in Routes, NEW stream \in Streaming,
             Start(r, route, stream)
      PROVE  IInv'
  BY <1>1, StartIInv, GatewayAssumption
<1>2. ASSUME NEW r \in Requests, Progress(r) PROVE IInv'
  BY <1>2, GiveUpIInv, SelectIInv, CheckIInv, PrepareFailsIInv, SendIInv, OpenStreamIInv,
     AnswerIInv, RecordIInv DEF Progress
<1>3. ASSUME NEW r \in Requests, Disconnect(r) PROVE IInv'
  BY <1>3, DisconnectIInv
<1>4. CASE UNCHANGED <<counter, req, trace>>
  BY <1>4 DEF IInv, TypeOK, CounterOK, Consistent, SelectionValid, CallsAccounted,
              AnswersAccounted
<1> QED
  BY <1>1, <1>2, <1>3, <1>4 DEF Next, Tick, vars

\* The inductive invariant holds in every state of the gateway.
THEOREM Invariance == Spec => []IInv
BY InitIInv, NextIInv, PTL DEF Spec

\* The handler's local variables and the history keep their types.
THEOREM TypeCorrect == Spec => []TypeOK
<1>1. IInv => TypeOK
  BY DEF IInv
<1> QED
  BY <1>1, Invariance, PTL

\* Failover sends no request to a provider twice, nor to more than three,
\* whatever the route, the circuits and the other requests do.
THEOREM NeverSentTwice == Spec => []NeverTwice
<1>1. ASSUME IInv, NEW r \in Requests
      PROVE  Len(trace[r].contacted) <= 3 /\ IsInjective(trace[r].contacted)
  <2>1. /\ req[r] \in RequestState /\ trace[r] \in History
        /\ Consistent(req[r], trace[r])
    BY <1>1 DEF IInv, TypeOK
  <2>2. req[r].attempts \in 0..3 /\ Len(trace[r].contacted) \in Nat
    BY <2>1 DEF RequestState, History
  <2>3. MaxAttempts(req[r].route) \in 0..3
    BY <2>1, AttemptsBound
  <2>4. Len(NoTrace.contacted) = 0
    BY DEF NoTrace
  <2>5. req[r].stage \in Stages
    BY <2>1 DEF RequestState
  <2> QED
    BY <2>1, <2>2, <2>3, <2>4, <2>5 DEF Consistent, SelectionValid, CallsAccounted,
       Stages, Chosen, Looking
<1>2. IInv => NeverTwice
  BY <1>1 DEF NeverTwice
<1> QED
  BY <1>2, Invariance, PTL

-----------------------------------------------------------------------------
(* The gateway and the circuit breaker.                                    *)

\* What a request past its selection knows of its provider.
LEMMA ChosenProvider ==
  ASSUME IInv, NEW r \in Requests, req[r].stage \in Chosen
  PROVE  Selected(r) \in Providers
<1>1. req[r] \in RequestState /\ SelectionValid(req[r])
  BY DEF IInv, TypeOK, Consistent
<1> QED
  BY <1>1, SelectedIsProvider DEF Selected

\* A handler reports one of the four results to the breaker.
LEMMA RecordedIsResult ==
  ASSUME NEW outcome \in DOMAIN Recorded
  PROVE  Recorded[outcome] \in Breaker!CallResult
BY DEF Recorded, Breaker!CallResult

LEMMA StepDrivesBreaker ==
  ASSUME IInv, [Next]_vars
  PROVE  [Breaker!Next]_(Breaker!vars)
<1>1. CASE UNCHANGED breakerVars
  BY <1>1 DEF breakerVars, Breaker!vars
<1>2. ASSUME NEW r \in Requests, Check(r) PROVE Breaker!Next
  <2>1. Selected(r) \in Providers /\ Breaker!IsAvailable(Selected(r))
    BY <1>2, ChosenProvider DEF Check, Chosen
  <2> QED
    BY <2>1 DEF Breaker!Next
<1>3. ASSUME NEW r \in Requests, Record(r) PROVE Breaker!Next
  <2>1. Selected(r) \in Providers
        /\ Breaker!RecordResult(Selected(r), Recorded[req[r].outcome])
    BY <1>3, ChosenProvider DEF Record, Chosen
  <2>2. req[r].outcome \in DOMAIN Recorded
    BY <1>3 DEF Record, IInv, Consistent, AnswersAccounted, Recorded
  <2> QED
    BY <2>1, <2>2, RecordedIsResult DEF Breaker!Next
<1>4. CASE Tick
  BY <1>4 DEF Tick, Breaker!Next
<1> QED
  BY <1>1, <1>2, <1>3, <1>4 DEF Next, Progress, vars, Start, GiveUp, Select, PrepareFails,
     Send, OpenStream, Answer, Disconnect

\* A handler's local variables, and what its providers saw of it, change by that
\* handler's own steps only.
LEMMA OthersStay ==
  ASSUME IInv, NEW r \in Requests, req'[r] # req[r] \/ trace'[r] # trace[r],
         NEW x \in Requests,
         \/ \E route \in Routes, stream \in Streaming : Start(x, route, stream)
         \/ Progress(x)
         \/ Disconnect(x)
  PROVE  x = r
<1>1. req \in [Requests -> RequestState] /\ trace \in [Requests -> History]
  BY DEF IInv, TypeOK
<1>2. ASSUME NEW q, NEW t, req' = [req EXCEPT ![x] = q],
             trace' = trace \/ trace' = [trace EXCEPT ![x] = t]
      PROVE  x = r
  BY <1>1, <1>2
<1>3. (\E reply : Reply(x, reply)) => x = r
  BY <1>2, Zenon DEF Reply
<1>4. ASSUME NEW error, TryNext(x, error),
             trace' = trace \/ \E t : trace' = [trace EXCEPT ![x] = t]
      PROVE  x = r
  BY <1>1, <1>4 DEF TryNext
<1>5. CASE \E route \in Routes, stream \in Streaming : Start(x, route, stream)
  BY <1>2, <1>5, Zenon DEF Start
<1>6. CASE Disconnect(x)
  BY <1>2, <1>6, Zenon DEF Disconnect
<1>7. CASE GiveUp(x) \/ PrepareFails(x)
  BY <1>3, <1>7, Zenon DEF GiveUp, PrepareFails
<1>8. CASE Select(x)
  BY <1>1, <1>3, <1>8 DEF Select
<1>9. CASE Check(x)
  BY <1>1, <1>4, <1>9 DEF Check
<1>10. CASE Send(x) \/ OpenStream(x)
  BY <1>1, <1>10 DEF Send, OpenStream
<1>11. ASSUME NEW answer \in Answers, Answer(x, answer) PROVE x = r
  BY <1>1, <1>3, <1>4, <1>11 DEF Answer
<1>12. CASE Record(x)
  BY <1>3, <1>4, <1>12, Zenon DEF Record
<1> QED
  BY <1>5, <1>6, <1>7, <1>8, <1>9, <1>10, <1>11, <1>12 DEF Progress

LEMMA OnlyItsHandlerMoves ==
  ASSUME IInv, [Next]_vars, NEW r \in Requests, req'[r] # req[r] \/ trace'[r] # trace[r]
  PROVE  \/ \E route \in Routes, stream \in Streaming : Start(r, route, stream)
         \/ Progress(r)
         \/ Disconnect(r)
<1>1. PICK x \in Requests :
        \/ \E route \in Routes, stream \in Streaming : Start(x, route, stream)
        \/ Progress(x)
        \/ Disconnect(x)
  BY DEF Next, Tick, vars
<1>2. x = r
  BY <1>1, OthersStay
<1> QED
  BY <1>1, <1>2

\* Where a request stands after a reply, a failover and a fresh start.
LEMMA NextStage ==
  ASSUME IInv, NEW r \in Requests
  PROVE  /\ \A reply : Reply(r, reply) => req'[r].stage = "replied" /\ req'[r].reply = reply
         /\ \A error : TryNext(r, error) => req'[r].stage = "select"
         /\ \A route, stream : Start(r, route, stream) => req'[r].stage = "select"
         /\ Disconnect(r) => req'[r].stage = "idle"
         /\ Select(r) => req'[r].stage \in {"replied", "check"}
<1>1. Idle \in RequestState /\ Idle.stage = "idle"
  BY IdleState DEF Idle
<1>2. ASSUME NEW reply, Reply(r, reply)
      PROVE  req'[r].stage = "replied" /\ req'[r].reply = reply
  BY <1>1, <1>2 DEF Reply, IInv, TypeOK, RequestState
<1>3. ASSUME NEW error, TryNext(r, error) PROVE req'[r].stage = "select"
  BY <1>3 DEF TryNext, IInv, TypeOK, RequestState
<1>4. ASSUME NEW route, NEW stream, Start(r, route, stream) PROVE req'[r].stage = "select"
  BY <1>1, <1>4 DEF Start, IInv, TypeOK, RequestState
<1>5. Disconnect(r) => req'[r].stage = "idle"
  BY <1>1 DEF Disconnect, IInv, TypeOK
<1>6. Select(r) => req'[r].stage \in {"replied", "check"}
  BY <1>2 DEF Select, IInv, TypeOK, RequestState
<1> QED
  BY <1>2, <1>3, <1>4, <1>5, <1>6

\* While a circuit is open and its TTL runs, no request is granted its
\* provider that was not granted it before.
THEOREM OpenTakesNoCalls == Spec => NoNewCallsWhileOpen
<1> DEFINE NoNewCalls ==
      \A p \in Providers :
        circuit[p] = "Open" /\ openFor[p] > 0 => Granted(p)' \subseteq Granted(p)
<1>1. IInv /\ [Next]_vars => NoNewCalls
  <2> SUFFICES ASSUME IInv, [Next]_vars, NEW p \in Providers,
                      circuit[p] = "Open", openFor[p] > 0,
                      NEW r \in Requests,
                      req'[r].stage \in {"prepare", "sent", "record"},
                      Selected(r)' = p
               PROVE  req[r].stage \in {"prepare", "sent", "record"} /\ Selected(r) = p
    BY DEF Granted
  <2>1. CASE req'[r] = req[r]
    BY <2>1 DEF Selected
  <2>2. CASE Check(r)
    <3>1. Breaker!Available(Selected(r))
      BY <2>2 DEF Check, TryNext, IInv, TypeOK, RequestState
    <3>2. Selected(r)' = Selected(r)
      BY <2>2, <3>1, ZenonT(60) DEF Check, Selected, IInv, TypeOK, RequestState
    <3> QED
      BY <3>1, <3>2 DEF Breaker!Available
  <2>3. CASE Send(r) \/ OpenStream(r) \/ \E answer \in Answers : Answer(r, answer)
    <3>1. CASE Send(r) \/ OpenStream(r)
      BY <3>1 DEF Send, OpenStream, Selected, IInv, TypeOK, RequestState
    <3>2. ASSUME NEW answer \in Answers, Answer(r, answer)
          PROVE  req[r].stage \in {"prepare", "sent", "record"} /\ Selected(r) = p
      <4>1. req' = [req EXCEPT ![r].stage = "record", ![r].outcome = answer]
        BY <3>2, NextStage DEF Answer
      <4>2. Selected(r)' = Selected(r)
        BY <4>1 DEF Selected, IInv, TypeOK, RequestState
      <4> QED
        BY <3>2, <4>2 DEF Answer
    <3> QED
      BY <2>3, <3>1, <3>2
  <2>4. CASE req'[r] # req[r] /\ ~Check(r)
    <3>1. ~(\E route, stream : Start(r, route, stream)) /\ ~Disconnect(r)
          /\ ~GiveUp(r) /\ ~Select(r) /\ ~PrepareFails(r) /\ ~Record(r)
      BY NextStage DEF GiveUp, PrepareFails, Record
    <3> QED
      BY <2>3, <2>4, <3>1, OnlyItsHandlerMoves DEF Progress
  <2> QED
    BY <2>1, <2>2, <2>3, <2>4
<1>2. [][NoNewCalls]_vars <=> NoNewCallsWhileOpen
  BY DEF NoNewCallsWhileOpen
<1> HIDE DEF NoNewCalls
<1> QED
  BY <1>1, <1>2, Invariance, PTL DEF Spec

-----------------------------------------------------------------------------
(* The loop runs out.                                                      *)

\* Where a step of its handler takes a request that is not over: to its end, to
\* the next round, or further in this one.
Ends(q, next) == next.stage \in {"idle", "replied"} /\ next.route = <<>> /\ next.attempts = 0

GoesRound(q, next) ==
  /\ q.stage \in Chosen /\ next.stage = "select"
  /\ next.route = q.route /\ next.attempts = q.attempts + 1

GoesOn(q, next) ==
  /\ next.route = q.route /\ next.attempts = q.attempts
  /\ \/ q.stage = "select" /\ next.stage = "check"
     \/ q.stage = "check" /\ next.stage = "prepare"
     \/ q.stage = "prepare" /\ next.stage \in {"sent", "record"}
     \/ q.stage = "sent" /\ next.stage = "record"

LEMMA StepsOfARequest ==
  ASSUME IInv, [Next]_vars, NEW r \in Requests, req'[r] # req[r],
         req[r].stage \notin {"idle", "replied"}
  PROVE  Ends(req[r], req'[r]) \/ GoesRound(req[r], req'[r]) \/ GoesOn(req[r], req'[r])
<1>1. /\ req \in [Requests -> RequestState] /\ req[r] \in RequestState
      /\ Idle \in RequestState /\ Idle.stage = "idle" /\ Idle.route = <<>> /\ Idle.attempts = 0
  BY IdleState DEF IInv, TypeOK, Idle
<1>2. ASSUME NEW reply, Reply(r, reply) PROVE Ends(req[r], req'[r])
  <2>1. req'[r] = [Idle EXCEPT !.stage = "replied", !.reply = reply]
    BY <1>1, <1>2 DEF Reply
  <2> QED
    BY <1>1, <2>1 DEF Ends, RequestState
<1>3. ASSUME NEW error, TryNext(r, error), req[r].stage \in Chosen
      PROVE  GoesRound(req[r], req'[r])
  BY <1>1, <1>3 DEF TryNext, GoesRound, RequestState
<1>4. CASE Disconnect(r)
  <2>1. req'[r] = Idle
    BY <1>1, <1>4 DEF Disconnect
  <2> QED
    BY <1>1, <2>1 DEF Ends
<1>5. CASE GiveUp(r) \/ PrepareFails(r)
  BY <1>2, <1>5 DEF GiveUp, PrepareFails
<1>6. CASE Select(r)
  <2>1. CASE req' = [req EXCEPT ![r].stage = "check", ![r].selected = Choice(Offered(r))]
    BY <1>1, <1>6, <2>1 DEF Select, GoesOn, RequestState
  <2> QED
    BY <1>2, <1>6, <2>1, Zenon DEF Select
<1>7. CASE Check(r)
  <2>1. CASE req' = [req EXCEPT ![r].stage = "prepare"]
    BY <1>1, <1>7, <2>1 DEF Check, GoesOn, RequestState
  <2>2. CASE TryNext(r, "none")
    BY <1>3, <1>7, <2>2 DEF Check, Chosen
  <2> QED
    BY <1>7, <2>1, <2>2, Zenon DEF Check
<1>8. CASE Send(r)
  BY <1>1, <1>8 DEF Send, GoesOn, RequestState
<1>9. CASE OpenStream(r)
  BY <1>1, <1>9 DEF OpenStream, GoesOn, RequestState
<1>10. ASSUME NEW answer \in Answers, Answer(r, answer)
       PROVE  Ends(req[r], req'[r]) \/ GoesRound(req[r], req'[r]) \/ GoesOn(req[r], req'[r])
  <2>1. req[r].stage = "sent"
    BY <1>10 DEF Answer
  <2>2. CASE Reply(r, Rejected[answer])
    BY <1>2, <2>2
  <2>3. CASE req' = [req EXCEPT ![r].stage = "record", ![r].outcome = answer]
    BY <1>1, <2>1, <2>3 DEF GoesOn, RequestState
  <2>4. CASE TryNext(r, ErrorOf[answer])
    BY <1>3, <2>1, <2>4 DEF Chosen
  <2> QED
    BY <1>10, <2>2, <2>3, <2>4 DEF Answer
<1>11. CASE Record(r)
  <2>1. req[r].stage = "record"
    BY <1>11 DEF Record
  <2>2. \/ Reply(r, "Ok") \/ Reply(r, "ProviderError")
        \/ TryNext(r, ErrorOf[req[r].outcome])
    BY <1>11 DEF Record
  <2> QED
    BY <1>2, <1>3, <2>1, <2>2 DEF Chosen
<1>12. ~(\E route \in Routes, stream \in Streaming : Start(r, route, stream))
  BY DEF Start
<1> QED
  BY <1>4, <1>5, <1>6, <1>7, <1>8, <1>9, <1>10, <1>11, <1>12, OnlyItsHandlerMoves DEF Progress

\* No request has had more rounds than it is allowed.
RoundsLeft == \A r \in Requests : req[r].attempts <= MaxAttempts(req[r].route)

LEMMA RoundsStayLeft == Spec => []RoundsLeft
<1>1. Init => RoundsLeft
  BY DEF Init, RoundsLeft, Idle, MaxAttempts
<1>2. IInv /\ RoundsLeft /\ [Next]_vars => RoundsLeft'
  <2> SUFFICES ASSUME IInv, RoundsLeft, [Next]_vars, NEW r \in Requests
               PROVE  req'[r].attempts <= MaxAttempts(req'[r].route)
    BY DEF RoundsLeft, MaxAttempts
  <2>1. /\ req[r] \in RequestState /\ SelectionValid(req[r])
        /\ req[r].attempts <= MaxAttempts(req[r].route)
    BY DEF IInv, TypeOK, Consistent, RoundsLeft
  <2>2. MaxAttempts(req[r].route) \in 0..3 /\ req[r].attempts \in 0..3
    BY <2>1, AttemptsBound DEF RequestState
  <2>3. MaxAttempts(<<>>) = 0
    BY DEF MaxAttempts
  <2>4. CASE req'[r] = req[r]
    BY <2>1, <2>4
  <2>5. CASE req'[r] # req[r] /\ req[r].stage \in {"idle", "replied"}
    <3>1. PICK route \in Routes, stream \in Streaming : Start(r, route, stream)
      <4>1. ~Progress(r) /\ ~Disconnect(r)
        BY <2>5 DEF Progress, GiveUp, Select, Check, PrepareFails, Send, OpenStream, Answer,
                    Record, Disconnect
      <4> QED
        BY <2>5, <4>1, OnlyItsHandlerMoves
    <3>2. req' = [req EXCEPT ![r] = [Idle EXCEPT !.stage = "select", !.route = route,
                                                 !.stream = stream]]
      BY <3>1 DEF Start
    <3>3. req'[r] \in RequestState /\ req'[r].attempts = 0
      <4>1. req'[r] = [Idle EXCEPT !.stage = "select", !.route = route, !.stream = stream]
        BY <3>2 DEF IInv, TypeOK
      <4>2. stream \in BOOLEAN /\ Idle \in RequestState /\ Idle.attempts = 0
        BY <3>1, IdleState, GatewayAssumption
      <4> QED
        BY <4>1, <4>2 DEF RequestState, Stages
    <3> QED
      BY <3>3, AttemptsBound
  <2>6. CASE req'[r] # req[r] /\ req[r].stage \notin {"idle", "replied"}
    <3>1. Ends(req[r], req'[r]) \/ GoesRound(req[r], req'[r]) \/ GoesOn(req[r], req'[r])
      BY <2>6, StepsOfARequest
    <3> QED
      BY <2>1, <2>2, <2>3, <3>1 DEF Ends, GoesRound, GoesOn, SelectionValid
  <2> QED
    BY <2>4, <2>5, <2>6
<1> QED
  BY <1>1, <1>2, Invariance, PTL DEF Spec

\* A request takes at most twenty steps, for every route and every interleaving
\* with other requests: each step of its handler leaves it fewer.
THEOREM LoopRunsOut == Spec => FailoverRunsOut
<1> DEFINE Sinks ==
      \A r \in Requests : req[r].stage \notin {"idle", "replied"} /\ req'[r] # req[r] =>
        /\ StepsLeft(req[r]) \in 1..20
        /\ StepsLeft(req'[r]) \in 0..(StepsLeft(req[r]) - 1)
<1>1. IInv /\ RoundsLeft /\ [Next]_vars => Sinks
  <2> SUFFICES ASSUME IInv, RoundsLeft, [Next]_vars, NEW r \in Requests,
                      req[r].stage \notin {"idle", "replied"}, req'[r] # req[r]
               PROVE  /\ StepsLeft(req[r]) \in 1..20
                      /\ StepsLeft(req'[r]) \in 0..(StepsLeft(req[r]) - 1)
    OBVIOUS
  <2> DEFINE left == MaxAttempts(req[r].route) - req[r].attempts
             q == req[r]
             next == req'[r]
             ofRound == [select |-> 5, check |-> 4, prepare |-> 3, sent |-> 2, record |-> 1]
  <2>1. /\ q \in RequestState /\ SelectionValid(q)
        /\ q.attempts <= MaxAttempts(q.route)
    BY DEF IInv, TypeOK, Consistent, RoundsLeft
  <2>2. MaxAttempts(q.route) \in 0..3 /\ q.attempts \in 0..3 /\ left \in 0..3
        /\ (q.stage \in Chosen => left \in 1..3)
    BY <2>1, AttemptsBound DEF RequestState, SelectionValid
  <2>3. q.stage \in DOMAIN ofRound
    BY <2>1 DEF RequestState, Stages
  <2>4. Ends(q, next) \/ GoesRound(q, next) \/ GoesOn(q, next)
    BY StepsOfARequest
  <2>5. StepsLeft(q) = 5 * left + ofRound[q.stage]
    BY <2>3 DEF StepsLeft
  <2>6. /\ Ends(q, next) => StepsLeft(next) = 0
        /\ GoesRound(q, next) => StepsLeft(next) = 5 * (left - 1) + 5 /\ q.stage \in Chosen
        /\ GoesOn(q, next) => /\ StepsLeft(next) = 5 * left + ofRound[next.stage]
                              /\ ofRound[next.stage] \in 1..(ofRound[q.stage] - 1)
    <3>1. Ends(q, next) => StepsLeft(next) = 0
      BY DEF Ends, StepsLeft
    <3>2. GoesRound(q, next) => StepsLeft(next) = 5 * (left - 1) + 5 /\ q.stage \in Chosen
      <4>1. MaxAttempts(q.route) - (q.attempts + 1) = left - 1
        BY <2>2
      <4> HIDE DEF left
      <4> QED
        BY <4>1 DEF GoesRound, StepsLeft
    <3>3. GoesOn(q, next) => /\ StepsLeft(next) = 5 * left + ofRound[next.stage]
                             /\ ofRound[next.stage] \in 1..(ofRound[q.stage] - 1)
      BY DEF GoesOn, StepsLeft
    <3> QED
      BY <3>1, <3>2, <3>3
  <2>7. ofRound[q.stage] \in 1..5
    BY <2>3
  <2> HIDE DEF left, q, next, ofRound
  <2>8. StepsLeft(q) \in 1..20 /\ StepsLeft(next) \in 0..(StepsLeft(q) - 1)
    BY <2>2, <2>4, <2>5, <2>6, <2>7
  <2> QED
    BY <2>8 DEF q, next
<1>2. [][Sinks]_vars <=> FailoverRunsOut
  BY DEF FailoverRunsOut
<1> HIDE DEF Sinks
<1> QED
  BY <1>1, <1>2, Invariance, RoundsStayLeft, PTL DEF Spec

-----------------------------------------------------------------------------
(* The breaker's states.                                                   *)

\* Every provider's circuit is in one of the three states.
CircuitsOK == circuit \in [Providers -> Breaker!CircuitState]

LEMMA CircuitsStayOK == Spec => []CircuitsOK
<1>1. Init => CircuitsOK
  BY DEF Init, Breaker!Init, CircuitsOK, Breaker!CircuitState
<1>2. CircuitsOK /\ [Breaker!Next]_(Breaker!vars) => CircuitsOK'
  <2> SUFFICES ASSUME CircuitsOK, [Breaker!Next]_(Breaker!vars) PROVE CircuitsOK'
    OBVIOUS
  <2> USE DEF CircuitsOK, Breaker!CircuitState
  <2>1. ASSUME NEW p \in Providers, Breaker!IsAvailable(p) PROVE CircuitsOK'
    BY <2>1 DEF Breaker!IsAvailable
  <2>2. ASSUME NEW p \in Providers, NEW result, Breaker!RecordResult(p, result)
        PROVE  CircuitsOK'
    <3>1. \/ circuit' = circuit
          \/ circuit' = [circuit EXCEPT ![p] = "Closed"]
          \/ circuit' = [circuit EXCEPT ![p] = "Open"]
      BY <2>2 DEF Breaker!RecordResult, Breaker!Recover, Breaker!JudgeClosed,
         Breaker!Reopen, Breaker!Ignore, Breaker!Open, Breaker!status
    <3> QED
      BY <3>1
  <2>3. CASE Breaker!Tick \/ UNCHANGED Breaker!vars
    BY <2>3 DEF Breaker!Tick, Breaker!vars
  <2> QED
    BY <2>1, <2>2, <2>3 DEF Breaker!Next
<1>3. IInv /\ [Next]_vars => [Breaker!Next]_(Breaker!vars)
  BY StepDrivesBreaker
<1> QED
  BY <1>1, <1>2, <1>3, Invariance, PTL DEF Spec

\* The one step that closes a circuit: a success is recorded for its provider.
LEMMA ClosingStep ==
  ASSUME CircuitsOK, [Next]_vars, NEW p \in Providers,
         circuit[p] = "HalfOpen", circuit'[p] = "Closed"
  PROVE  \E r \in Requests :
           Record(r) /\ Selected(r) = p /\ Recorded[req[r].outcome] = "Success"
<1>1. ASSUME NEW r \in Requests, Check(r) PROVE circuit'[p] # "Closed"
  BY <1>1 DEF Check, Breaker!IsAvailable, CircuitsOK
<1>2. ~Tick /\ ~UNCHANGED breakerVars
  BY DEF Tick, Breaker!Tick, breakerVars
<1>3. PICK r \in Requests : Record(r)
  BY <1>1, <1>2 DEF Next, Progress, vars, Start, GiveUp, Select, PrepareFails, Send,
     OpenStream, Answer, Disconnect
<1> DEFINE x == Selected(r)
           result == Recorded[req[r].outcome]
<1>4. Breaker!RecordResult(x, result)
  BY <1>3 DEF Record
<1> HIDE DEF x, result
<1>5. \/ Breaker!Recover(x, result)
      \/ circuit' = circuit
      \/ circuit' = [circuit EXCEPT ![x] = "Open"]
  BY <1>4 DEF Breaker!RecordResult, Breaker!JudgeClosed, Breaker!Reopen, Breaker!Ignore,
     Breaker!Open, Breaker!status
<1>6. Breaker!Recover(x, result) /\ x = p
  BY <1>5 DEF Breaker!Recover, CircuitsOK
<1>7. result = "Success"
  BY <1>6 DEF Breaker!Recover
<1> QED
  BY <1>3, <1>6, <1>7 DEF x, result

\* A circuit under test is closed by a request that reached the provider and
\* has its 2xx answer, or by a streaming request.
THEOREM ClosedByAnswer == Spec => ClosesOnCallAnswer
<1> DEFINE Closes ==
      \A p \in Providers : circuit[p] = "HalfOpen" /\ circuit'[p] = "Closed" =>
        \E r \in Requests :
          /\ req'[r] # req[r] /\ req[r].stage = "record" /\ Selected(r) = p
          /\ \/ req[r].stream
             \/ trace[r].heard \in {"ok", "badBody"} /\ p \in Range(trace[r].contacted)
<1>1. IInv /\ CircuitsOK /\ [Next]_vars => Closes
  <2> SUFFICES ASSUME IInv, CircuitsOK, [Next]_vars, NEW p \in Providers,
                      circuit[p] = "HalfOpen", circuit'[p] = "Closed"
               PROVE  \E r \in Requests :
                        /\ req'[r] # req[r] /\ req[r].stage = "record" /\ Selected(r) = p
                        /\ \/ req[r].stream
                           \/ /\ trace[r].heard \in {"ok", "badBody"}
                              /\ p \in Range(trace[r].contacted)
    OBVIOUS
  <2>1. PICK r \in Requests :
          Record(r) /\ Selected(r) = p /\ Recorded[req[r].outcome] = "Success"
    BY ClosingStep
  <2>2. req[r].stage = "record" /\ req'[r] # req[r]
    BY <2>1, NextStage DEF Record
  <2>3. CallsAccounted(req[r], trace[r]) /\ AnswersAccounted(req[r], trace[r])
    BY DEF IInv, Consistent
  <2>4. ~req[r].stream => trace[r].heard \in {"ok", "badBody"}
    BY <2>1, <2>2, <2>3 DEF AnswersAccounted, Recorded
  <2>5. ~req[r].stream => p \in Range(trace[r].contacted)
    BY <2>1, <2>2, <2>3 DEF CallsAccounted, Selected
  <2> QED
    BY <2>1, <2>2, <2>4, <2>5
<1>2. [][Closes]_vars <=> ClosesOnCallAnswer
  BY DEF ClosesOnCallAnswer
<1> HIDE DEF Closes
<1> QED
  BY <1>1, <1>2, Invariance, CircuitsStayOK, PTL DEF Spec

-----------------------------------------------------------------------------
(* No provider is left untried.  A second invariant counts the rounds: each *)
(* excludes one provider of the route more, called or refused.              *)

Names(route) == {route[i].name : i \in DOMAIN route}

RoundsAccounted(q, t) ==
  q.stage \notin {"idle", "replied"} =>
    /\ q.excluded \subseteq Names(q.route)
    /\ q.excluded \subseteq Range(t.contacted) \cup t.refused
    /\ IsFiniteSet(q.excluded) /\ Cardinality(q.excluded) = q.attempts

Rounds == \A r \in Requests : RoundsAccounted(req[r], trace[r])

\* The next round: the provider that is excluded was not excluded before.
LEMMA NextRound ==
  ASSUME IInv, NEW r \in Requests, NEW error, req[r].stage \in Chosen, TryNext(r, error),
         RoundsAccounted(req[r], trace[r]), NEW t,
         Range(trace[r].contacted) \subseteq Range(t.contacted),
         trace[r].refused \subseteq t.refused,
         Selected(r) \in Range(t.contacted) \cup t.refused
  PROVE  RoundsAccounted(req'[r], t)
<1>1. /\ req'[r].route = req[r].route
      /\ req'[r].attempts = req[r].attempts + 1
      /\ req'[r].excluded = req[r].excluded \cup {Selected(r)}
  BY DEF TryNext, IInv, TypeOK, RequestState
<1>2. Selected(r) \in Names(req[r].route) /\ Selected(r) \notin req[r].excluded
  BY DEF IInv, Consistent, SelectionValid, Selected, Names
<1>3. /\ req[r].excluded \subseteq Names(req[r].route)
      /\ req[r].excluded \subseteq Range(trace[r].contacted) \cup trace[r].refused
      /\ IsFiniteSet(req[r].excluded) /\ Cardinality(req[r].excluded) = req[r].attempts
  BY DEF RoundsAccounted, Chosen
<1>4. /\ IsFiniteSet(req[r].excluded \cup {Selected(r)})
      /\ Cardinality(req[r].excluded \cup {Selected(r)}) = req[r].attempts + 1
  BY <1>2, <1>3, FS_AddElement
<1> QED
  BY <1>1, <1>2, <1>3, <1>4 DEF RoundsAccounted

\* Between the rounds nothing is forgotten.
LEMMA SameRound ==
  ASSUME NEW q, NEW t, RoundsAccounted(q, t), NEW p, NEW u,
         q.stage \notin {"idle", "replied"},
         p.route = q.route, p.excluded = q.excluded, p.attempts = q.attempts,
         Range(t.contacted) \subseteq Range(u.contacted), t.refused \subseteq u.refused
  PROVE  RoundsAccounted(p, u)
BY DEF RoundsAccounted

LEMMA RoundsNext == IInv /\ Rounds /\ [Next]_vars => Rounds'
<1> SUFFICES ASSUME IInv, Rounds, [Next]_vars, NEW r \in Requests
             PROVE  RoundsAccounted(req'[r], trace'[r])
  BY DEF Rounds, RoundsAccounted, Names
<1>1. /\ req[r] \in RequestState /\ trace[r] \in History /\ Consistent(req[r], trace[r])
      /\ RoundsAccounted(req[r], trace[r])
  BY DEF IInv, TypeOK, Rounds
<1>2. CASE req'[r] = req[r] /\ trace'[r] = trace[r]
  BY <1>1, <1>2
<1>3. CASE req'[r].stage \in {"idle", "replied"}
  BY <1>3 DEF RoundsAccounted
<1>4. ASSUME NEW route \in Routes, NEW stream \in Streaming, Start(r, route, stream)
      PROVE  RoundsAccounted(req'[r], trace'[r])
  <2>1. req'[r].attempts = 0 /\ req'[r].excluded = {}
    BY <1>4 DEF Start, IInv, TypeOK, RequestState, Idle
  <2>2. IsFiniteSet({}) /\ Cardinality({}) = 0
    BY FS_EmptySet
  <2> QED
    BY <2>1, <2>2 DEF RoundsAccounted
<1>5. CASE Select(r) /\ req'[r].stage \notin {"idle", "replied"}
  <2>1. /\ req' = [req EXCEPT ![r].stage = "check", ![r].selected = Choice(Offered(r))]
        /\ trace' = trace /\ req[r].stage = "select"
    BY <1>5, NextStage DEF Select
  <2>2. /\ req'[r].route = req[r].route /\ req'[r].excluded = req[r].excluded
        /\ req'[r].attempts = req[r].attempts
    BY <2>1 DEF IInv, TypeOK, RequestState
  <2> QED
    BY <1>1, <2>1, <2>2, SameRound
<1>6. CASE Check(r)
  <2>1. CASE Breaker!Available(Selected(r))
    <3>1. /\ req' = [req EXCEPT ![r].stage = "prepare"] /\ req[r].stage = "check"
          /\ trace'[r].contacted = trace[r].contacted /\ trace'[r].refused = trace[r].refused
      BY <1>6, <2>1 DEF Check, IInv, TypeOK, History
    <3>2. /\ req'[r].route = req[r].route /\ req'[r].excluded = req[r].excluded
          /\ req'[r].attempts = req[r].attempts
      BY <3>1 DEF IInv, TypeOK, RequestState
    <3> QED
      BY <1>1, <3>1, <3>2, SameRound
  <2>2. CASE ~Breaker!Available(Selected(r))
    <3>1. /\ TryNext(r, "none") /\ req[r].stage = "check"
          /\ trace'[r].contacted = trace[r].contacted
          /\ trace'[r].refused = trace[r].refused \cup {Selected(r)}
      BY <1>6, <2>2 DEF Check, IInv, TypeOK, History
    <3>2. req[r].stage \in Chosen
      BY <3>1 DEF Chosen
    <3> QED
      BY <1>1, <3>1, <3>2, NextRound
  <2> QED
    BY <2>1, <2>2
<1>7. CASE Send(r)
  <2>1. /\ req' = [req EXCEPT ![r].stage = "sent"] /\ req[r].stage = "prepare"
        /\ trace'[r].contacted = Append(trace[r].contacted, Selected(r))
        /\ trace'[r].refused = trace[r].refused
    BY <1>7 DEF Send, IInv, TypeOK, History
  <2>2. /\ req'[r].route = req[r].route /\ req'[r].excluded = req[r].excluded
        /\ req'[r].attempts = req[r].attempts
    BY <2>1 DEF IInv, TypeOK, RequestState
  <2>3. Selected(r) \in Providers /\ trace[r].contacted \in Seq(Providers)
    BY <1>1, <2>1, ChosenProvider DEF Chosen, History
  <2>4. Range(trace[r].contacted) \subseteq Range(trace'[r].contacted)
    BY <2>1, <2>3 DEF Range
  <2> QED
    BY <1>1, <2>1, <2>2, <2>4, SameRound
<1>8. CASE OpenStream(r)
  <2>1. /\ req' = [req EXCEPT ![r].stage = "record", ![r].outcome = "streamOpened"]
        /\ trace' = trace /\ req[r].stage = "prepare"
    BY <1>8 DEF OpenStream
  <2>2. /\ req'[r].route = req[r].route /\ req'[r].excluded = req[r].excluded
        /\ req'[r].attempts = req[r].attempts
    BY <2>1 DEF IInv, TypeOK, RequestState
  <2> QED
    BY <1>1, <2>1, <2>2, SameRound
<1>9. ASSUME NEW answer \in Answers, Answer(r, answer), req'[r].stage \notin {"idle", "replied"}
      PROVE  RoundsAccounted(req'[r], trace'[r])
  <2>1. /\ trace' = [trace EXCEPT ![r].heard = answer] /\ req[r].stage = "sent"
        /\ \/ req' = [req EXCEPT ![r].stage = "record", ![r].outcome = answer]
           \/ TryNext(r, ErrorOf[answer])
    BY <1>9, NextStage DEF Answer
  <2>2. trace'[r].contacted = trace[r].contacted /\ trace'[r].refused = trace[r].refused
    BY <2>1 DEF IInv, TypeOK, History
  <2>3. CASE req' = [req EXCEPT ![r].stage = "record", ![r].outcome = answer]
    <3>1. /\ req'[r].route = req[r].route /\ req'[r].excluded = req[r].excluded
          /\ req'[r].attempts = req[r].attempts
      BY <2>3 DEF IInv, TypeOK, RequestState
    <3>2. req[r].stage = "sent"
      BY <2>1
    <3> QED
      BY <1>1, <2>2, <3>1, <3>2, SameRound
  <2>4. CASE TryNext(r, ErrorOf[answer])
    <3>1. Selected(r) \in Range(trace[r].contacted) /\ req[r].stage \in Chosen
      BY <1>1, <2>1 DEF Consistent, CallsAccounted, AnswersAccounted, Selected, Chosen
    <3> QED
      BY <1>1, <2>2, <2>4, <3>1, NextRound
  <2> QED
    BY <2>1, <2>3, <2>4
<1>10. CASE Record(r) /\ req'[r].stage \notin {"idle", "replied"}
  <2>1. /\ TryNext(r, ErrorOf[req[r].outcome]) /\ trace' = trace
        /\ req[r].stage = "record" /\ req[r].outcome \in DOMAIN ErrorOf
    BY <1>10, NextStage DEF Record
  <2>2. Selected(r) \in Range(trace[r].contacted) /\ req[r].stage \in Chosen
    <3>1. ~req[r].stream
      BY <1>1, <2>1 DEF Consistent, AnswersAccounted, ErrorOf
    <3> QED
      BY <1>1, <2>1, <3>1 DEF Consistent, CallsAccounted, Selected, Chosen
  <2> QED
    BY <1>1, <2>1, <2>2, NextRound
<1>11. ASSUME GiveUp(r) \/ PrepareFails(r) \/ Disconnect(r)
       PROVE  req'[r].stage \in {"idle", "replied"}
  BY <1>11, NextStage DEF GiveUp, PrepareFails
<1> QED
  BY <1>2, <1>3, <1>4, <1>5, <1>6, <1>7, <1>8, <1>9, <1>10, <1>11, OnlyItsHandlerMoves
     DEF Progress

LEMMA RoundsHold == Spec => []Rounds
<1>1. Init => Rounds
  BY IdleState DEF Init, Rounds, RoundsAccounted, Idle
<1> QED
  BY <1>1, RoundsNext, Invariance, PTL DEF Spec

\* What the balancer refuses, when something is on offer, has no weight.
LEMMA RefusedIsWeightless ==
  ASSUME IInv, NEW r \in Requests, Refuses(Offered(r)), NEW x \in DOMAIN Offered(r)
  PROVE  req[r].route[x].weight = 0
<1> DEFINE route == req[r].route
           left == {i \in DOMAIN route : route[i].name \notin req[r].excluded}
           weights == Offered(r)
<1>1. /\ route \in Seq([name : Providers, weight : Nat])
      /\ \A i \in DOMAIN route : route[i] \in [name : Providers, weight : Nat]
      /\ IsFiniteSet(DOMAIN route)
  <2>1. /\ route \in Seq([name : Providers, weight : Nat])
        /\ \A i \in DOMAIN route : route[i] \in [name : Providers, weight : Nat]
        /\ DOMAIN route = 1..Len(route) /\ Len(route) \in Nat
    BY RouteIsList, SequenceElements, Zenon DEF IInv, TypeOK
  <2> DEFINE n == Len(route)
  <2>2. DOMAIN route = 1..n /\ n \in Nat
    BY <2>1
  <2> HIDE DEF n, route
  <2> QED
    BY <2>1, <2>2, FS_Interval
<1>2. /\ DOMAIN weights = left /\ x \in left
      /\ \A i \in left : weights[i] = route[i].weight /\ weights[i] \in Nat
  BY <1>1 DEF Offered
<1> DEFINE rest == left \ {x}
<1>3. IsFiniteSet(rest) /\ x \notin rest /\ rest \cup {x} = left
  BY <1>1, <1>2, FS_Subset
<1>4. TotalWeight(weights) = 0
  BY <1>2 DEF Refuses
<1> HIDE DEF left, weights, rest
<1>5. SumFunctionOnSet(weights, rest) \in Nat
  BY <1>2, <1>3, SumIsNat
<1>6. SumFunctionOnSet(weights, rest \cup {x}) = weights[x] + SumFunctionOnSet(weights, rest)
  BY <1>2, <1>3, SumAdds
<1>7. SumFunctionOnSet(weights, left) = weights[x] + SumFunctionOnSet(weights, rest)
  BY <1>3, <1>6, Zenon
<1>8. TotalWeight(weights) = SumFunctionOnSet(weights, left)
  BY <1>2 DEF TotalWeight, SumFunction
<1> QED
  BY <1>2, <1>4, <1>5, <1>7, <1>8

\* A route whose providers all have a weight is not refused while one is on offer.
LEMMA OfferIsTaken ==
  ASSUME IInv, NEW r \in Requests, DOMAIN Offered(r) # {},
         \A i \in DOMAIN req[r].route : req[r].route[i].weight > 0
  PROVE  ~Refuses(Offered(r))
<1>1. PICK x \in DOMAIN Offered(r) : TRUE
  OBVIOUS
<1>2. x \in DOMAIN req[r].route
  BY DEF Offered
<1> QED
  BY <1>1, <1>2, RefusedIsWeightless

\* The loop gives up only when every provider of a short route was called or
\* refused by its breaker, however often circuits and names repeat meanwhile.
THEOREM EveryProviderTried == Spec => NoProviderLeftUntried
<1> DEFINE Tried ==
      \A r \in Requests : Replying(r) /\ req[r].stage = "select" =>
        LET route == req[r].route
            tried == Range(trace[r].contacted) \cup trace[r].refused
        IN Len(route) <= 3 /\ (\A i \in DOMAIN route : route[i].weight > 0)
             => \A i \in DOMAIN route : route[i].name \in tried
<1>1. IInv /\ Rounds /\ [Next]_vars => Tried
  <2> SUFFICES ASSUME IInv, Rounds, [Next]_vars, NEW r \in Requests, Replying(r),
                      req[r].stage = "select", Len(req[r].route) <= 3,
                      \A i \in DOMAIN req[r].route : req[r].route[i].weight > 0
               PROVE  \A i \in DOMAIN req[r].route :
                        req[r].route[i].name \in Range(trace[r].contacted) \cup trace[r].refused
    OBVIOUS
  <2> DEFINE route == req[r].route
             excluded == req[r].excluded
             n == Len(route)
  <2>1. /\ excluded \subseteq Names(route)
        /\ excluded \subseteq Range(trace[r].contacted) \cup trace[r].refused
        /\ IsFiniteSet(excluded) /\ Cardinality(excluded) = req[r].attempts
    BY DEF Rounds, RoundsAccounted
  <2>2. SUFFICES Names(route) \subseteq excluded
    BY <2>1 DEF Names
  <2>3. DOMAIN route = 1..n /\ n \in Nat
    BY RouteIsList, SequenceElements, Zenon DEF IInv, TypeOK
  <2>4. CASE DOMAIN Offered(r) = {}
    BY <2>4 DEF Offered, Names
  <2>5. CASE DOMAIN Offered(r) # {}
    <3>1. ~Refuses(Offered(r))
      BY <2>5, OfferIsTaken
    <3>2. req'[r].stage = "replied" /\ req'[r] # req[r]
      BY DEF Replying
    <3>3. GiveUp(r) \/ Select(r)
      <4>1. ~(\E any \in Routes, stream \in Streaming : Start(r, any, stream))
            /\ ~Disconnect(r)
        BY <3>2, NextStage
      <4> QED
        BY <3>2, <4>1, OnlyItsHandlerMoves DEF Progress, Check, PrepareFails, Send,
           OpenStream, Answer, Record
    <3>4. ~Select(r)
      <4>1. Select(r) => req' = [req EXCEPT ![r].stage = "check",
                                            ![r].selected = Choice(Offered(r))]
        BY <3>1 DEF Select
      <4>2. req' = [req EXCEPT ![r].stage = "check", ![r].selected = Choice(Offered(r))]
              => req'[r].stage = "check"
        BY DEF IInv, TypeOK, RequestState
      <4> QED
        BY <3>2, <4>1, <4>2
    <3>5. req[r].attempts = n
      BY <2>3, <2>5, <3>3, <3>4 DEF GiveUp, MaxAttempts
    <3>6. IsFiniteSet(Names(route)) /\ Cardinality(Names(route)) <= n
      <4> DEFINE name == [i \in 1..n |-> route[i].name]
      <4>1. name \in Surjection(1..n, Names(route))
        BY <2>3 DEF Surjection, Names
      <4>2. IsFiniteSet(1..n) /\ Cardinality(1..n) = n
        BY <2>3, FS_Interval
      <4>3. IsFiniteSet(Names(route)) /\ Cardinality(Names(route)) <= Cardinality(1..n)
        BY <4>1, <4>2, FS_Surjection
      <4> QED
        BY <4>2, <4>3
    <3>7. Cardinality(excluded) = n
      BY <2>1, <3>5
    <3>8. /\ Cardinality(excluded) <= Cardinality(Names(route))
          /\ Cardinality(Names(route)) = Cardinality(excluded) => Names(route) = excluded
      BY <2>1, <3>6, FS_Subset
    <3>9. Cardinality(Names(route)) \in Nat
      BY <3>6, FS_CardinalityType
    <3> HIDE DEF n, excluded, route
    <3>10. Cardinality(Names(route)) = Cardinality(excluded)
      BY <2>3, <3>6, <3>7, <3>8, <3>9
    <3> QED
      BY <3>8, <3>10
  <2> QED
    BY <2>4, <2>5
<1>2. [][Tried]_vars <=> NoProviderLeftUntried
  BY DEF NoProviderLeftUntried
<1> HIDE DEF Tried
<1> QED
  BY <1>1, <1>2, Invariance, RoundsHold, PTL DEF Spec

-----------------------------------------------------------------------------
(* What the client is told.                                                *)

\* The steps that answer a request, with the reply of each.
LEMMA ReplyingSteps ==
  ASSUME IInv, [Next]_vars, NEW r \in Requests, Replying(r)
  PROVE  \/ /\ req[r].stage = "select"
            /\ req'[r].reply = IF req[r].lastError = "none" THEN "Exhausted"
                              ELSE req[r].lastError
         \/ /\ req[r].stage = "select"
            /\ req'[r].reply = "NoProviders" /\ Refuses(Offered(r))
         \/ /\ req[r].stage = "prepare"
            /\ req'[r].reply \in {"AuthUnavailable", "Internal"}
         \/ /\ req[r].stage = "sent"
            /\ req'[r].reply \in {"BadRequest", "Unauthorized"}
         \/ /\ req[r].stage = "record"
            /\ \/ req[r].outcome \in {"ok", "streamOpened"} /\ req'[r].reply = "Ok"
               \/ req[r].outcome = "badBody" /\ req'[r].reply = "ProviderError"
<1>1. req'[r].stage = "replied" /\ req'[r] # req[r]
  BY DEF Replying
<1>2. ~(\E route, stream : Start(r, route, stream)) /\ ~Disconnect(r)
      /\ \A error : ~TryNext(r, error)
  BY <1>1, NextStage
<1>3. ~Check(r) /\ ~Send(r) /\ ~OpenStream(r)
  BY <1>1, <1>2 DEF Check, Send, OpenStream, IInv, TypeOK, RequestState
<1>4. CASE GiveUp(r)
  BY <1>4, NextStage DEF GiveUp
<1>5. CASE Select(r)
  <2>1. CASE Refuses(Offered(r)) /\ Reply(r, "NoProviders")
    BY <1>5, <2>1, NextStage DEF Select
  <2>2. CASE req' = [req EXCEPT ![r].stage = "check", ![r].selected = Choice(Offered(r))]
    <3>1. req'[r].stage = "check"
      BY <2>2 DEF IInv, TypeOK, RequestState
    <3> QED
      BY <1>1, <3>1
  <2> QED
    BY <1>5, <2>1, <2>2, Zenon DEF Select
<1>6. CASE PrepareFails(r)
  BY <1>6, NextStage DEF PrepareFails
<1>7. ASSUME NEW answer \in Answers, Answer(r, answer)
      PROVE  req[r].stage = "sent" /\ req'[r].reply \in {"BadRequest", "Unauthorized"}
  <2>1. answer \in DOMAIN Rejected /\ Reply(r, Rejected[answer])
    BY <1>1, <1>2, <1>7 DEF Answer, IInv, TypeOK, RequestState
  <2>2. Rejected[answer] \in {"BadRequest", "Unauthorized"}
    BY <2>1 DEF Rejected
  <2> QED
    BY <1>7, <2>1, <2>2, NextStage DEF Answer
<1>8. CASE Record(r)
  BY <1>2, <1>8, NextStage DEF Record
<1> QED
  BY <1>1, <1>2, <1>3, <1>4, <1>5, <1>6, <1>7, <1>8, OnlyItsHandlerMoves DEF Progress

\* What the client is told is the answer of the provider that failed last; the
\* gateway's own errors replace it only when what is left on offer has no weight
\* and when a provider that was not asked yet cannot be.
THEOREM ReplyIsTheStory == Spec => ReplyTellsTheStory
<1> DEFINE ToldWell(r) ==
             LET heard == trace[r].heard
                 asked == trace[r].contacted
                 reply == req'[r].reply
             IN /\ reply = "Ok" => heard = "ok" \/ req[r].stream
                /\ reply = "Exhausted" => asked = <<>>
                /\ reply = "RateLimited" => heard = "rateLimited"
                /\ reply = "ServiceUnavailable" => heard \in {"serverError", "network", "timeout"}
                /\ reply = "ProviderError" => heard \in {"otherStatus", "badBody"}
                /\ reply \in {"BadRequest", "Unauthorized"} =>
                     req[r].stage = "sent" /\ Selected(r) \in Range(asked)
                /\ reply \in {"AuthUnavailable", "Internal"} =>
                     req[r].stage = "prepare" /\ Selected(r) \notin Range(asked)
                /\ reply = "NoProviders" =>
                     \A i \in DOMAIN req[r].route : req[r].route[i].weight > 0 =>
                       req[r].route[i].name \in Range(asked) \cup trace[r].refused
           Story == \A r \in Requests : Replying(r) => ToldWell(r)
<1>1. IInv /\ Rounds /\ [Next]_vars => Story
  <2> SUFFICES ASSUME IInv, Rounds, [Next]_vars, NEW r \in Requests, Replying(r)
               PROVE  ToldWell(r)
    OBVIOUS
  <2>1. /\ AnswersAccounted(req[r], trace[r]) /\ CallsAccounted(req[r], trace[r])
        /\ SelectionValid(req[r]) /\ RoundsAccounted(req[r], trace[r])
    BY DEF IInv, Consistent, Rounds
  <2>2. CASE /\ req[r].stage = "select"
             /\ req'[r].reply = IF req[r].lastError = "none" THEN "Exhausted"
                               ELSE req[r].lastError
    BY <2>1, <2>2 DEF AnswersAccounted, Looking, ErrorOf
  <2>3. CASE /\ req[r].stage = "select"
             /\ req'[r].reply = "NoProviders" /\ Refuses(Offered(r))
    <3>1. ASSUME NEW i \in DOMAIN req[r].route, req[r].route[i].weight > 0
          PROVE  req[r].route[i].name \in Range(trace[r].contacted) \cup trace[r].refused
      <4>1. i \notin DOMAIN Offered(r)
        BY <2>3, <3>1, RefusedIsWeightless
      <4>2. req[r].route[i].name \in req[r].excluded
        BY <4>1 DEF Offered
      <4> QED
        BY <2>1, <2>3, <4>2 DEF RoundsAccounted
    <3> QED
      BY <2>3, <3>1
  <2>4. CASE req[r].stage = "prepare" /\ req'[r].reply \in {"AuthUnavailable", "Internal"}
    <3>1. Selected(r) \notin Range(trace[r].contacted)
      BY <2>1, <2>4 DEF SelectionValid, CallsAccounted, Chosen, Looking, Selected
    <3> QED
      BY <2>4, <3>1
  <2>5. CASE req[r].stage = "sent" /\ req'[r].reply \in {"BadRequest", "Unauthorized"}
    <3>1. Selected(r) \in Range(trace[r].contacted)
      BY <2>1, <2>5 DEF CallsAccounted, AnswersAccounted, Selected
    <3> QED
      BY <2>5, <3>1
  <2>6. CASE /\ req[r].stage = "record"
             /\ \/ req[r].outcome \in {"ok", "streamOpened"} /\ req'[r].reply = "Ok"
                \/ req[r].outcome = "badBody" /\ req'[r].reply = "ProviderError"
    BY <2>1, <2>6 DEF AnswersAccounted
  <2> QED
    BY <2>2, <2>3, <2>4, <2>5, <2>6, ReplyingSteps
<1>2. [][Story]_vars <=> ReplyTellsTheStory
  BY DEF ReplyTellsTheStory
<1> HIDE DEF Story
<1> QED
  BY <1>1, <1>2, Invariance, RoundsHold, PTL DEF Spec

-----------------------------------------------------------------------------
(* What is proved of the breaker alone holds of the breaker the gateway    *)
(* shares: Circuits is that breaker again, with its theorems.              *)

Circuits == INSTANCE CircuitBreakerProofs

LEMMA SameRecordResult ==
  \A p, result : Circuits!RecordResult(p, result) <=> Breaker!RecordResult(p, result)
<1>1. \A p, samples : Circuits!Prune(p, samples) = Breaker!Prune(p, samples)
  BY DEF Circuits!Prune, Breaker!Prune
<1>2. \A p, result : Circuits!Recover(p, result) <=> Breaker!Recover(p, result)
  BY DEF Circuits!Recover, Breaker!Recover
<1>3. \A p, ttl : Circuits!Open(p, ttl) <=> Breaker!Open(p, ttl)
  BY DEF Circuits!Open, Breaker!Open
<1>4. \A failed, total :
        Circuits!ExceedsThreshold(failed, total) <=> Breaker!ExceedsThreshold(failed, total)
  BY DEF Circuits!ExceedsThreshold, Breaker!ExceedsThreshold,
         Circuits!Cardinality, Breaker!Cardinality
<1>5. \A backoff : Circuits!NextTtl(backoff) = Breaker!NextTtl(backoff)
  BY DEF Circuits!NextTtl, Breaker!NextTtl
<1>6. \A p, result, failed, total :
        Circuits!JudgeClosed(p, result, failed, total)
          <=> Breaker!JudgeClosed(p, result, failed, total)
  BY <1>3, <1>4 DEF Circuits!JudgeClosed, Breaker!JudgeClosed,
                    Circuits!status, Breaker!status
<1>7. \A p, result : Circuits!Reopen(p, result) <=> Breaker!Reopen(p, result)
  BY <1>3, <1>5 DEF Circuits!Reopen, Breaker!Reopen
<1>8. \A p : Circuits!Ignore(p) <=> Breaker!Ignore(p)
  BY DEF Circuits!Ignore, Breaker!Ignore, Circuits!status, Breaker!status
<1> QED
  BY <1>1, <1>2, <1>6, <1>7, <1>8, ZenonT(60) DEF Circuits!RecordResult, Breaker!RecordResult

LEMMA GatewayRunsCircuits == Spec => Circuits!Spec
<1>1. Init => Circuits!Init
  BY DEF Init, Breaker!Init, Circuits!Init
<1>2. \A p : Breaker!IsAvailable(p) => Circuits!IsAvailable(p)
  BY DEF Circuits!IsAvailable, Breaker!IsAvailable, Circuits!windows, Breaker!windows
<1>3. Breaker!Tick => Circuits!Tick
  BY DEF Circuits!Tick, Breaker!Tick
<1>4. IInv /\ [Next]_vars => [Circuits!Next]_(Circuits!vars)
  BY <1>2, <1>3, SameRecordResult, StepDrivesBreaker
     DEF Breaker!Next, Circuits!Next, Breaker!vars, Circuits!vars,
         Breaker!CallResult, Circuits!CallResult
<1> QED
  BY <1>1, <1>4, Invariance, PTL DEF Spec, Circuits!Spec

LEMMA CircuitsConfigured == Circuits!ConfigAssumption
BY GatewayAssumption DEF Circuits!ConfigAssumption, Breaker!ConfigAssumption

\* Under any number of concurrent requests, failing over, disconnecting and
\* reporting late, circuits and windows agree and waits stay bounded.
THEOREM SharedCircuitsAgree ==
  Spec => [](/\ Circuits!ClosedIsHealthy
             /\ Circuits!FailuresAreRequests
             /\ Circuits!BackoffBounded)
<1>1. /\ Circuits!Spec => []Circuits!ClosedIsHealthy
      /\ Circuits!Spec => []Circuits!FailuresAreRequests
      /\ Circuits!Spec => []Circuits!BackoffBounded
  BY CircuitsConfigured, Circuits!ClosedHealth, Circuits!WindowsAgree, Circuits!BackoffBound
<1> QED
  BY <1>1, GatewayRunsCircuits, PTL

\* The gateway as a whole implements ProviderGate: whatever its requests do, a
\* provider's wait is neither cut short nor extended, and only a probe ends it.
THEOREM GatewayKeepsGate == Spec => Circuits!KeepsGate
<1>1. Circuits!Spec => Circuits!KeepsGate
  BY CircuitsConfigured, Circuits!GateKept
<1> QED
  BY <1>1, GatewayRunsCircuits, PTL

-----------------------------------------------------------------------------
(* Calls that a cut-off has overtaken.                                     *)

LEMMA LateStepIsStep == LateSpec => Spec
<1>1. LateInit => Init
  BY DEF LateInit
<1>2. [LateNext]_lateVars => [Next]_vars
  BY DEF LateNext, lateVars
<1> QED
  BY <1>1, <1>2, PTL DEF LateSpec, Spec

\* Whoever waits with a grant during a cut-off was overtaken by it.
WaitersAreOvertaken ==
  \A p \in Providers :
    circuit[p] = "Open" /\ openFor[p] > 0 => Waiting(p) \subseteq overtaken[p]

\* A cut-off that goes on after a step, and did not begin with it, was on before.
LEMMA CutOffGoesOn ==
  ASSUME IInv, Circuits!TypeOK, [Next]_vars,
         NEW p \in Providers, ~Opens(p), circuit'[p] = "Open", openFor'[p] > 0
  PROVE  circuit[p] = "Open" /\ openFor[p] > 0
<1> USE DEF Circuits!TypeOK
<1>1. circuit[p] = "Open"
  BY DEF Opens
<1>2. CASE UNCHANGED Breaker!vars
  BY <1>1, <1>2 DEF Breaker!vars
<1>3. ASSUME NEW x \in Providers, Breaker!IsAvailable(x)
      PROVE  openFor[p] > 0
  BY <1>3 DEF Breaker!IsAvailable
<1>4. ASSUME NEW x \in Providers, NEW result, Breaker!RecordResult(x, result)
      PROVE  openFor[p] > 0
  <2>1. CASE openFor' = openFor
    BY <2>1
  <2>2. ASSUME NEW ttl, Breaker!Open(x, ttl), circuit[x] # "Open"
        PROVE  openFor[p] > 0
    BY <1>1, <2>2 DEF Breaker!Open
  <2> QED
    BY <1>4, <2>1, <2>2 DEF Breaker!RecordResult, Breaker!Recover, Breaker!JudgeClosed,
       Breaker!Reopen, Breaker!Ignore, Breaker!status
<1>5. Breaker!Tick => openFor[p] > 0
  BY DEF Breaker!Tick
<1>6. [Breaker!Next]_(Breaker!vars)
  BY StepDrivesBreaker
<1> QED
  BY <1>1, <1>2, <1>3, <1>4, <1>5, <1>6 DEF Breaker!Next

\* No request joins those that wait for a provider that is cut off.
LEMMA NobodyJoinsWaiters ==
  ASSUME IInv, [Next]_vars, NEW p \in Providers, circuit[p] = "Open", openFor[p] > 0
  PROVE  Waiting(p)' \subseteq Waiting(p)
<1> SUFFICES ASSUME NEW r \in Requests, req'[r].stage = "prepare", Selected(r)' = p
             PROVE  req[r].stage = "prepare" /\ Selected(r) = p
  BY DEF Waiting
<1>1. CASE req'[r] = req[r]
  BY <1>1 DEF Selected
<1>2. CASE Check(r)
  <2>1. Breaker!Available(Selected(r))
    BY <1>2, NextStage DEF Check
  <2>2. Selected(r)' = Selected(r)
    BY <1>2, <2>1, ZenonT(60) DEF Check, Selected, IInv, TypeOK, RequestState
  <2> QED
    BY <2>1, <2>2 DEF Breaker!Available
<1>3. CASE req'[r] # req[r] /\ ~Check(r)
  <2>1. ~(\E route, stream : Start(r, route, stream)) /\ ~Disconnect(r)
        /\ ~GiveUp(r) /\ ~Select(r) /\ ~PrepareFails(r) /\ ~Record(r)
    BY NextStage DEF GiveUp, PrepareFails, Record
  <2>2. ~Send(r) /\ ~OpenStream(r)
    BY DEF Send, OpenStream, IInv, TypeOK, RequestState
  <2>3. ASSUME NEW answer \in Answers, Answer(r, answer) PROVE FALSE
    <3>1. \/ req' = [req EXCEPT ![r].stage = "record", ![r].outcome = answer]
          \/ \E reply : Reply(r, reply)
          \/ \E error : TryNext(r, error)
      BY <2>3 DEF Answer
    <3> QED
      BY <3>1, NextStage DEF IInv, TypeOK, RequestState
  <2> QED
    BY <1>3, <2>1, <2>2, <2>3, OnlyItsHandlerMoves DEF Progress
<1> QED
  BY <1>1, <1>2, <1>3

\* A request that is called while its provider is cut off was granted it before
\* the circuit opened, and is called this once.
THEOREM LateCallsWereOvertaken == LateSpec => OnlyOvertakenCallsArriveLate
<1> DEFINE Overtaken ==
      \A r \in Requests :
        /\ Proceeds(r)
        /\ circuit[Selected(r)] = "Open" /\ openFor[Selected(r)] > 0
        => r \in overtaken[Selected(r)] /\ r \notin overtaken'[Selected(r)]
<1>1. LateInit => WaitersAreOvertaken
  BY DEF LateInit, Init, Idle, Breaker!Init, WaitersAreOvertaken
<1>2. IInv /\ Circuits!TypeOK /\ WaitersAreOvertaken /\ [LateNext]_lateVars
        => WaitersAreOvertaken'
  <2> SUFFICES ASSUME IInv, Circuits!TypeOK, WaitersAreOvertaken, LateNext,
                      NEW p \in Providers, circuit'[p] = "Open", openFor'[p] > 0
               PROVE  Waiting(p)' \subseteq overtaken'[p]
    BY DEF WaitersAreOvertaken, Waiting, Selected, lateVars, vars, breakerVars
  <2>1. Next /\ overtaken'[p] = IF Opens(p) THEN Waiting(p)'
                                ELSE overtaken[p] \cap Waiting(p)'
    BY DEF LateNext
  <2>2. CASE Opens(p)
    BY <2>1, <2>2
  <2>3. CASE ~Opens(p)
    <3>1. circuit[p] = "Open" /\ openFor[p] > 0
      BY <2>1, <2>3, CutOffGoesOn
    <3>2. Waiting(p)' \subseteq Waiting(p) /\ Waiting(p) \subseteq overtaken[p]
      BY <2>1, <3>1, NobodyJoinsWaiters DEF WaitersAreOvertaken
    <3> QED
      BY <2>1, <2>3, <3>2
  <2> QED
    BY <2>2, <2>3
<1>3. IInv /\ WaitersAreOvertaken /\ [LateNext]_lateVars => [Overtaken]_lateVars
  <2> SUFFICES ASSUME IInv, WaitersAreOvertaken, LateNext, NEW r \in Requests, Proceeds(r),
                      circuit[Selected(r)] = "Open", openFor[Selected(r)] > 0
               PROVE  r \in overtaken[Selected(r)] /\ r \notin overtaken'[Selected(r)]
    OBVIOUS
  <2>1. PICK p \in Providers : p = Selected(r)
    BY ChosenProvider DEF Proceeds, Chosen
  <2>2. r \in Waiting(p) /\ r \notin Waiting(p)'
    BY <2>1 DEF Proceeds, Waiting
  <2>3. r \in overtaken[p]
    BY <2>1, <2>2 DEF WaitersAreOvertaken
  <2>4. ~Opens(p)
    BY <2>1 DEF Opens
  <2>5. overtaken'[p] = overtaken[p] \cap Waiting(p)'
    BY <2>4 DEF LateNext
  <2> QED
    BY <2>1, <2>2, <2>3, <2>5
<1>4. [][Overtaken]_lateVars <=> OnlyOvertakenCallsArriveLate
  BY DEF OnlyOvertakenCallsArriveLate
<1>5. Circuits!Spec => []Circuits!TypeOK
  BY CircuitsConfigured, Circuits!TypeCorrect
<1> HIDE DEF Overtaken
<1> QED
  BY <1>1, <1>2, <1>3, <1>4, <1>5, LateStepIsStep, GatewayRunsCircuits, Invariance, PTL
     DEF LateSpec

-----------------------------------------------------------------------------
(* The handler and its client: RequestTale is implemented.                 *)

\* The steps of a handler, as far as its client is concerned: from the local
\* variables q and the history t of its request to p and u.  A request arrives;
Starts(q, t, p, u) ==
  /\ q.stage \in {"idle", "replied"} /\ t = NoTrace
  /\ p.stage = "select" /\ p.lastError = "none" /\ p.stream \in BOOLEAN /\ u = NoTrace

\* ... the loop looks for a provider, or a stream is opened;
LooksOn(q, t, p, u) ==
  /\ q.stage \in Looking
  /\ p.stage \in Looking \/ (p.stage = "record" /\ q.stream)
  /\ p.stream = q.stream /\ p.lastError = q.lastError
  /\ u.contacted = t.contacted /\ u.heard = t.heard

\* ... a provider is called,
Calls(q, t, p, u) ==
  /\ q.stage = "prepare" /\ ~q.stream /\ p.stage = "sent"
  /\ p.stream = q.stream /\ p.lastError = q.lastError
  /\ u.contacted = Append(t.contacted, q.route[q.selected].name) /\ u.heard = t.heard

\* ... and answers, with a result for the breaker or without;
Hears(q, t, p, u) ==
  /\ q.stage = "sent" /\ p.stream = q.stream /\ u.contacted = t.contacted
  /\ \/ p.stage = "record" /\ u.heard \in DOMAIN Recorded \ {"streamOpened"}
     \/ p.stage = "select" /\ u.heard = "otherStatus" /\ p.lastError = ErrorOf["otherStatus"]

\* ... the next one is tried;
Retries(q, t, p, u) ==
  /\ q.stage = "record" /\ p.stage = "select" /\ p.stream = q.stream
  /\ u.contacted = t.contacted /\ u.heard = t.heard
  /\ t.heard \in DOMAIN ErrorOf /\ p.lastError = ErrorOf[t.heard]

\* ... the client is answered, or leaves.
IsAnswered(q, t, p, u) ==
  /\ p.stage = "replied" /\ u = NoTrace
  /\ \/ q.stage = "select" /\ p.reply = IF q.lastError = "none" THEN "Exhausted" ELSE q.lastError
     \/ q.stage \in Looking /\ p.reply \in {"NoProviders", "AuthUnavailable", "Internal"}
     \/ q.stage = "sent" /\ p.reply \in {"BadRequest", "Unauthorized"}
     \/ q.stage = "record" /\ q.stream /\ p.reply = "Ok"
     \/ q.stage = "record" /\ ~q.stream /\ t.heard = "ok" /\ p.reply = "Ok"
     \/ q.stage = "record" /\ ~q.stream /\ t.heard = "badBody" /\ p.reply = "ProviderError"

Leaves(q, p, u) ==
  q.stage \notin {"idle", "replied"} /\ p.stage = "idle" /\ p.reply = "none" /\ u = NoTrace

HandlerStep(q, t, p, u) ==
  \/ Starts(q, t, p, u) \/ LooksOn(q, t, p, u) \/ Calls(q, t, p, u) \/ Hears(q, t, p, u)
  \/ Retries(q, t, p, u) \/ IsAnswered(q, t, p, u) \/ Leaves(q, p, u)

LEMMA LookingOn ==
  ASSUME NEW q, NEW t, NEW p, NEW u, LooksOn(q, t, p, u)
  PROVE  HandlerStep(q, t, p, u)
BY DEF HandlerStep

\* Whatever a handler does is one of these.
LEMMA HandlerSteps ==
  ASSUME IInv, NEW r \in Requests,
         \/ \E route \in Routes, stream \in Streaming : Start(r, route, stream)
         \/ Progress(r)
         \/ Disconnect(r)
  PROVE  HandlerStep(req[r], trace[r], req'[r], trace'[r])
<1> DEFINE q == req[r]
           t == trace[r]
<1>1. /\ req \in [Requests -> RequestState] /\ q \in RequestState
      /\ trace \in [Requests -> History] /\ t \in History /\ Consistent(q, t)
  BY DEF IInv, TypeOK
<1>2. Idle \in RequestState /\ Idle.stage = "idle" /\ Idle.lastError = "none"
      /\ Idle.reply = "none"
  BY IdleState DEF Idle
<1>3. ASSUME NEW reply, Reply(r, reply)
      PROVE  req'[r].stage = "replied" /\ req'[r].reply = reply /\ trace'[r] = NoTrace
  <2>1. req'[r] = [Idle EXCEPT !.stage = "replied", !.reply = reply] /\ trace'[r] = NoTrace
    BY <1>1, <1>3 DEF Reply
  <2> QED
    BY <1>2, <2>1 DEF RequestState
<1>4. ASSUME NEW error, TryNext(r, error)
      PROVE  /\ req'[r].stage = "select" /\ req'[r].stream = q.stream
             /\ req'[r].lastError = IF error = "none" THEN q.lastError ELSE error
  BY <1>1, <1>4 DEF TryNext, RequestState
<1>5. ASSUME NEW route \in Routes, NEW stream \in Streaming, Start(r, route, stream)
      PROVE  Starts(q, t, req'[r], trace'[r])
  <2>0. req' = [req EXCEPT ![r] = [Idle EXCEPT !.stage = "select", !.route = route,
                                               !.stream = stream]]
        /\ trace' = trace /\ q.stage \in {"idle", "replied"}
    BY <1>5, Zenon DEF Start
  <2>1. req'[r] = [Idle EXCEPT !.stage = "select", !.route = route, !.stream = stream]
        /\ trace'[r] = t /\ q.stage \in {"idle", "replied"} /\ stream \in BOOLEAN
    BY <1>1, <2>0, GatewayAssumption
  <2>2. t = NoTrace
    BY <1>1, <2>1 DEF Consistent, CallsAccounted
  <2> QED
    BY <1>2, <2>1, <2>2 DEF Starts, RequestState
<1>6. CASE GiveUp(r)
  BY <1>3, <1>6 DEF GiveUp, IsAnswered, HandlerStep
<1>7. CASE Select(r)
  <2>1. CASE Reply(r, "NoProviders")
    BY <1>3, <1>7, <2>1 DEF Select, IsAnswered, HandlerStep, Looking
  <2>2. CASE req' = [req EXCEPT ![r].stage = "check", ![r].selected = Choice(Offered(r))]
             /\ UNCHANGED trace
    <3>1. req'[r].stage = "check" /\ req'[r].stream = q.stream /\ req'[r].lastError = q.lastError
      BY <1>1, <2>2 DEF RequestState
    <3>2. q.stage = "select" /\ trace'[r] = t
      BY <1>7, <2>2 DEF Select
    <3>3. LooksOn(q, t, req'[r], trace'[r])
      BY <3>1, <3>2, Zenon DEF LooksOn, Looking
    <3> QED
      BY <3>3, LookingOn, Zenon
  <2> QED
    BY <1>7, <2>1, <2>2, Zenon DEF Select
<1>8. CASE Check(r)
  <2>1. /\ req'[r].stage \in Looking /\ req'[r].stream = q.stream
        /\ req'[r].lastError = q.lastError
    <3>1. CASE req' = [req EXCEPT ![r].stage = "prepare"]
      BY <1>1, <3>1 DEF RequestState, Looking
    <3>2. CASE TryNext(r, "none")
      BY <1>4, <3>2 DEF Looking
    <3> QED
      BY <1>8, <3>1, <3>2, Zenon DEF Check
  <2>2. trace'[r].contacted = t.contacted /\ trace'[r].heard = t.heard
    <3>1. \/ \E probe : trace' = [trace EXCEPT ![r].probe = probe]
          \/ \E refused : trace' = [trace EXCEPT ![r].refused = refused]
      BY <1>8, Zenon DEF Check
    <3> QED
      BY <1>1, <3>1 DEF History
  <2>3. q.stage \in Looking
    BY <1>8 DEF Check, Looking
  <2>4. LooksOn(q, t, req'[r], trace'[r])
    BY <2>1, <2>2, <2>3, Zenon DEF LooksOn
  <2> QED
    BY <2>4, LookingOn, Zenon
<1>9. CASE PrepareFails(r)
  BY <1>3, <1>9 DEF PrepareFails, IsAnswered, HandlerStep, Looking
<1>10. CASE Send(r)
  <2>1. req'[r].stage = "sent" /\ req'[r].stream = q.stream /\ req'[r].lastError = q.lastError
    BY <1>1, <1>10 DEF Send, RequestState
  <2>2. trace'[r].contacted = Append(t.contacted, q.route[q.selected].name)
        /\ trace'[r].heard = t.heard
    BY <1>1, <1>10 DEF Send, Selected, History
  <2> QED
    BY <1>10, <2>1, <2>2 DEF Send, Calls, HandlerStep
<1>11. CASE OpenStream(r)
  <2>1. req'[r].stage = "record" /\ req'[r].stream = q.stream /\ req'[r].lastError = q.lastError
    BY <1>1, <1>11 DEF OpenStream, RequestState
  <2> QED
    BY <1>11, <2>1 DEF OpenStream, LooksOn, HandlerStep, Looking
<1>12. ASSUME NEW answer \in Answers, Answer(r, answer)
       PROVE  HandlerStep(q, t, req'[r], trace'[r])
  <2>1. q.stage = "sent"
    BY <1>12 DEF Answer
  <2>2. CASE answer \in DOMAIN Rejected /\ Reply(r, Rejected[answer])
    <3>1. Rejected[answer] \in {"BadRequest", "Unauthorized"}
      BY <2>2 DEF Rejected
    <3> QED
      BY <1>3, <2>1, <2>2, <3>1 DEF IsAnswered, HandlerStep
  <2>3. CASE /\ \/ /\ answer \in DOMAIN Recorded
                   /\ req' = [req EXCEPT ![r].stage = "record", ![r].outcome = answer]
                \/ answer = "otherStatus" /\ TryNext(r, ErrorOf[answer])
             /\ trace' = [trace EXCEPT ![r].heard = answer]
    <3>1. trace'[r].contacted = t.contacted /\ trace'[r].heard = answer
      BY <1>1, <2>3 DEF History
    <3>2. CASE /\ answer \in DOMAIN Recorded
               /\ req' = [req EXCEPT ![r].stage = "record", ![r].outcome = answer]
      <4>1. req'[r].stage = "record" /\ req'[r].stream = q.stream
        BY <1>1, <3>2 DEF RequestState
      <4>2. answer # "streamOpened"
        BY GatewayAssumption DEF AllAnswers
      <4> QED
        BY <2>1, <3>1, <3>2, <4>1, <4>2 DEF Hears, HandlerStep
    <3>3. CASE answer = "otherStatus" /\ TryNext(r, ErrorOf[answer])
      <4>1. ErrorOf["otherStatus"] # "none"
        BY DEF ErrorOf
      <4>2. req'[r].stage = "select" /\ req'[r].stream = q.stream
            /\ req'[r].lastError = ErrorOf["otherStatus"]
        BY <1>4, <3>3, <4>1
      <4> QED
        BY <2>1, <3>1, <3>3, <4>2 DEF Hears, HandlerStep
    <3> QED
      BY <2>3, <3>2, <3>3
  <2> QED
    BY <1>12, <2>2, <2>3, Zenon DEF Answer
<1>13. CASE Record(r)
  <2>1. q.stage = "record"
    BY <1>13 DEF Record
  <2>2. IF q.stream THEN q.outcome = "streamOpened"
        ELSE q.outcome = t.heard /\ q.outcome \in DOMAIN Recorded \ {"streamOpened"}
    BY <1>1, <2>1 DEF Consistent, AnswersAccounted
  <2>3. CASE q.outcome \in {"ok", "streamOpened"} /\ Reply(r, "Ok")
    BY <1>3, <2>1, <2>2, <2>3 DEF IsAnswered, HandlerStep
  <2>4. CASE q.outcome = "badBody" /\ Reply(r, "ProviderError")
    BY <1>3, <2>1, <2>2, <2>4 DEF IsAnswered, HandlerStep
  <2>5. CASE q.outcome \in DOMAIN ErrorOf /\ TryNext(r, ErrorOf[q.outcome]) /\ UNCHANGED trace
    <3>1. ErrorOf[q.outcome] # "none" /\ t.heard = q.outcome
      BY <2>2, <2>5 DEF ErrorOf
    <3>2. req'[r].stage = "select" /\ req'[r].stream = q.stream
          /\ req'[r].lastError = ErrorOf[t.heard]
      BY <1>4, <2>5, <3>1
    <3> QED
      BY <2>1, <2>5, <3>1, <3>2 DEF Retries, HandlerStep
  <2> QED
    BY <1>13, <2>3, <2>4, <2>5, Zenon DEF Record
<1>14. CASE Disconnect(r)
  <2>1. req'[r] = Idle /\ trace'[r] = NoTrace /\ q.stage \notin {"idle", "replied"}
    BY <1>1, <1>14 DEF Disconnect
  <2> QED
    BY <1>2, <2>1 DEF Leaves, HandlerStep
<1>15. (\E route \in Routes, stream \in Streaming : Start(r, route, stream)) =>
         HandlerStep(q, t, req'[r], trace'[r])
  BY <1>5 DEF HandlerStep
<1> QED
  BY <1>6, <1>7, <1>8, <1>9, <1>10, <1>11, <1>12, <1>13, <1>14, <1>15 DEF Progress

\* What a handler remembers of the answers is the last one; a stream has none.
Told(q, t) ==
  /\ q.stage \in Looking \cup {"sent"} =>
       \/ q.lastError = "none" /\ t.heard = "none"
       \/ t.heard \in DOMAIN ErrorOf /\ q.lastError = ErrorOf[t.heard]
  /\ q.stage \notin {"idle", "replied"} /\ q.stream => t.heard = "none"

\* A third invariant on top of IInv.
Tales == \A r \in Requests : Told(req[r], trace[r])

LEMMA ToldStays ==
  ASSUME NEW q, NEW t, NEW p, NEW u, Told(q, t), HandlerStep(q, t, p, u),
         q.stage = "sent" => ~q.stream
  PROVE  Told(p, u)
<1>1. NoTrace.heard = "none"
  BY DEF NoTrace
<1>2. CASE Starts(q, t, p, u)
  BY <1>1, <1>2 DEF Starts, Told
<1>3. CASE LooksOn(q, t, p, u)
  BY <1>3 DEF LooksOn, Told, Looking
<1>4. CASE Calls(q, t, p, u)
  BY <1>4 DEF Calls, Told, Looking
<1>5. CASE Hears(q, t, p, u)
  BY <1>5 DEF Hears, Told, Looking, ErrorOf
<1>6. CASE Retries(q, t, p, u)
  BY <1>6 DEF Retries, Told, Looking, ErrorOf
<1>7. CASE IsAnswered(q, t, p, u)
  BY <1>7 DEF IsAnswered, Told, Looking
<1>8. CASE Leaves(q, p, u)
  BY <1>8 DEF Leaves, Told, Looking
<1> QED
  BY <1>2, <1>3, <1>4, <1>5, <1>6, <1>7, <1>8, Zenon DEF HandlerStep

\* A step is of one handler, and of no other request's.
LEMMA OneHandlerSteps ==
  ASSUME IInv, [Next]_vars, UNCHANGED <<req, trace>> => FALSE
  PROVE  \E r \in Requests :
           /\ HandlerStep(req[r], trace[r], req'[r], trace'[r])
           /\ \A x \in Requests \ {r} : req'[x] = req[x] /\ trace'[x] = trace[x]
<1>1. PICK r \in Requests :
        \/ \E route \in Routes, stream \in Streaming : Start(r, route, stream)
        \/ Progress(r)
        \/ Disconnect(r)
  BY DEF Next, Tick, vars
<1>2. ASSUME NEW x \in Requests \ {r} PROVE req'[x] = req[x] /\ trace'[x] = trace[x]
  <2>1. ASSUME req'[x] # req[x] \/ trace'[x] # trace[x] PROVE x = r
    BY <1>1, <2>1, OthersStay
  <2> QED
    BY <1>2, <2>1
<1>3. HandlerStep(req[r], trace[r], req'[r], trace'[r])
  BY <1>1, HandlerSteps
<1> QED
  BY <1>2, <1>3

LEMMA TalesNext == IInv /\ Tales /\ [Next]_vars => Tales'
<1> SUFFICES ASSUME IInv, Tales, [Next]_vars PROVE Tales'
  OBVIOUS
<1>1. CASE UNCHANGED <<req, trace>>
  BY <1>1 DEF Tales, Told
<1>2. CASE ~UNCHANGED <<req, trace>>
  <2>1. PICK r \in Requests :
          /\ HandlerStep(req[r], trace[r], req'[r], trace'[r])
          /\ \A x \in Requests \ {r} : req'[x] = req[x] /\ trace'[x] = trace[x]
    BY <1>2, OneHandlerSteps
  <2>2. Told(req[r], trace[r]) /\ (req[r].stage = "sent" => ~req[r].stream)
    BY DEF Tales, IInv, Consistent, AnswersAccounted
  <2>3. Told(req'[r], trace'[r])
    BY <2>1, <2>2, ToldStays, Zenon
  <2>4. ASSUME NEW x \in Requests PROVE Told(req'[x], trace'[x])
    BY <2>1, <2>3 DEF Tales
  <2> QED
    BY <2>4 DEF Tales, Told
<1> QED
  BY <1>1, <1>2

\* The answer to the client is what RequestTale lets a handler tell.
LEMMA ReplyIsTold ==
  ASSUME NEW q, NEW t, NEW p, NEW u, IsAnswered(q, t, p, u), Told(q, t), q.stage # "sent"
  PROVE  /\ \/ t.heard # "none" /\ p.reply = Client!Tells[t.heard]
            \/ t.heard \notin Client!Final /\ p.reply \in Client!Own
            \/ t.heard = "none" /\ p.reply = "Exhausted"
            \/ q.stream /\ p.reply = "Ok"
         /\ p.reply \in Client!Own \cup {"Exhausted"} \cup Client!Range(Client!Tells)
<1>1. ASSUME NEW answer \in {"ok", "badBody"} \cup DOMAIN ErrorOf
      PROVE  Client!Tells[answer] \in Client!Range(Client!Tells)
  BY <1>1 DEF Client!Range, Client!Tells, ErrorOf
<1>2. /\ Client!Tells["ok"] = "Ok" /\ Client!Tells["badBody"] = "ProviderError"
      /\ \A answer \in DOMAIN ErrorOf : Client!Tells[answer] = ErrorOf[answer]
  BY DEF Client!Tells, ErrorOf
<1>3. /\ \A answer \in DOMAIN ErrorOf : answer \notin Client!Final /\ answer # "none"
      /\ "none" \notin Client!Final
      /\ Client!Own = {"NoProviders", "AuthUnavailable", "Internal"}
  BY DEF Client!Final, Client!Own, ErrorOf
<1>4. CASE q.stage \in Looking
  <2>1. \/ p.reply = IF q.lastError = "none" THEN "Exhausted" ELSE q.lastError
        \/ p.reply \in Client!Own
    BY <1>3, <1>4 DEF IsAnswered, Looking
  <2>2. \/ q.lastError = "none" /\ t.heard = "none"
        \/ t.heard \in DOMAIN ErrorOf /\ q.lastError = ErrorOf[t.heard]
    BY <1>4 DEF Told
  <2>3. \A answer \in DOMAIN ErrorOf : ErrorOf[answer] # "none"
    BY DEF ErrorOf
  <2> QED
    BY <1>1, <1>2, <1>3, <2>1, <2>2, <2>3
<1>5. CASE q.stage = "record"
  <2>1. \/ q.stream /\ p.reply = "Ok"
        \/ t.heard = "ok" /\ p.reply = "Ok"
        \/ t.heard = "badBody" /\ p.reply = "ProviderError"
    BY <1>5 DEF IsAnswered, Looking
  <2> QED
    BY <1>1, <1>2, <2>1
<1> QED
  BY <1>4, <1>5 DEF IsAnswered, Looking

\* The step of one request's tale.
LEMMA TaleSteps ==
  ASSUME IInv, Tales, NEW r \in Requests,
         HandlerStep(req[r], trace[r], req'[r], trace'[r]), IInv',
         \A x \in Requests \ {r} : req'[x] = req[x] /\ trace'[x] = trace[x]
  PROVE  [Client!TaleNext]_EveryTale
<1> DEFINE q == req[r]
           t == trace[r]
           p == req'[r]
           u == trace'[r]
           T == EveryTale
<1>1. /\ q \in RequestState /\ t \in History /\ Consistent(q, t) /\ Told(q, t)
      /\ p \in RequestState /\ u \in History
  BY DEF IInv, TypeOK, Tales
<1>2. ASSUME NEW x \in Requests \ {r} PROVE TaleOf(x)' = TaleOf(x)
  BY <1>2 DEF TaleOf
<1>3. ASSUME NEW told, TaleOf(r)' = told PROVE Client!Goes(r, told)
  BY <1>2, <1>3 DEF Client!Goes, EveryTale
<1>4. T[r] = TaleOf(r)
  BY DEF EveryTale
<1>5. /\ q.stage \in {"idle", "replied"} => T[r].state = "over"
      /\ q.stage \notin {"idle", "replied"} =>
           /\ T[r].state = IF q.stage = "sent" THEN "waiting" ELSE "open"
           /\ T[r].stream = q.stream /\ T[r].asked = t.contacted /\ T[r].last = t.heard
  BY DEF TaleOf, EveryTale
<1>6. /\ p.stage \in {"idle", "replied"} => TaleOf(r)' = Client!Over(p.reply)
      /\ p.stage \notin {"idle", "replied"} =>
           TaleOf(r)' = Client!UnderWay(IF p.stage = "sent" THEN "waiting" ELSE "open",
                                        p.stream, u.contacted, u.heard)
  BY DEF TaleOf, Client!Over, Client!UnderWay
<1>7. CASE Starts(q, t, p, u)
  <2>1. q.stage \in {"idle", "replied"} /\ p.stage = "select" /\ p.stream \in BOOLEAN
        /\ u.contacted = <<>> /\ u.heard = "none"
    BY <1>7 DEF Starts, NoTrace
  <2>2. Client!Goes(r, Client!UnderWay("open", p.stream, <<>>, "none"))
    BY <1>3, <1>6, <2>1
  <2>3. Client!Begin(r)
    BY <1>5, <2>1, <2>2, Zenon DEF Client!Begin
  <2> QED
    BY <2>3 DEF Client!TaleNext
<1>8. CASE LooksOn(q, t, p, u) \/ Retries(q, t, p, u)
  <2>1. /\ q.stage \notin {"idle", "replied", "sent"} /\ p.stage \notin {"idle", "replied", "sent"}
        /\ p.stream = q.stream /\ u.contacted = t.contacted /\ u.heard = t.heard
    BY <1>8 DEF LooksOn, Retries, Looking
  <2>2. TaleOf(r)' = TaleOf(r)
    BY <2>1 DEF TaleOf
  <2> QED
    BY <1>2, <2>2 DEF EveryTale
<1>9. CASE Calls(q, t, p, u)
  <2> DEFINE asked == q.route[q.selected].name
  <2>1. /\ q.stage = "prepare" /\ ~q.stream /\ p.stage = "sent" /\ p.stream = FALSE
        /\ u.contacted = Append(t.contacted, asked) /\ u.heard = t.heard
    BY <1>1, <1>9 DEF Calls, RequestState
  <2>2. t.heard \notin {"ok", "badBody"}
    BY <1>1, <2>1 DEF Told, Looking, ErrorOf
  <2>3. asked \in Providers /\ asked \notin Range(t.contacted) /\ Len(t.contacted) < 3
    <3>1. /\ q.selected \in DOMAIN q.route /\ asked \notin q.excluded
          /\ q.attempts < MaxAttempts(q.route)
          /\ Range(t.contacted) \subseteq q.excluded /\ Len(t.contacted) <= q.attempts
      BY <1>1, <2>1 DEF Consistent, SelectionValid, CallsAccounted, Chosen, Looking
    <3>2. asked \in Providers
      <4>1. q \in RequestState /\ SelectionValid(q) /\ q.stage \in Chosen
        BY <1>1, <2>1 DEF Consistent, Chosen
      <4> HIDE DEF q
      <4> QED
        BY <4>1, SelectedIsProvider
    <3>3. MaxAttempts(q.route) \in 0..3 /\ q.attempts \in 0..3 /\ Len(t.contacted) \in Nat
      BY <1>1, AttemptsBound, LenProperties DEF RequestState, History
    <3> QED
      BY <3>1, <3>2, <3>3
  <2>4. Client!Goes(r, Client!UnderWay("waiting", FALSE, Append(t.contacted, asked), t.heard))
    BY <1>3, <1>6, <2>1
  <2> HIDE DEF asked, T
  <2>5. Client!Ask(r, asked)
    <3>1. T[r].state = "open" /\ T[r].stream = FALSE /\ T[r].asked = t.contacted
          /\ T[r].last = t.heard
      BY <1>5, <2>1
    <3> QED
      BY <2>2, <2>3, <2>4, <3>1 DEF Client!Ask, Client!Final, Client!Range, Range, T
  <2> QED
    BY <2>3, <2>5 DEF Client!TaleNext
<1>10. CASE Hears(q, t, p, u)
  <2>1. /\ q.stage = "sent" /\ p.stage \in {"record", "select"} /\ p.stream = FALSE
        /\ u.contacted = t.contacted /\ u.heard \in DOMAIN Client!Tells
    BY <1>1, <1>10 DEF Hears, Consistent, AnswersAccounted, RequestState, Recorded, Client!Tells
  <2>2. Client!Goes(r, Client!UnderWay("open", FALSE, t.contacted, u.heard))
    BY <1>3, <1>6, <2>1
  <2>3. T[r].state = "waiting" /\ T[r].asked = t.contacted
    BY <1>5, <2>1
  <2>4. Client!Hear(r, u.heard)
    BY <2>2, <2>3, Zenon DEF Client!Hear
  <2> QED
    BY <2>1, <2>4 DEF Client!TaleNext
<1>11. CASE IsAnswered(q, t, p, u)
  <2>1. p.stage = "replied" /\ q.stage \notin {"idle", "replied"}
    BY <1>11 DEF IsAnswered, Looking
  <2>2. Client!Goes(r, Client!Over(p.reply))
    BY <1>3, <1>6, <2>1
  <2>3. CASE q.stage = "sent"
    <3>1. p.reply \in {"BadRequest", "Unauthorized"}
      BY <1>11, <2>3 DEF IsAnswered, Looking
    <3>2. T[r].state = "waiting"
      BY <1>5, <2>3
    <3>3. Client!Reject(r, p.reply)
      BY <2>2, <3>2, Zenon DEF Client!Reject
    <3> QED
      BY <3>1, <3>3 DEF Client!TaleNext
  <2>4. CASE q.stage # "sent"
    <3>1. T[r].state = "open" /\ T[r].stream = q.stream /\ T[r].last = t.heard
      BY <1>5, <2>1, <2>4
    <3>2. /\ \/ t.heard # "none" /\ p.reply = Client!Tells[t.heard]
             \/ t.heard \notin Client!Final /\ p.reply \in Client!Own
             \/ t.heard = "none" /\ p.reply = "Exhausted"
             \/ q.stream /\ p.reply = "Ok"
          /\ p.reply \in Client!Own \cup {"Exhausted"} \cup Client!Range(Client!Tells)
      BY <1>1, <1>11, <2>4, ReplyIsTold, Zenon
    <3>3. Client!Finish(r, p.reply)
      BY <2>2, <3>1, <3>2, Zenon DEF Client!Finish
    <3> QED
      BY <3>2, <3>3 DEF Client!TaleNext
  <2> QED
    BY <2>3, <2>4
<1>12. CASE Leaves(q, p, u)
  <2>1. q.stage \in Stages \ {"idle", "replied"} /\ p.stage = "idle" /\ p.reply = "none"
    BY <1>1, <1>12 DEF Leaves, RequestState
  <2>2. T[r].state # "over"
    BY <1>5, <2>1
  <2>3. Client!Goes(r, Client!Over("none"))
    BY <1>3, <1>6, <2>1
  <2>4. Client!Leave(r)
    BY <2>2, <2>3, Zenon DEF Client!Leave
  <2> QED
    BY <2>4 DEF Client!TaleNext
<1> QED
  BY <1>7, <1>8, <1>9, <1>10, <1>11, <1>12, Zenon DEF HandlerStep

\* A chat completion handler does what RequestTale allows, for every set of
\* providers, of route lists and of concurrent requests: it asks no provider
\* twice, at most three, none after a response or while a stream is open, and
\* tells its client what the last one answered.
THEOREM OneTaleTold == Spec => TellsOneTale
<1>1. Init => Client!TaleInit
  BY DEF Init, Idle, TaleOf, EveryTale, Client!TaleInit, Client!Over
<1>2. Init => Tales
  BY DEF Init, Idle, NoTrace, Tales, Told, Looking
<1>3. IInv /\ Tales /\ IInv' /\ [Next]_vars =>
        [Client!TaleNext]_EveryTale
  <2> SUFFICES ASSUME IInv, Tales, IInv', [Next]_vars
               PROVE  [Client!TaleNext]_EveryTale
    OBVIOUS
  <2>1. CASE UNCHANGED <<req, trace>>
    BY <2>1 DEF TaleOf, EveryTale
  <2>2. CASE ~UNCHANGED <<req, trace>>
    <3>1. PICK r \in Requests :
            /\ HandlerStep(req[r], trace[r], req'[r], trace'[r])
            /\ \A x \in Requests \ {r} : req'[x] = req[x] /\ trace'[x] = trace[x]
      BY <2>2, OneHandlerSteps
    <3> QED
      BY <3>1, TaleSteps
  <2> QED
    BY <2>1, <2>2
<1> QED
  BY <1>1, <1>2, <1>3, TalesNext, InitIInv, NextIInv, PTL
    DEF Spec, TellsOneTale, Client!TaleSpec
=============================================================================
