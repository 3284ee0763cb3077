--------------------------- MODULE ExchangeProofs ---------------------------
(***************************************************************************)
(* Proofs about Exchange, for any requests, routes, providers and answers: *)
(* one part for each question asked of a connection.                       *)
(*   Embeddings: what a client gets is whole and in order (EInv).          *)
(*   Replies: a client that goes on from one is not refused (PInv).        *)
(*   Turns: Claude is shown the reply that the client goes on from (CInv,  *)
(*   with PInv).                                                           *)
(*   Contexts: CompactorProofs holds of what is sent (with PInv, CInv).    *)
(*   Streams: the reads that the bytes come in make no difference (SInv,   *)
(*   with PInv).                                                           *)
(***************************************************************************)
EXTENDS Exchange, CompactorProofs

(* Embeddings.                                                             *)

\* The texts that clients can ask about, and what an answer can hold.
InputTexts == UNION {UNION {Range(texts) : texts \in r.input} : r \in EmbeddingRequests}
VectorSet == [of : InputTexts \cup {"nothing"}, size : {0, 2}]

\* A job collects at most one vector for each input, before it has them all.
JobType ==
  /\ job \in {"none", "modern", "legacy", "collected", "answered"}
  /\ inputs \in Seq(InputTexts) /\ vectors \in Seq(VectorSet)
  /\ job \notin {"collected", "answered"} => Len(vectors) <= Len(inputs)

\* Each vector that was collected is that of the input in its place.
InOrder == \A k \in (1..Len(vectors)) \cap (1..Len(inputs)) : vectors[k].of = inputs[k]

\* Nothing is answered, and nothing collected, before its time.
NotYet ==
  /\ job # "answered" => outcome = NoOutcome
  /\ job = "none" => vectors = <<>>

\* The inductive invariant of embeddings.
EInv == JobType /\ InOrder /\ NotYet /\ EmbeddingsAreWhole

\* No job is none yet.
LEMMA InitEstablishes == Init => EInv
BY DEF Init, EmbeddingsInit, EInv, JobType, InOrder, NotYet, EmbeddingsAreWhole, NoOutcome

\* A refusal carries no vectors.
LEMMA AnswerKeeps ==
  ASSUME EInv, NEW status \in {400, 502, 503}, Answer(status)
  PROVE  EInv'
<1>1. outcome'.status = status /\ job' = "answered" /\ UNCHANGED <<inputs, vectors>>
  BY DEF Answer, Refusal
<1> QED
  BY <1>1 DEF EInv, JobType, InOrder, NotYet, EmbeddingsAreWhole

\* A request starts with nothing collected.
LEMMA AskKeeps ==
  ASSUME EInv, NEW r \in EmbeddingRequests, NEW configured \in BOOLEAN,
         AskEmbeddings(r, configured)
  PROVE  EInv'
<1>1. job = "none" /\ vectors' = vectors /\ vectors = <<>> /\ outcome = NoOutcome
  BY DEF AskEmbeddings, EInv, NotYet
<1>2. CASE job' = "modern" /\ inputs' \in r.input /\ UNCHANGED outcome
  <2>1. inputs' \in Seq(InputTexts)
    <3>1. inputs' \in Seq(Range(inputs'))
      BY <1>2, ExchangeAssumption
    <3>2. Range(inputs') \subseteq InputTexts
      BY <1>2 DEF InputTexts
    <3> QED
      BY <3>1, <3>2
  <2> QED
    BY <1>1, <1>2, <2>1
       DEF EInv, JobType, InOrder, NotYet, EmbeddingsAreWhole, NoOutcome
<1>3. CASE /\ job' = "answered" /\ UNCHANGED inputs
           /\ outcome' = Refusal(IF Acceptable(r) THEN 503 ELSE 400)
  <2>1. outcome'.status # 200
    BY <1>3 DEF Refusal
  <2> QED
    BY <1>1, <1>3, <2>1 DEF EInv, JobType, InOrder, NotYet, EmbeddingsAreWhole
<1> QED
  BY <1>2, <1>3 DEF AskEmbeddings

\* What the modern endpoint returns: one vector for each of the first inputs.
LEMMA ModernKeeps ==
  ASSUME EInv, NEW answer \in ModernAnswers(inputs), CallModern(answer)
  PROVE  EInv'
<1>1. job = "modern" /\ outcome = NoOutcome
  BY DEF CallModern, EInv, NotYet
<1>2. CASE answer.kind = "vectors"
  <2>1. PICK size \in {0, 2}, n \in 0..(Len(inputs) + 1) :
          answer.vectors = Vectors(inputs, n, size)
    BY <1>2 DEF ModernAnswers
  <2> DEFINE full == Vectors(inputs, n, size)
  <2>2. inputs \in Seq(InputTexts) /\ DOMAIN inputs = 1..Len(inputs) /\ Len(inputs) \in Nat
    BY DEF EInv, JobType
  <2>3. full \in Seq(VectorSet) /\ Len(full) = n /\ n \in Nat
    <3>1. \A k \in 1..n : full[k] \in VectorSet
      BY <2>2 DEF VectorSet, Vectors
    <3>2. n \in Nat
      BY <2>2
    <3> QED
      BY <3>1, <3>2 DEF Vectors
  <2>4. \A k \in (1..n) \cap (1..Len(inputs)) : full[k].of = inputs[k]
    BY <2>2 DEF Vectors
  <2> HIDE DEF full
  <2>5. /\ job' = "collected" /\ vectors' = full /\ UNCHANGED <<inputs, outcome>>
    BY <1>2, <2>1, ZenonT(30) DEF CallModern, full
  <2> QED
    BY <1>1, <2>2, <2>3, <2>4, <2>5
       DEF EInv, JobType, InOrder, NotYet, EmbeddingsAreWhole, NoOutcome
<1>3. CASE answer.kind = "notFound"
  <2>1. job' = "legacy" /\ UNCHANGED <<inputs, vectors, outcome>>
    BY <1>3 DEF CallModern
  <2> QED
    BY <1>1, <2>1 DEF EInv, JobType, InOrder, NotYet, EmbeddingsAreWhole, NoOutcome
<1>4. CASE answer.kind \in {"garbled", "failed"}
  <2>1. Answer(502) \/ Answer(503)
    BY <1>4 DEF CallModern
  <2> QED
    BY <2>1, AnswerKeeps
<1> QED
  BY <1>2, <1>3, <1>4 DEF ModernAnswers

\* The legacy endpoint collects one vector at a time, of the next input.
LEMMA LegacyKeeps ==
  ASSUME EInv, job = "legacy", NEW answer \in LegacyAnswers(inputs[Len(vectors) + 1]),
         CallLegacy(answer)
  PROVE  EInv'
<1> DEFINE next == Len(vectors) + 1
<1>1. /\ Len(vectors) < Len(inputs) /\ outcome = NoOutcome
      /\ inputs \in Seq(InputTexts) /\ vectors \in Seq(VectorSet)
      /\ next \in 1..Len(inputs) /\ inputs[next] \in InputTexts
  BY DEF CallLegacy, EInv, NotYet, JobType
<1>2. CASE answer.kind = "vector"
  <2>1. PICK size \in {0, 2} : answer.vector = [of |-> inputs[next], size |-> size]
    BY <1>2 DEF LegacyAnswers
  <2>2. answer.vector \in VectorSet /\ answer.vector.of = inputs[next]
    BY <1>1, <2>1 DEF VectorSet
  <2>3. /\ vectors' = Append(vectors, answer.vector) /\ job' \in {"collected", "legacy"}
        /\ UNCHANGED <<inputs, outcome>>
    BY <1>2 DEF CallLegacy
  <2>4. /\ vectors' \in Seq(VectorSet) /\ Len(vectors') = next
        /\ \A k \in 1..Len(vectors) : vectors'[k] = vectors[k]
        /\ vectors'[next] = answer.vector
    BY <1>1, <2>2, <2>3
  <2>5. InOrder'
    <3>1. ASSUME NEW k \in (1..Len(vectors')) \cap (1..Len(inputs'))
          PROVE  vectors'[k].of = inputs'[k]
      <4>1. k \in 1..Len(vectors) \/ k = next
        BY <1>1, <2>4, <3>1
      <4> QED
        BY <2>2, <2>3, <2>4, <4>1 DEF EInv, InOrder
    <3> QED
      BY <3>1 DEF InOrder
  <2> QED
    BY <1>1, <2>3, <2>4, <2>5
       DEF EInv, JobType, NotYet, EmbeddingsAreWhole, NoOutcome
<1>3. CASE answer.kind # "vector"
  <2>1. Answer(502) \/ Answer(503)
    BY <1>3 DEF CallLegacy
  <2> QED
    BY <2>1, AnswerKeeps
<1> QED
  BY <1>2, <1>3

\* An answer is given when there is a vector for each input.
LEMMA CheckKeeps ==
  ASSUME EInv, CheckVectors
  PROVE  EInv'
<1>1. /\ job' = "answered" /\ UNCHANGED <<inputs, vectors>>
      /\ inputs \in Seq(InputTexts) /\ vectors \in Seq(VectorSet) /\ InOrder
  BY DEF CheckVectors, EInv, JobType
<1>2. CASE outcome' = Refusal(502)
  BY <1>1, <1>2 DEF Refusal, EInv, JobType, InOrder, NotYet, EmbeddingsAreWhole
<1>3. CASE /\ Len(vectors) = Len(inputs) /\ \A k \in DOMAIN vectors : vectors[k].size # 0
           /\ outcome' = [status |-> 200,
                data |-> [k \in DOMAIN vectors |-> [index |-> k - 1, vector |-> vectors[k]]]]
  <2> DEFINE data == [k \in DOMAIN vectors |-> [index |-> k - 1, vector |-> vectors[k]]]
  <2>1. DOMAIN vectors = 1..Len(vectors) /\ Len(vectors) \in Nat
    BY <1>1
  <2>2. Len(data) = Len(inputs) /\ DOMAIN data = 1..Len(vectors)
    BY <1>3, <2>1
  <2>3. ASSUME NEW k \in 1..Len(vectors)
        PROVE  /\ data[k].index = k - 1 /\ data[k].vector.of = inputs[k]
               /\ data[k].vector.size > 0
    <3>1. vectors[k].size # 0
      BY <1>3, <2>1, Zenon
    <3>2. vectors[k] \in VectorSet /\ vectors[k].of = inputs[k]
      BY <1>1, <1>3, <2>1, ElementOfSeq DEF InOrder
    <3>3. data[k].index = k - 1 /\ data[k].vector = vectors[k]
      BY <2>1
    <3> QED
      BY <3>1, <3>2, <3>3 DEF VectorSet
  <2> HIDE DEF data
  <2>4. outcome' = [status |-> 200, data |-> data]
    BY <1>3 DEF data
  <2>5. EmbeddingsAreWhole'
    BY <1>1, <2>2, <2>3, <2>4 DEF EmbeddingsAreWhole
  <2> QED
    BY <1>1, <2>5 DEF EInv, JobType, InOrder, NotYet
<1> QED
  BY <1>2, <1>3 DEF CheckVectors

\* Every step of a connection keeps the invariant.
LEMMA NextPreserves == EInv /\ [Next]_vars => EInv'
<1> SUFFICES ASSUME EInv, [Next]_vars PROVE EInv'
  OBVIOUS
<1>1. CASE UNCHANGED embeddingVars
  BY <1>1 DEF EInv, JobType, InOrder, NotYet, EmbeddingsAreWhole, embeddingVars
<1>2. CASE AskForEmbeddings
  BY <1>2, AskKeeps DEF AskForEmbeddings
<1>3. CASE Embed
  BY <1>3, ModernKeeps, LegacyKeeps, CheckKeeps DEF Embed, EmbeddingsStep
<1>4. CASE Close
  <2>1. job' = "none" /\ inputs' = <<>> /\ vectors' = <<>> /\ outcome' = NoOutcome
    BY <1>4 DEF Close
  <2> QED
    BY <2>1 DEF EInv, JobType, InOrder, NotYet, EmbeddingsAreWhole, NoOutcome
<1>5. UNCHANGED embeddingVars \/ AskForEmbeddings \/ Embed \/ Close
  BY DEF Next, Ask, CompactContext, TokenFails, Send, Await, Fail, Receive, RefuseStream,
         StartStream, Stream, Continue, embeddingVars, vars
<1> QED
  BY <1>1, <1>2, <1>3, <1>4, <1>5
-----------------------------------------------------------------------------
\* Vectors in an answer are those of the inputs, each in its place, for any
\* inputs, and whatever the provider returns, omits, or fails at.
THEOREM WholeEmbeddings == Spec => []EmbeddingsAreWhole
<1>1. EInv => EmbeddingsAreWhole
  BY DEF EInv
<1> QED
  BY <1>1, InitEstablishes, NextPreserves, PTL DEF Spec
-----------------------------------------------------------------------------
(* Replies.                                                                *)

\* The stages of a request that was accepted carry a well-formed one.
WellAsked == stage \notin {"idle", "refused"} => IsRequest(request) /\ Valid(request)

\* Whoever is asked, and whatever is replied, is one of those there are.
WellReplied ==
  /\ provider.type \in Types
  /\ stage = "idle" => response = Nothing
  /\ stage = "replied" => response.type \in Types /\ response.body \in Responses[response.type]

\* The inductive invariant of requests and replies.
PInv == WellAsked /\ WellReplied /\ RepliesAreAccepted

\* What blocks of a type there are.
LEMMA BlocksOfType ==
  ASSUME NEW blocks, IsList(blocks), NEW type
  PROVE  /\ OfType(blocks, type) \in Seq({b \in Range(blocks) : b.type = type})
         /\ DOMAIN OfType(blocks, type) = 1..Len(OfType(blocks, type))
<1>1. blocks \in Seq(Range(blocks)) /\ DOMAIN blocks = 1..Len(blocks)
  BY LenProperties DEF IsList
<1>2. OfType(blocks, type) \in Seq({b \in Range(blocks) : b.type = type})
  <2> DEFINE Y == {b \in Range(blocks) : b.type = type}
             kept == {i \in DOMAIN blocks : blocks[i].type = type}
  <2>1. \A i \in 1..Len(blocks) : i \in kept => blocks[i] \in Y
    BY <1>1, ElementOfSeq
  <2> HIDE DEF Y
  <2>2. ElementsAt(blocks, kept) \in Seq(Y)
    BY <1>1, <2>1, ElementsAreKept
  <2> QED
    BY <2>2 DEF OfType, Y
<1> QED
  BY <1>2, LenProperties

\* Whatever provider it comes from, a reply has a text and a list of calls.
LEMMA RepliesAreLists ==
  ASSUME NEW type \in Types, NEW r \in Responses[type]
  PROVE  IsList(Reply(type, r).text) /\ IsList(Reply(type, r).calls)
<1> DEFINE translated == type \in {"anthropic", "vertex_anthropic"} /\ "blocks" \in DOMAIN r
<1>1. CASE translated
  <2>1. IsList(r.blocks) /\ \A b \in Range(r.blocks) : b.type = "text" => IsList(b.text)
    BY <1>1, ResponsesAssumption
  <2> DEFINE said == OfType(r.blocks, "text")
             uses == OfType(r.blocks, "tool_use")
             Z == UNION {Range(b.text) : b \in Range(r.blocks)}
             C == {[id |-> b.id, arguments |-> b.input] : b \in Range(r.blocks)}
  <2>2. \A k \in 1..Len(said) : said[k].text \in Seq(Z)
    <3>1. ASSUME NEW k \in 1..Len(said) PROVE said[k].text \in Seq(Z)
      <4>1. said[k] \in {b \in Range(r.blocks) : b.type = "text"}
        BY <2>1, BlocksOfType, ElementOfSeq
      <4>2. said[k].text \in Seq(Range(said[k].text)) /\ Range(said[k].text) \subseteq Z
        BY <2>1, <4>1 DEF IsList
      <4> QED
        BY <4>2, SeqMonotonic
    <3> QED
      BY <3>1
  <2>3. DOMAIN said = 1..Len(said) /\ Len(said) \in Nat
    BY <2>1, BlocksOfType, LenProperties
  <2>4. \A k \in 1..Len(uses) : [id |-> uses[k].id, arguments |-> uses[k].input] \in C
    <3>1. ASSUME NEW k \in 1..Len(uses)
          PROVE  [id |-> uses[k].id, arguments |-> uses[k].input] \in C
      <4>1. uses[k] \in {b \in Range(r.blocks) : b.type = "tool_use"}
        BY <2>1, BlocksOfType, ElementOfSeq
      <4> QED
        BY <4>1
    <3> QED
      BY <3>1
  <2>5. DOMAIN uses = 1..Len(uses) /\ Len(uses) \in Nat
    BY <2>1, BlocksOfType, LenProperties
  <2> HIDE DEF said, uses, Z, C
  <2>6. [k \in DOMAIN said |-> said[k].text] \in Seq(Seq(Z))
    BY <2>2, <2>3
  <2>7. [k \in DOMAIN uses |-> [id |-> uses[k].id, arguments |-> uses[k].input]] \in Seq(C)
    BY <2>4, <2>5
  <2>8. /\ Reply(type, r).text = FlattenSeq([k \in DOMAIN said |-> said[k].text])
        /\ Reply(type, r).calls =
             [k \in DOMAIN uses |-> [id |-> uses[k].id, arguments |-> uses[k].input]]
    BY <1>1 DEF Reply, FromAnthropic, TextsOf, CallsOf, said, uses
  <2> QED
    BY <2>6, <2>7, <2>8, FlattenIsSeq, SeqIsList
<1>2. CASE ~translated
  BY <1>2, ResponsesAssumption DEF Reply
<1> QED
  BY <1>1, <1>2

\* What is said is as long as it is without its stop words.
LEMMA SaidIsMessage ==
  ASSUME NEW text, IsList(text), NEW role \in {"assistant", "user", "tool"}, NEW calls,
         NEW answers
  PROVE  /\ IsMessage([role |-> role, content |-> Said(text), calls |-> calls,
                       answers |-> answers])
         /\ text # <<>> => Said(text).chars > 0
<1>1. Len(text) \in Nat /\ (text # <<>> => Len(text) > 0)
  BY LenProperties, EmptySeq DEF IsList
<1>2. role \in DOMAIN RoleChars
  BY RequestsAssumption
<1>3. 40 * Len(text) \in Nat /\ (text # <<>> => 40 * Len(text) > 0)
        /\ 40 * Len(text) \in 0..(40 * Len(text))
  BY <1>1
<1> QED
  BY <1>2, <1>3 DEF IsMessage, Said

\* The client's next request is well-formed, and valid if there was a text and every
\* tool came to something.
LEMMA ContinuedIsRequest ==
  ASSUME IsRequest(request), Valid(request), IsList(LastReply.text), IsList(LastReply.calls),
         NEW results \in [DOMAIN LastReply.calls -> Results]
  PROVE  LET n == Len(LastReply.calls)
             ms == Continued(results).messages
         IN /\ IsRequest(Continued(results))
            /\ Valid(Continued(results)) \/ LastReply.text = <<>>
                 \/ \E k \in 1..n : ms[Len(ms) - n + k].content.chars = 0
<1> DEFINE old == request.messages
           follow == FollowUp(results)
           next == Continued(results)
           empty == \E k \in 1..Len(LastReply.calls) : follow[k].content.chars = 0
<1>0. DOMAIN LastReply.calls = 1..Len(LastReply.calls) /\ Len(LastReply.calls) \in Nat
  BY LenProperties DEF IsList
<1>1. /\ old \in Seq(Range(old)) /\ \A m \in Range(old) : IsMessage(m)
      /\ \A m \in Range(old) : m.role # "" /\ m.content.chars > 0
  BY DEF IsRequest, IsList, Valid, Range
<1>2. /\ IsMessage(Turn) /\ Turn.role # ""
      /\ LastReply.text # <<>> => Turn.content.chars > 0
  BY SaidIsMessage DEF Turn
<1>3. /\ follow \in Seq(Range(follow))
      /\ \A m \in Range(follow) : IsMessage(m) /\ m.role # ""
      /\ empty \/ \A m \in Range(follow) : m.content.chars > 0
      /\ LastReply.calls # <<>> => Len(follow) = Len(LastReply.calls)
  <2>1. IsList(<<"more">>) /\ \A k \in DOMAIN LastReply.calls : IsList(results[k])
    <3>1. IsList(<<"more">>) /\ IsList(<<"result">>)
      BY OneIsSeq
    <3>2. IsList(<<>>)
      BY DEF IsList
    <3> QED
      BY <3>1, <3>2 DEF Results
  <2>2. CASE LastReply.calls = <<>>
    <3> DEFINE m == [role |-> "user", content |-> Said(<<"more">>), calls |-> <<>>,
                     answers |-> {}]
    <3>1. IsMessage(m) /\ m.role # "" /\ m.content.chars > 0
      BY <2>1, SaidIsMessage
    <3> HIDE DEF m
    <3>2. follow = <<m>>
      BY <2>2 DEF FollowUp, m
    <3>3. <<m>> \in Seq({m}) /\ Range(<<m>>) = {m}
      BY OneIsSeq
    <3> HIDE DEF follow, empty
    <3> QED
      BY <2>2, <3>1, <3>2, <3>3
  <2>3. CASE LastReply.calls # <<>>
    <3> DEFINE calls == LastReply.calls
               m == [k \in 1..Len(calls) |-> [role |-> "tool", content |-> Said(results[k]), calls |-> <<>>,
                        answers |-> {calls[k].id}]]
    <3>2. DOMAIN calls = 1..Len(calls) /\ Len(calls) \in Nat
      BY <1>0
    <3>1. \A k \in 1..Len(calls) :
            /\ IsMessage(m[k]) /\ m[k].role # "" /\ m[k].content.chars \in Nat
      BY <2>1, <3>2, SaidIsMessage DEF IsMessage
    <3>3. follow = m
      BY <2>3, <3>2 DEF FollowUp
    <3>4. \A x \in Range(follow) : \E k \in 1..Len(calls) : x = m[k]
      BY <3>2, <3>3 DEF Range
    <3>5. follow \in Seq(Range(follow))
      <4>1. m \in [1..Len(calls) -> Range(m)]
        BY DEF Range
      <4> HIDE DEF calls, m
      <4>2. m \in Seq(Range(m))
        BY <3>2, <4>1
      <4> QED
        BY <3>3, <4>2
    <3>6. Len(follow) = Len(calls)
      BY <3>2, <3>3
    <3> HIDE DEF m, calls, follow
    <3>7. empty \/ \A k \in 1..Len(calls) : m[k].content.chars > 0
      <4>1. ASSUME NEW k \in 1..Len(calls), ~(m[k].content.chars > 0) PROVE empty
        <5>0. m[k].content.chars \in Nat
          BY <3>1
        <5>1. m[k].content.chars = 0
          BY <4>1, <5>0
        <5>3. follow[k] = m[k]
          BY <3>3
        <5>2. k \in 1..Len(LastReply.calls)
          BY <4>1 DEF calls
        <5> QED
          BY <5>1, <5>2, <5>3
      <4> QED
        BY <4>1
    <3> QED
      BY <3>1, <3>4, <3>5, <3>6, <3>7 DEF calls
  <2> QED
    BY <2>2, <2>3
<1>4. next.messages = (old \o <<Turn>>) \o follow
      /\ DOMAIN next = DOMAIN request /\ next.model = request.model
  BY DEF Continued, IsRequest
<1>5. /\ next.messages \in Seq(Range(next.messages))
      /\ next.messages # <<>>
      /\ Range(next.messages) = (Range(old) \cup {Turn}) \cup Range(follow)
  <2>1. IsList(old) /\ IsList(<<Turn>>) /\ IsList(follow) /\ Range(<<Turn>>) = {Turn}
    BY <1>1, <1>3, OneIsSeq DEF IsList
  <2>2. IsList(old \o <<Turn>>) /\ Range(old \o <<Turn>>) = Range(old) \cup {Turn}
    BY <2>1, ListsConcat
  <2>3. /\ IsList((old \o <<Turn>>) \o follow)
        /\ Range((old \o <<Turn>>) \o follow) = (Range(old) \cup {Turn}) \cup Range(follow)
    BY <2>1, <2>2, ListsConcat
  <2>4. ASSUME next.messages = <<>> PROVE FALSE
    <3>1. Turn \in Range(next.messages) /\ DOMAIN <<>> = {}
      BY <1>4, <2>3
    <3> QED
      BY <2>4, <3>1 DEF Range
  <2> QED
    BY <1>4, <2>3, <2>4 DEF IsList
<1>6. IsRequest(next)
  BY <1>1, <1>2, <1>3, <1>4, <1>5 DEF IsRequest, IsList
<1>7. ASSUME LastReply.text # <<>>, ~empty PROVE Valid(next)
  <2>1. \A m \in Range(next.messages) : m.role # "" /\ m.content.chars > 0
    BY <1>1, <1>2, <1>3, <1>5, <1>7
  <2>2. request.model # ""
    BY DEF Valid
  <2> QED
    BY <1>4, <1>5, <2>1, <2>2 DEF Valid, Range
<1>8. ASSUME empty
      PROVE  \E k \in 1..Len(LastReply.calls) :
               next.messages[Len(next.messages) - Len(LastReply.calls) + k].content.chars = 0
  <2> DEFINE n == Len(LastReply.calls)
             before == old \o <<Turn>>
  <2>1. PICK k \in 1..n : follow[k].content.chars = 0
    BY <1>8
  <2>2. n \in Nat /\ LastReply.calls # <<>>
    BY <1>0, <2>1
  <2>3. Len(follow) = n
    BY <1>3, <2>2
  <2>4. IsList(before) /\ IsList(follow)
    <3>1. IsList(old) /\ IsList(<<Turn>>)
      BY <1>1, OneIsSeq DEF IsList
    <3> QED
      BY <1>3, <3>1, ListsConcat DEF IsList
  <2> HIDE DEF before, n, follow
  <2>5. PICK X : before \in Seq(X) /\ follow \in Seq(X)
    <3> DEFINE Y == Range(before) \cup Range(follow)
    <3>1. /\ Range(before) \subseteq Y /\ Range(follow) \subseteq Y
          /\ before \in Seq(Range(before)) /\ follow \in Seq(Range(follow))
      BY <2>4 DEF IsList
    <3> HIDE DEF Y
    <3>2. before \in Seq(Y) /\ follow \in Seq(Y)
      BY <3>1, SeqMonotonic
    <3> QED
      BY <3>2
  <2> DEFINE all == before \o follow
  <2>6. /\ Len(all) = Len(before) + Len(follow) /\ Len(before) \in Nat
        /\ \A i \in 1..(Len(before) + Len(follow)) :
             all[i] = IF i <= Len(before) THEN before[i] ELSE follow[i - Len(before)]
    BY <2>5, ConcatProperties, LenProperties
  <2> HIDE DEF all
  <2>7. all[Len(all) - n + k] = follow[k]
    BY <2>1, <2>2, <2>3, <2>6
  <2>8. next.messages = all
    BY <1>4 DEF all, before
  <2> QED
    BY <2>1, <2>7, <2>8 DEF n
<1> QED
  BY <1>6, <1>7, <1>8
-----------------------------------------------------------------------------
\* It holds of an idle connection.
LEMMA PInvInit == Init => PInv
<1>1. Fallback.type \in Types
  BY DEF Types, Fallback
<1> QED
  BY <1>1 DEF Init, ChatInit, PInv, WellAsked, WellReplied, RepliesAreAccepted

\* The provider that is found is one of those that there are.
LEMMA LookupIsTyped ==
  ASSUME NEW name
  PROVE  Lookup(name).type \in Types
<1> DEFINE matching == {i \in DOMAIN Providers : name \in {Providers[i].id, Providers[i].type}}
<1>1. DOMAIN Providers = 1..Len(Providers) /\ Len(Providers) \in Nat
  BY RequestsAssumption, LenProperties DEF IsList
<1>2. IsFiniteSet(matching) /\ matching \subseteq Int /\ matching \subseteq DOMAIN Providers
  <2>1. IsFiniteSet(1..Len(Providers))
    BY <1>1, FS_Interval
  <2>2. matching \subseteq 1..Len(Providers)
    BY <1>1
  <2> HIDE DEF matching
  <2>3. IsFiniteSet(matching)
    BY <2>1, <2>2, FS_Subset
  <2> QED
    BY <1>1, <2>2, <2>3
<1> HIDE DEF matching
<1>3. matching # {} => Min(matching) \in DOMAIN Providers
  BY <1>2, MinIsLeast
<1>4. Lookup(name) = IF matching = {} THEN Fallback ELSE Providers[Min(matching)]
  BY DEF Lookup, matching
<1>5. \A i \in DOMAIN Providers : Providers[i].type \in Types
  BY DEF Types
<1>6. Fallback.type \in Types
  BY DEF Types, Fallback
<1> QED
  BY <1>3, <1>4, <1>5, <1>6

\* A request that is refused is a new one, or goes on with an empty content.
LEMMA PInvNext == PInv /\ [Next]_vars => PInv'
<1> SUFFICES ASSUME PInv, [Next]_vars PROVE PInv'
  OBVIOUS
<1> USE DEF PInv, WellAsked, WellReplied
<1>1. ASSUME stage = "idle", NEW r \in Requests, Ask(r) PROVE PInv'
  <2>1. IsRequest(r)
    BY RequestsAssumption
  <2> QED
    BY <1>1, <2>1 DEF Ask, RepliesAreAccepted, LastReply
<1>2. ASSUME NEW resolved \in Routes, CompactContext(resolved) PROVE PInv'
  BY <1>2 DEF CompactContext, RepliesAreAccepted
<1>3. CASE TokenFails
  BY <1>3, LookupIsTyped DEF TokenFails, RepliesAreAccepted
<1>4. CASE Send
  <2>1. stage' \in {"streaming", "sent"}
    BY <1>4 DEF Send
  <2> QED
    BY <1>4, <2>1, LookupIsTyped DEF Send, RepliesAreAccepted
<1>5. CASE Await
  <2>1. CASE Fail
    BY <2>1 DEF Fail, RepliesAreAccepted
  <2>2. ASSUME NEW body \in Responses[provider.type], Receive(body) PROVE PInv'
    BY <2>2 DEF Receive, RepliesAreAccepted
  <2>3. CASE RefuseStream
    BY <2>3 DEF RefuseStream, RepliesAreAccepted
  <2>4. ASSUME NEW body \in Bodies[provider.type], StartStream(body) PROVE PInv'
    BY <2>4 DEF StartStream, RepliesAreAccepted
  <2> QED
    BY <1>5, <2>1, <2>2, <2>3, <2>4 DEF Await
<1>6. CASE Continue
  <2>0. PICK results \in [DOMAIN LastReply.calls -> Results] : Ask(Continued(results))
    BY <1>6 DEF Continue
  <2> DEFINE next == Continued(results)
             n == Len(LastReply.calls)
  <2>1. IsList(LastReply.text) /\ IsList(LastReply.calls)
    BY <1>6, RepliesAreLists DEF Continue, LastReply
  <2>2. /\ IsRequest(next)
        /\ Valid(next) \/ LastReply.text = <<>>
             \/ \E k \in 1..n : next.messages[Len(next.messages) - n + k].content.chars = 0
    BY <1>6, <2>1, ContinuedIsRequest DEF Continue
  <2> HIDE DEF next
  <2>3. stage' = (IF Valid(next) THEN "accepted" ELSE "refused") /\ request' = next
        /\ UNCHANGED <<provider, response>>
    BY <2>0 DEF Ask, next
  <2>4. LastReply' = LastReply
    BY <2>3 DEF LastReply
  <2>5. WellAsked'
    BY <2>2, <2>3
  <2>6. WellReplied'
    BY <2>3
  <2>7. RepliesAreAccepted'
    BY <2>2, <2>3, <2>4 DEF RepliesAreAccepted
  <2> QED
    BY <2>5, <2>6, <2>7
<1>7. CASE Close
  BY <1>7 DEF Close, RepliesAreAccepted, Types, Fallback
<1>8. CASE UNCHANGED chatVars
  BY <1>8 DEF chatVars, RepliesAreAccepted, LastReply
<1>9. UNCHANGED chatVars
        \/ (stage = "idle" /\ \E r \in Requests : Ask(r))
        \/ (\E resolved \in Routes : CompactContext(resolved))
        \/ TokenFails \/ Send \/ Await \/ Continue \/ Close
  BY DEF Next, vars, Stream, AskForEmbeddings, Embed
<1> QED
  BY <1>1, <1>2, <1>3, <1>4, <1>5, <1>6, <1>7, <1>8, <1>9

\* A client that returns the gateway's own reply, with the results of the tools it
\* called, is refused only where it has to hand in an empty content: the reply had
\* no text, or a tool came to nothing.
THEOREM AcceptsReplies == Spec => []RepliesAreAccepted
<1>1. PInv => RepliesAreAccepted
  BY DEF PInv
<1> QED
  BY <1>1, PInvInit, PInvNext, PTL DEF Spec
-----------------------------------------------------------------------------
(* Turns.                                                                  *)

\* Once compacted, the context is what the compactor made of the request.
Compacted ==
  stage \in {"compacted", "sent", "streaming"} =>
    route \in Routes /\ context = Compact(request.messages, route.tokens)

\* What was sent is the translation of the context.
Translated ==
  stage \in {"sent", "streaming"} =>
    sent.body = Native(provider.type, [model |-> EffectiveModel(request, route),
                                       messages |-> context.messages,
                                       options |-> request.options])

\* A request that follows a reply goes on from it.
GoesOn ==
  stage \in {"accepted", "compacted", "sent", "streaming"} /\ flow = "off" /\ response # Nothing =>
    /\ response.type \in Types /\ response.body \in Responses[response.type]
    /\ \E results \in [DOMAIN LastReply.calls -> Results] : \E older :
         IsList(older) /\ request.messages = (older \o <<Turn>>) \o FollowUp(results)

\* The inductive invariant of turns, relative to PInv.
CInv == Compacted /\ Translated /\ GoesOn

\* It holds of an idle connection.
LEMMA CInvInit == Init => CInv
BY DEF Init, ChatInit, CInv, Compacted, Translated, GoesOn

\* Every step keeps it.
LEMMA CInvNext == PInv /\ CInv /\ [Next]_vars => CInv'
<1> SUFFICES ASSUME PInv, CInv, [Next]_vars PROVE CInv'
  OBVIOUS
<1> USE DEF CInv
<1>1. ASSUME stage = "idle", NEW r \in Requests, Ask(r) PROVE CInv'
  <2>1. response = Nothing
    BY <1>1 DEF PInv, WellReplied
  <2> QED
    BY <1>1, <2>1 DEF Ask, Compacted, Translated, GoesOn, Nothing
<1>2. ASSUME NEW resolved \in Routes, CompactContext(resolved) PROVE CInv'
  <2>1. /\ stage = "accepted" /\ stage' = "compacted" /\ route' = resolved
        /\ context' = Compact(request.messages, resolved.tokens)
        /\ UNCHANGED <<request, response, flow>>
    BY <1>2 DEF CompactContext, streamVars
  <2>2. /\ Turn' = Turn /\ LastReply' = LastReply
        /\ \A told : FollowUp(told)' = FollowUp(told)
    BY <2>1 DEF Turn, FollowUp, LastReply
  <2> QED
    BY <1>2, <2>1, <2>2 DEF Compacted, Translated, GoesOn, Nothing
<1>3. CASE TokenFails
  BY <1>3 DEF TokenFails, Compacted, Translated, GoesOn
<1>4. CASE Send
  <2>1. /\ stage = "compacted" /\ stage' \in {"streaming", "sent"}
        /\ UNCHANGED <<request, route, context, response, flow>>
    BY <1>4 DEF Send, streamVars
  <2>2. /\ Turn' = Turn /\ LastReply' = LastReply
        /\ \A told : FollowUp(told)' = FollowUp(told)
    BY <2>1 DEF Turn, FollowUp, LastReply
  <2>3. Translated'
    BY <1>4, <2>1 DEF Send, Translated, EffectiveModel
  <2> QED
    BY <2>1, <2>2, <2>3 DEF Compacted, GoesOn, Nothing
<1>5. CASE Await
  <2>1. CASE Fail
    BY <2>1 DEF Fail, Compacted, Translated, GoesOn
  <2>2. ASSUME NEW body, Receive(body) PROVE CInv'
    BY <2>2 DEF Receive, Compacted, Translated, GoesOn
  <2>3. CASE RefuseStream
    <3>1. /\ flow' = "open" /\ UNCHANGED <<stage, request, route, context, provider, sent>>
      BY <2>3 DEF RefuseStream, Open
    <3> QED
      BY <3>1 DEF Compacted, Translated, GoesOn, EffectiveModel
  <2>4. ASSUME NEW body, StartStream(body) PROVE CInv'
    <3>1. /\ flow' = "open" /\ UNCHANGED <<stage, request, route, context, provider, sent>>
      BY <2>4 DEF StartStream, Open
    <3> QED
      BY <3>1 DEF Compacted, Translated, GoesOn, EffectiveModel
  <2> QED
    BY <1>5, <2>1, <2>2, <2>3, <2>4 DEF Await
<1>6. CASE Continue
  <2>0. PICK results \in [DOMAIN LastReply.calls -> Results] :
          stage = "replied" /\ Ask(Continued(results))
    BY <1>6 DEF Continue
  <2>1. /\ stage = "replied" /\ stage' \in {"accepted", "refused"}
        /\ request' = Continued(results) /\ UNCHANGED <<response, flow>>
    BY <2>0 DEF Ask, streamVars
  <2>2. /\ Turn' = Turn /\ LastReply' = LastReply
        /\ \A told : FollowUp(told)' = FollowUp(told)
    BY <2>1 DEF Turn, FollowUp, LastReply
  <2>3. IsRequest(request)
    BY <2>1 DEF PInv, WellAsked
  <2>4. Continued(results).messages = (request.messages \o <<Turn>>) \o FollowUp(results)
    BY <2>3 DEF Continued, IsRequest
  <2>5. response.type \in Types /\ response.body \in Responses[response.type]
    BY <2>1 DEF PInv, WellReplied
  <2>6. IsList(request.messages)
    BY <2>3 DEF IsRequest
  <2> QED
    BY <2>1, <2>2, <2>4, <2>5, <2>6 DEF Compacted, Translated, GoesOn, Nothing
<1>7. CASE Close
  BY <1>7 DEF Close, Compacted, Translated, GoesOn
<1>8. CASE /\ UNCHANGED chatVars
           /\ flow' = "off" => flow = "off"
  <2>1. /\ Turn' = Turn /\ LastReply' = LastReply
        /\ \A told : FollowUp(told)' = FollowUp(told)
    BY <1>8 DEF Turn, FollowUp, LastReply, chatVars
  <2> QED
    BY <1>8, <2>1 DEF chatVars, Compacted, Translated, GoesOn, EffectiveModel, Nothing
<1>9. (UNCHANGED chatVars /\ (flow' = "off" => flow = "off"))
        \/ (stage = "idle" /\ \E r \in Requests : Ask(r))
        \/ (\E resolved \in Routes : CompactContext(resolved))
        \/ TokenFails \/ Send \/ Await \/ Continue \/ Close
  BY DEF Next, vars, streamVars, Stream, StreamStep, Emit, Relay, Arrive, Flush, End, Break,
         AskForEmbeddings, Embed
<1> QED
  BY <1>1, <1>2, <1>3, <1>4, <1>5, <1>6, <1>7, <1>8, <1>9
-----------------------------------------------------------------------------
\* What is not compressed is as it was.
LEMMA UncompressedKeeps ==
  ASSUME NEW ms, NEW config, ~Compact(ms, config).compressed
  PROVE  Compact(ms, config).messages = ms
<1> DEFINE plain == [i \in DOMAIN ms |-> Plain(ms[i])]
           result == IF config.strategy = "semantic_guarded_trimming"
                       THEN SemanticGuardedTrimming(plain, config)
                       ELSE AdaptiveTrimming(plain, config)
<1>1. "messages" \in DOMAIN result
  BY DEF SemanticGuardedTrimming, AdaptiveTrimming, Untouched
<1>2. Compact(ms, config) = IF result.compressed THEN result
                            ELSE [result EXCEPT !.messages = ms]
  BY DEF Compact
<1> HIDE DEF result
<1> QED
  BY <1>1, <1>2

\* The body that either Claude is sent.
LEMMA ClaudeIsSent ==
  ASSUME NEW type \in {"anthropic", "vertex_anthropic"}, NEW payload
  PROVE  Native(type, payload).messages = AnthropicMessages(OtherMessages(payload.messages))
<1>1. ToAnthropic(payload).messages = AnthropicMessages(OtherMessages(payload.messages))
  BY DEF ToAnthropic
<1>2. CASE type = "anthropic"
  BY <1>1, <1>2 DEF Native
<1>3. CASE type = "vertex_anthropic"
  BY <1>1, <1>3 DEF Native, ToVertexAnthropic
<1> QED
  BY <1>2, <1>3

\* A list in three parts, without its system messages.
LEMMA OthersGoOn ==
  ASSUME NEW older, IsList(older), NEW turn, turn.role # "system", NEW next, IsList(next),
         \A m \in Range(next) : m.role # "system"
  PROVE  /\ IsList(OtherMessages(older))
         /\ OtherMessages((older \o <<turn>>) \o next) = (OtherMessages(older) \o <<turn>>) \o next
<1> DEFINE X == (Range(older) \cup {turn}) \cup Range(next)
           ms == (older \o <<turn>>) \o next
<1>1. older \in Seq(X) /\ next \in Seq(X) /\ <<turn>> \in Seq(X)
  <2>1. older \in Seq(Range(older)) /\ next \in Seq(Range(next))
        /\ Range(older) \subseteq X /\ Range(next) \subseteq X /\ turn \in X
    BY DEF IsList
  <2> HIDE DEF X
  <2>2. older \in Seq(X)
    BY <2>1, SeqMonotonic
  <2>3. next \in Seq(X)
    BY <2>1, SeqMonotonic
  <2> QED
    BY <2>1, <2>2, <2>3
<1> HIDE DEF X
<1> DEFINE Others(s) == {i \in DOMAIN s : s[i].role # "system"}
<1>2. OtherMessages(older \o <<turn>>) = OtherMessages(older) \o <<turn>>
  <2> DEFINE one == <<turn>>
             s == older \o one
  <2>0. one \in Seq(X) /\ Len(one) = 1 /\ one[1] = turn
    BY <1>1
  <2> HIDE DEF one
  <2>1. /\ s \in Seq(X) /\ Len(s) = Len(older) + 1 /\ DOMAIN s = 1..Len(s)
        /\ Len(older) \in Nat /\ DOMAIN older = 1..Len(older)
        /\ \A i \in 1..Len(older) : s[i] = older[i]
        /\ s[Len(older) + 1] = turn
    <3>1. /\ s \in Seq(X) /\ Len(s) = Len(older) + Len(one)
          /\ \A i \in 1..(Len(older) + Len(one)) :
               s[i] = IF i <= Len(older) THEN older[i] ELSE one[i - Len(older)]
      BY <1>1, <2>0, ConcatProperties
    <3> HIDE DEF s
    <3>2. /\ DOMAIN s = 1..Len(s) /\ Len(older) \in Nat /\ DOMAIN older = 1..Len(older)
      BY <1>1, <3>1, LenProperties
    <3> QED
      BY <2>0, <3>1, <3>2
  <2> HIDE DEF s
  <2>2. /\ \A i \in 1..Len(older) : i \in Others(s) <=> i \in Others(older)
        /\ \A i \in 1..Len(one) : Len(older) + i \in Others(s) <=> i \in {1}
    BY <2>0, <2>1
  <2> HIDE DEF Others
  <2>3. ElementsAt(older \o one, Others(s))
          = ElementsAt(older, Others(older)) \o ElementsAt(one, {1})
    BY <1>1, <2>0, <2>2, ElementsConcat, SMTT(30)
  <2>4. ElementsAt(one, {1}) = one
    <3>1. 1..Len(one) \subseteq {1}
      BY <2>0
    <3> QED
      BY <2>0, <3>1, ElementsOfAll
  <2> QED
    BY <2>3, <2>4 DEF OtherMessages, Others, s, one
<1>3. OtherMessages(ms) = OtherMessages(older \o <<turn>>) \o next
  <2> DEFINE s == older \o <<turn>>
  <2>1. s \in Seq(X)
    BY <1>1, ConcatProperties
  <2>2. ms = s \o next
    OBVIOUS
  <2> HIDE DEF s, ms
  <2>3. /\ ms \in Seq(X) /\ Len(ms) = Len(s) + Len(next) /\ DOMAIN ms = 1..Len(ms)
        /\ Len(s) \in Nat /\ DOMAIN s = 1..Len(s)
        /\ Len(next) \in Nat /\ DOMAIN next = 1..Len(next)
        /\ \A i \in 1..Len(s) : ms[i] = s[i]
        /\ \A i \in 1..Len(next) : ms[Len(s) + i] = next[i]
    BY <1>1, <2>1, <2>2, ConcatProperties, LenProperties
  <2>4. \A i \in 1..Len(next) : next[i].role # "system"
    BY <2>3 DEF Range
  <2>5. /\ \A i \in 1..Len(s) : i \in Others(ms) <=> i \in Others(s)
        /\ \A i \in 1..Len(next) : Len(s) + i \in Others(ms) <=> i \in 1..Len(next)
    BY <2>3, <2>4
  <2> HIDE DEF Others
  <2>6. ElementsAt(s \o next, Others(ms)) = ElementsAt(s, Others(s)) \o ElementsAt(next, 1..Len(next))
    BY <1>1, <2>1, <2>5, ElementsConcat, SMTT(30)
  <2>7. ElementsAt(next, 1..Len(next)) = next
    BY <1>1, ElementsOfAll
  <2> QED
    BY <2>2, <2>6, <2>7 DEF OtherMessages, Others, s
<1>4. IsList(OtherMessages(older))
  BY <1>1, ElementsIsSeq, SeqIsList DEF OtherMessages
<1> QED
  BY <1>2, <1>3, <1>4

\* What an assistant's turn, with a text, looks like to Claude.
LEMMA BlocksOfTurn ==
  ASSUME IsList(LastReply.calls), IsList(LastReply.text), LastReply.text # <<>>
  PROVE  LET blocks == BlocksOf(Turn)
             uses == OfType(blocks, "tool_use")
             calls == LastReply.calls
         IN /\ FlattenSeq(TextsOf(blocks)) = LastReply.text
            /\ uses = [k \in DOMAIN calls |-> ToolUse(calls[k])]
<1> DEFINE calls == LastReply.calls
           text == LastReply.text
           uses == [k \in DOMAIN calls |-> ToolUse(calls[k])]
           said == <<Text(text)>>
           blocks == said \o uses
           X == {Text(text)} \cup Range(uses)
<1>1. calls \in Seq(Range(calls)) /\ DOMAIN calls = 1..Len(calls) /\ Len(calls) \in Nat
  BY LenProperties DEF IsList
<1>2. uses \in Seq(X) /\ Len(uses) = Len(calls) /\ said \in Seq(X) /\ Len(said) = 1
  <2>1. uses \in [1..Len(calls) -> X]
    BY <1>1 DEF Range
  <2>2. Text(text) \in X
    OBVIOUS
  <2> HIDE DEF uses, X
  <2> QED
    BY <1>1, <2>1, <2>2
<1>3. BlocksOf(Turn) = blocks
  <2>1. Len(text) \in Nat /\ Len(text) # 0
    BY LenProperties, EmptySeq DEF IsList
  <2>2. Turn.role = "assistant" /\ Turn.content.chars # 0 /\ Turn.calls = calls
        /\ Turn.content.text = text
    BY <2>1 DEF Turn, Said
  <2>3. CASE calls = <<>>
    <3>1. uses = <<>>
      BY <2>3
    <3>2. said \o <<>> = said
      BY <1>2, ConcatEmptySeq
    <3>3. BlocksOf(Turn) = <<Text(text)>>
      BY <2>2, <2>3 DEF BlocksOf
    <3> QED
      BY <3>1, <3>2, <3>3, Zenon
  <2>4. CASE calls # <<>>
    <3> HIDE DEF calls, text
    <3> QED
      BY <2>2, <2>4 DEF BlocksOf
  <2> QED
    BY <2>3, <2>4
<1>4. /\ said[1].type = "text" /\ said[1].text = text
      /\ \A k \in 1..Len(calls) : uses[k].type = "tool_use"
  BY <1>1 DEF Text, ToolUse
<1> HIDE DEF said, uses, X, calls
<1>5. /\ blocks \in Seq(X) /\ Len(blocks) = Len(said) + Len(uses)
      /\ \A i \in 1..(Len(said) + Len(uses)) :
           blocks[i] = IF i <= Len(said) THEN said[i] ELSE uses[i - Len(said)]
  BY <1>2, ConcatProperties
<1> DEFINE texts == {i \in DOMAIN blocks : blocks[i].type = "text"}
           tools == {i \in DOMAIN blocks : blocks[i].type = "tool_use"}
<1> DEFINE first == {1}
           none == {}
           all == 1..Len(calls)
<1>6. /\ OfType(blocks, "text") = ElementsAt(said, first) \o ElementsAt(uses, none)
      /\ OfType(blocks, "tool_use") = ElementsAt(said, none) \o ElementsAt(uses, all)
  <2> HIDE DEF blocks
  <2>0. DOMAIN blocks = 1..(1 + Len(calls)) /\ blocks[1] = said[1]
        /\ \A k \in 1..Len(calls) : blocks[1 + k] = uses[k]
    BY <1>1, <1>2, <1>5, LenProperties
  <2>1. /\ \A i \in 1..Len(said) : i \in texts <=> i \in first
        /\ \A i \in 1..Len(uses) : Len(said) + i \in texts <=> i \in none
    BY <1>1, <1>2, <1>4, <2>0, SMTT(30)
  <2>2. /\ \A i \in 1..Len(said) : i \in tools <=> i \in none
        /\ \A i \in 1..Len(uses) : Len(said) + i \in tools <=> i \in all
    BY <1>1, <1>2, <1>4, <2>0
  <2> HIDE DEF texts, tools, first, none, all
  <2>3. said \in Seq(X) /\ uses \in Seq(X)
    BY <1>2
  <2>4. ElementsAt(said \o uses, texts) = ElementsAt(said, first) \o ElementsAt(uses, none)
    BY <2>3, <2>1, ElementsConcat, SMTT(30)
  <2>5. ElementsAt(said \o uses, tools) = ElementsAt(said, none) \o ElementsAt(uses, all)
    BY <2>3, <2>2, ElementsConcat, SMTT(30)
  <2> QED
    BY <2>4, <2>5 DEF OfType, texts, tools, blocks
<1> HIDE DEF blocks
<1>7. /\ ElementsAt(said, first) = said /\ ElementsAt(uses, none) = <<>>
      /\ ElementsAt(said, none) = <<>> /\ ElementsAt(uses, all) = uses
  BY <1>2, ElementsOfAll, ElementsOfNobody
<1>8. OfType(blocks, "text") = said /\ OfType(blocks, "tool_use") = uses
  BY <1>2, <1>6, <1>7, ConcatEmptySeq
<1>9. TextsOf(blocks) = <<text>>
  <2>1. TextsOf(blocks) = [i \in DOMAIN said |-> said[i].text]
    BY <1>8 DEF TextsOf
  <2> QED
    BY <1>4, <2>1 DEF said
<1>10. FlattenSeq(<<text>>) = text
  BY FlattenOne DEF IsList
<1> QED
  BY <1>3, <1>8, <1>9, <1>10 DEF uses, calls

\* What follows a turn comes from the client.
LEMMA FollowUpAnswers ==
  ASSUME IsList(LastReply.calls), NEW results \in [DOMAIN LastReply.calls -> Results]
  PROVE  LET calls == LastReply.calls
             follow == FollowUp(results)
         IN /\ IsList(follow) /\ DOMAIN follow = 1..Len(follow) /\ Len(follow) \in Nat
            /\ DOMAIN calls = 1..Len(calls) /\ Len(calls) \in Nat
            /\ calls # <<>> => Len(follow) = Len(calls)
            /\ \A k \in 1..Len(follow) : follow[k].role \notin {"system", "assistant"}
            /\ \A k \in 1..Len(calls) : BlocksOf(follow[k])[1].call = calls[k].id
<1> DEFINE calls == LastReply.calls
           follow == FollowUp(results)
           m == [k \in 1..Len(calls) |->
                   [role |-> "tool", content |-> Said(results[k]), calls |-> <<>>,
                    answers |-> {calls[k].id}]]
           q == [role |-> "user", content |-> Said(<<"more">>), calls |-> <<>>, answers |-> {}]
<1>1. DOMAIN calls = 1..Len(calls) /\ Len(calls) \in Nat
  BY LenProperties DEF IsList
<1>2. CASE calls = <<>>
  <2>1. follow = <<q>> /\ q.role = "user"
    BY <1>2 DEF FollowUp
  <2>2. IsList(<<q>>) /\ Len(<<q>>) = 1 /\ DOMAIN <<q>> = 1..1 /\ <<q>>[1] = q
    BY OneIsSeq
  <2>3. Len(calls) = 0
    BY <1>2
  <2> HIDE DEF calls, q, follow
  <2> QED
    BY <1>1, <1>2, <2>1, <2>2, <2>3 DEF calls, follow
<1>3. CASE calls # <<>>
  <2>1. follow = m
    BY <1>1, <1>3 DEF FollowUp
  <2>2. \A k \in 1..Len(calls) :
          /\ m[k].role = "tool"
          /\ BlocksOf(m[k])[1].call = CHOOSE id \in {calls[k].id} : TRUE
    BY DEF BlocksOf, ToolResult
  <2>3. \A id : (CHOOSE x \in {id} : TRUE) = id
    OBVIOUS
  <2>4. DOMAIN m = 1..Len(calls)
    OBVIOUS
  <2> HIDE DEF m, calls, follow
  <2>5. m \in Seq(Range(m)) /\ Len(m) = Len(calls)
    <3>1. m \in [1..Len(calls) -> Range(m)]
      <4>1. m = [k \in 1..Len(calls) |-> m[k]]
        BY DEF m
      <4>2. \A k \in 1..Len(calls) : m[k] \in Range(m)
        BY <2>4 DEF Range
      <4> HIDE DEF m
      <4> QED
        BY <4>1, <4>2
    <3> QED
      BY <1>1, <3>1
  <2>6. IsList(m)
    BY <2>5 DEF IsList
  <2> QED
    BY <1>1, <2>1, <2>2, <2>3, <2>4, <2>5, <2>6 DEF calls, follow
<1> QED
  BY <1>2, <1>3

\* A conversation that goes on from a reply shows it to Claude.
LEMMA ReplyIsSeen == PInv /\ CInv => ProviderSeesTheReply
<1> DEFINE native == sent.body.messages
           calls == LastReply.calls
           text == LastReply.text
           IsLast(i) == /\ native[i].role = "assistant"
                       /\ \A j \in DOMAIN native : native[j].role = "assistant" => j <= i
           turn == CHOOSE i \in DOMAIN native : IsLast(i)
           Shown(i) ==
             LET blocks == native[i].blocks
                 uses == OfType(blocks, "tool_use")
             IN /\ FlattenSeq(TextsOf(blocks)) = text
                /\ Len(uses) = Len(calls)
                /\ \A k \in DOMAIN calls :
                     /\ uses[k].id = calls[k].id
                     /\ calls[k].arguments # Garbled => uses[k].input = calls[k].arguments
                     /\ native[i + k].blocks[1].call = calls[k].id
<1>1. SUFFICES ASSUME PInv, CInv, stage \in {"sent", "streaming"}, flow = "off",
                      response # Nothing, provider.type \in {"anthropic", "vertex_anthropic"},
                      ~context.compressed
               PROVE  Shown(turn)
  BY DEF ProviderSeesTheReply
<1>2. PICK results \in [DOMAIN LastReply.calls -> Results] :
        \E older : IsList(older) /\ request.messages = (older \o <<Turn>>) \o FollowUp(results)
  BY <1>1 DEF CInv, GoesOn
<1> DEFINE follow == FollowUp(results)
<1>2a. PICK older : IsList(older) /\ request.messages = (older \o <<Turn>>) \o follow
  BY <1>2
<1>3. IsList(text) /\ IsList(calls)
  BY <1>1, RepliesAreLists DEF CInv, GoesOn, LastReply
<1> DEFINE kept == OtherMessages(older)
           n == Len(kept)
           rest == (kept \o <<Turn>>) \o follow
<1>4. /\ IsList(follow) /\ DOMAIN follow = 1..Len(follow) /\ Len(follow) \in Nat
      /\ DOMAIN calls = 1..Len(calls) /\ Len(calls) \in Nat
      /\ calls # <<>> => Len(follow) = Len(calls)
      /\ \A k \in 1..Len(follow) : follow[k].role \notin {"system", "assistant"}
      /\ \A k \in 1..Len(calls) : BlocksOf(follow[k])[1].call = calls[k].id
  BY <1>3, FollowUpAnswers
<1> HIDE DEF follow
<1>5. IsList(kept) /\ OtherMessages(request.messages) = rest
  <2>1. Turn.role # "system"
    BY DEF Turn
  <2>2. \A m \in Range(follow) : m.role # "system"
    BY <1>4 DEF Range
  <2>3. /\ IsList(OtherMessages(older))
        /\ OtherMessages((older \o <<Turn>>) \o follow)
             = (OtherMessages(older) \o <<Turn>>) \o follow
    BY <1>2a, <1>4, <2>1, <2>2, OthersGoOn, ZenonT(90)
  <2> QED
    BY <1>2a, <2>3
<1>6. /\ rest \in Seq(Range(rest)) /\ DOMAIN rest = 1..Len(rest) /\ n \in Nat
      /\ Len(rest) = (n + 1) + Len(follow)
      /\ rest[n + 1] = Turn
      /\ \A k \in 1..Len(follow) : rest[(n + 1) + k] = follow[k]
  <2> DEFINE one == <<Turn>>
             part == kept \o one
  <2>1. IsList(one) /\ Len(one) = 1 /\ one[1] = Turn
    BY OneIsSeq
  <2> HIDE DEF one, kept
  <2>2. IsList(part) /\ IsList(part \o follow)
    BY <1>4, <1>5, <2>1, ListsConcat
  <2>3. /\ n \in Nat /\ DOMAIN kept = 1..n /\ DOMAIN one = 1..1 /\ DOMAIN follow = 1..Len(follow)
    BY <1>4, <1>5, <2>1, LenProperties DEF IsList
  <2>4. PICK X : kept \in Seq(X) /\ one \in Seq(X) /\ follow \in Seq(X)
    <3> DEFINE Y == (Range(kept) \cup Range(one)) \cup Range(follow)
    <3>1. /\ Range(kept) \subseteq Y /\ Range(one) \subseteq Y /\ Range(follow) \subseteq Y
          /\ kept \in Seq(Range(kept)) /\ one \in Seq(Range(one))
          /\ follow \in Seq(Range(follow))
      BY <1>4, <1>5, <2>1 DEF IsList
    <3> HIDE DEF Y
    <3>2. kept \in Seq(Y)
      BY <3>1, SeqMonotonic
    <3>3. one \in Seq(Y)
      BY <3>1, SeqMonotonic
    <3>4. follow \in Seq(Y)
      BY <3>1, SeqMonotonic
    <3> QED
      BY <3>2, <3>3, <3>4
  <2>5. /\ part \in Seq(X) /\ Len(part) = n + Len(one)
        /\ \A i \in 1..(n + Len(one)) : part[i] = IF i <= n THEN kept[i] ELSE one[i - n]
    BY <2>4, ConcatProperties
  <2>6. part[n + 1] = Turn /\ Len(part) = n + 1
    BY <2>1, <2>3, <2>5
  <2> HIDE DEF part, n
  <2>7. /\ part \o follow \in Seq(X) /\ Len(part \o follow) = Len(part) + Len(follow)
        /\ \A i \in 1..(Len(part) + Len(follow)) :
             (part \o follow)[i] = IF i <= Len(part) THEN part[i] ELSE follow[i - Len(part)]
    BY <2>4, <2>5, ConcatProperties
  <2> DEFINE all == part \o follow
  <2>8. all = rest
    BY DEF part, one
  <2> HIDE DEF all, rest
  <2>9. /\ all[n + 1] = Turn
        /\ \A k \in 1..Len(follow) : all[(n + 1) + k] = follow[k]
        /\ Len(all) = (n + 1) + Len(follow)
    BY <1>4, <2>3, <2>6, <2>7 DEF all
  <2>10. all \in Seq(Range(all)) /\ DOMAIN all = 1..Len(all)
    BY <2>2, LenProperties DEF IsList, all
  <2> QED
    BY <2>3, <2>8, <2>9, <2>10
<1> HIDE DEF rest, n
<1>7. native = [i \in 1..Len(rest) |-> [role |-> IF rest[i].role = "assistant" THEN "assistant" ELSE "user",
                                        blocks |-> BlocksOf(rest[i])]]
  <2> DEFINE payload == [model |-> EffectiveModel(request, route),
                         messages |-> context.messages, options |-> request.options]
  <2>1. sent.body = Native(provider.type, payload)
    BY <1>1 DEF CInv, Translated
  <2>2. native = AnthropicMessages(OtherMessages(context.messages))
    BY <1>1, <2>1, ClaudeIsSent
  <2>3. context.messages = request.messages
    BY <1>1, UncompressedKeeps DEF CInv, Compacted
  <2> QED
    BY <1>5, <1>6, <2>2, <2>3 DEF AnthropicMessages
<1> HIDE DEF native
<1>8. /\ DOMAIN native = 1..Len(rest) /\ n + 1 \in 1..Len(rest)
      /\ native[n + 1].role = "assistant" /\ native[n + 1].blocks = BlocksOf(Turn)
      /\ \A k \in 1..Len(follow) :
           native[(n + 1) + k].role # "assistant"
             /\ native[(n + 1) + k].blocks = BlocksOf(follow[k])
  <2>1. n + 1 \in 1..Len(rest) /\ \A k \in 1..Len(follow) : (n + 1) + k \in 1..Len(rest)
    BY <1>4, <1>6
  <2>2. Turn.role = "assistant"
    BY DEF Turn
  <2> QED
    BY <1>4, <1>6, <1>7, <2>1, <2>2
<1>9. turn = n + 1
  <2>1. IsLast(n + 1)
    <3>1. ASSUME NEW j \in DOMAIN native, native[j].role = "assistant", ~(j <= n + 1) PROVE FALSE
      <4>1. j - (n + 1) \in 1..Len(follow) /\ (n + 1) + (j - (n + 1)) = j
        BY <1>4, <1>6, <1>8, <3>1
      <4> QED
        BY <1>8, <3>1, <4>1
    <3> QED
      BY <1>8, <3>1
  <2>2. \A i \in DOMAIN native : IsLast(i) => i = n + 1
    BY <1>6, <1>8, <2>1
  <2> HIDE DEF IsLast
  <2>3. n + 1 \in DOMAIN native
    BY <1>8
  <2> QED
    BY <2>1, <2>2, <2>3
<1>10. Shown(n + 1)
  <2> DEFINE blocks == native[n + 1].blocks
             uses == OfType(blocks, "tool_use")
  <2>1. text # <<>>
    <3>1. IsRequest(request) /\ Valid(request) /\ Turn \in Range(request.messages)
      <4>1. IsList(<<Turn>>) /\ Range(<<Turn>>) = {Turn}
        BY OneIsSeq
      <4>2. IsList(older \o <<Turn>>) /\ Range(older \o <<Turn>>) = Range(older) \cup {Turn}
        BY <1>2a, <4>1, ListsConcat
      <4>3. Range((older \o <<Turn>>) \o follow)
              = Range(older \o <<Turn>>) \cup Range(follow)
        BY <1>4, <4>2, ListsConcat
      <4>4. IsRequest(request) /\ Valid(request)
        BY <1>1 DEF PInv, WellAsked
      <4> QED
        BY <1>2a, <4>2, <4>3, <4>4
    <3>2. Turn.content.chars > 0
      BY <3>1 DEF Valid, Range
    <3>3. Turn.content.chars = 40 * Len(text)
      BY DEF Turn, Said
    <3> QED
      BY <3>2, <3>3
  <2>2. FlattenSeq(TextsOf(blocks)) = text /\ uses = [k \in DOMAIN calls |-> ToolUse(calls[k])]
    BY <1>3, <1>8, <2>1, BlocksOfTurn
  <2> HIDE DEF blocks, uses, calls, text
  <2>3. Len(uses) = Len(calls)
    <3>1. uses = [k \in 1..Len(calls) |-> ToolUse(calls[k])] /\ Len(calls) \in Nat
      BY <1>4, <2>2
    <3> QED
      BY <3>1
  <2>4. ASSUME NEW k \in DOMAIN calls
        PROVE  /\ uses[k].id = calls[k].id
               /\ calls[k].arguments # Garbled => uses[k].input = calls[k].arguments
               /\ native[(n + 1) + k].blocks[1].call = calls[k].id
    <3>1. uses[k] = ToolUse(calls[k])
      BY <2>2
    <3>2. k \in 1..Len(follow)
      <4>1. calls # <<>>
        BY <2>4
      <4> QED
        BY <1>4, <4>1
    <3>3. native[(n + 1) + k].blocks = BlocksOf(follow[k])
      BY <1>8, <3>2
    <3>4. BlocksOf(follow[k])[1].call = calls[k].id
      BY <1>4
    <3>5. /\ uses[k].id = calls[k].id
          /\ calls[k].arguments # Garbled => uses[k].input = calls[k].arguments
      <4>1. \A c : /\ ToolUse(c).id = c.id
                   /\ c.arguments # Garbled => ToolUse(c).input = c.arguments
        BY DEF ToolUse
      <4> QED
        BY <3>1, <4>1
    <3> QED
      BY <3>3, <3>4, <3>5
  <2> QED
    BY <2>2, <2>3, <2>4 DEF blocks, uses
<1> HIDE DEF Shown, turn
<1> QED
  BY <1>9, <1>10

\* In a conversation that goes on (and was not compacted), Claude is shown the
\* last reply as it was given, whichever provider gave it: its text, its calls
\* with their ids and arguments, and then the result of each call.
THEOREM ShowsTheReply == Spec => []ProviderSeesTheReply
BY PInvInit, PInvNext, CInvInit, CInvNext, ReplyIsSeen, PTL DEF Spec
-----------------------------------------------------------------------------
(* Contexts.                                                               *)

\* The messages of a valid request are a history.
LEMMA RequestIsHistory ==
  ASSUME NEW r, IsRequest(r), Valid(r)
  PROVE  IsHistory(r.messages)
<1>1. /\ IsList(r.messages) /\ r.messages # <<>>
      /\ \A m \in Range(r.messages) : IsMessage(m)
  BY DEF IsRequest, Valid
<1>2. \A m \in Range(r.messages) : m.role # ""
  BY Zenon DEF Valid, Range
<1>3. \A m : IsMessage(m) => m.role \in DOMAIN RoleChars \cup {""}
  BY DEF IsMessage
<1>4. \A m \in Range(r.messages) : m.role \in DOMAIN RoleChars
  BY <1>1, <1>2, <1>3, Zenon
<1> QED
  BY <1>1, <1>4, Zenon DEF IsHistory, Spoken

\* The messages of a role in a longer list.
LEMMA OfRoleAppend ==
  ASSUME NEW X, NEW s \in Seq(X), NEW x \in X, NEW role
  PROVE  /\ OfRole(s, role) \in Seq(X)
         /\ OfRole(Append(s, x), role) = IF x.role = role THEN Append(OfRole(s, role), x)
                                                          ELSE OfRole(s, role)
<1> DEFINE t == Append(s, x)
           p == {i \in DOMAIN s : s[i].role = role}
           q == {i \in DOMAIN t : t[i].role = role}
<1>1. /\ DOMAIN s = 1..Len(s) /\ Len(s) \in Nat /\ DOMAIN t = 1..(Len(s) + 1)
      /\ t[Len(s) + 1] = x /\ \A i \in 1..Len(s) : t[i] = s[i]
  BY AppendProperties, LenProperties
<1>2. (\A i \in DOMAIN s : i \in q <=> i \in p) /\ (Len(s) + 1 \in q <=> x.role = role)
  BY <1>1
<1> HIDE DEF t, p, q
<1>3. ElementsAt(s, q) = ElementsAt(s, p)
  BY <1>2 DEF ElementsAt
<1>4. ElementsAt(t, q) = IF Len(s) + 1 \in q THEN Append(ElementsAt(s, q), x) ELSE ElementsAt(s, q)
  BY ElementsAppend DEF t
<1>5. ElementsAt(s, p) \in Seq(X)
  BY ElementsIsSeq
<1> QED
  BY <1>2, <1>3, <1>4, <1>5 DEF OfRole, t, p, q

\* The texts of a longer list.
LEMMA TextsAppend ==
  ASSUME NEW X, NEW s \in Seq(X), NEW x \in X
  PROVE  Texts(Append(s, x)) = Append(Texts(s), x.content.text)
<1> DEFINE t == Append(s, x)
<1>1. /\ DOMAIN s = 1..Len(s) /\ Len(s) \in Nat /\ t \in Seq(X) /\ DOMAIN t = 1..(Len(s) + 1)
      /\ t[Len(s) + 1] = x /\ \A i \in 1..Len(s) : t[i] = s[i]
  BY AppendProperties, LenProperties
<1> HIDE DEF t
<1> DEFINE Y == {s[i].content.text : i \in 1..Len(s)} \cup {x.content.text}
           a == Texts(t)
           b == Texts(s)
           c == Append(b, x.content.text)
<1>2. b \in Seq(Y) /\ Len(b) = Len(s) /\ \A i \in 1..Len(s) : b[i] = s[i].content.text
  <2>1. b = [i \in 1..Len(s) |-> s[i].content.text]
    BY <1>1 DEF Texts
  <2>2. \A i \in 1..Len(s) : s[i].content.text \in Y
    OBVIOUS
  <2> HIDE DEF Y, b
  <2> QED
    BY <1>1, <2>1, <2>2
<1>3. a \in Seq(Y) /\ Len(a) = Len(s) + 1 /\ a[Len(s) + 1] = x.content.text
      /\ \A i \in 1..Len(s) : a[i] = s[i].content.text
  <2>1. a = [i \in 1..(Len(s) + 1) |-> t[i].content.text]
    BY <1>1 DEF Texts
  <2>2. \A i \in 1..(Len(s) + 1) : t[i].content.text \in Y
    <3>1. \A i \in 1..(Len(s) + 1) : i \in 1..Len(s) \/ i = Len(s) + 1
      BY <1>1
    <3> QED
      BY <1>1, <3>1
  <2>3. Len(s) + 1 \in 1..(Len(s) + 1) /\ \A i \in 1..Len(s) : i \in 1..(Len(s) + 1)
    BY <1>1
  <2> HIDE DEF Y, a
  <2> QED
    BY <1>1, <2>1, <2>2, <2>3
<1>4. x.content.text \in Y
  OBVIOUS
<1> HIDE DEF Y, a, b
<1>5. /\ c \in Seq(Y) /\ Len(c) = Len(b) + 1 /\ c[Len(b) + 1] = x.content.text
      /\ \A i \in 1..Len(b) : c[i] = b[i]
  BY <1>2, <1>4, AppendProperties
<1> HIDE DEF c
<1>6. \A i \in 1..Len(a) : a[i] = c[i]
  <2>1. \A i \in 1..(Len(s) + 1) : i \in 1..Len(s) \/ i = Len(s) + 1
    BY <1>1
  <2> QED
    BY <1>2, <1>3, <1>5, <2>1
<1>7. a = c
  BY <1>2, <1>3, <1>5, <1>6, SeqEqual
<1> QED
  BY <1>7 DEF a, b, c, t

\* The texts of the system messages outlast a trimming, in their order: by
\* induction over the beginnings of the two histories.
LEMMA SystemTextsKept ==
  ASSUME NEW ms, IsHistory(ms), NEW lean, Shortened(ms, lean), NEW kept,
         System(ms) \subseteq kept
  PROVE  Texts(OfRole(ElementsAt(lean, kept), "system")) = Texts(OfRole(ms, "system"))
<1> DEFINE n == Len(ms)
           a == [k \in Nat |-> SubSeq(lean, 1, k)]
           b == [k \in Nat |-> SubSeq(ms, 1, k)]
           A == Range(lean)
           B == Range(ms)
           Same(k) == Texts(OfRole(ElementsAt(a[k], kept), "system")) = Texts(OfRole(b[k], "system"))
           P == {k \in Nat : k <= n => Same(k)}
<1>1. /\ ms \in Seq(B) /\ lean \in Seq(A) /\ DOMAIN ms = 1..n /\ DOMAIN lean = 1..n
      /\ n \in Nat /\ Len(lean) = n
      /\ \A i \in 1..n : ms[i] \in B /\ lean[i] \in A
  <2>1. /\ ms \in Seq(B) /\ DOMAIN ms = 1..n /\ n \in Nat
        /\ \A i \in DOMAIN ms : ms[i] \in B
    BY HistoryProperties
  <2>2. /\ lean \in Seq(A) /\ DOMAIN lean = 1..Len(lean) /\ Len(lean) \in Nat
        /\ \A i \in DOMAIN lean : lean[i] \in A /\ DOMAIN lean = DOMAIN ms
    BY HistoryProperties DEF Shortened
  <2>3. DOMAIN lean = DOMAIN ms
    BY DEF Shortened
  <2>4. Len(lean) = n
    <3>1. n # 0 /\ Len(lean) # 0
      BY HistoryProperties DEF Shortened, n
    <3>2. n \in Nat /\ Len(lean) \in Nat
      BY <2>1, <2>2
    <3>3. 1..Len(lean) = 1..n
      BY <2>1, <2>2, <2>3, Zenon
    <3> DEFINE l == Len(lean)
    <3> HIDE DEF n, l
    <3>4. n \in 1..n /\ l \in 1..l
      BY <3>1, <3>2 DEF l
    <3>5. n \in 1..l /\ l \in 1..n
      BY <3>3, <3>4, Zenon DEF l
    <3>6. n = l
      BY <3>2, <3>5 DEF l
    <3> QED
      BY <3>6 DEF l
  <2> QED
    BY <2>1, <2>2, <2>3, <2>4
<1>2. /\ \A i \in 1..n : /\ lean[i].role = ms[i].role
                         /\ ms[i].role = "system" =>
                              lean[i].content.text = ms[i].content.text
      /\ \A i \in 1..n : ms[i].role = "system" => i \in kept
  BY <1>1 DEF Shortened, System
<1> HIDE DEF n, A, B
<1>3. 0 \in P
  <2>1. a[0] = <<>> /\ b[0] = <<>>
    OBVIOUS
  <2>2. ElementsAt(<<>>, kept) = <<>>
    BY ElementsOfNone
  <2>3. Same(0)
    BY <2>1, <2>2, Zenon
  <2> QED
    BY <2>3
<1>4. ASSUME NEW k \in Nat, k \in P PROVE k + 1 \in P
  <2>1. SUFFICES ASSUME k + 1 <= n PROVE Same(k + 1)
    OBVIOUS
  <2> DEFINE x == lean[k + 1]
             y == ms[k + 1]
             ak == a[k]
             bk == b[k]
             e == ElementsAt(ak, kept)
  <2>2. k + 1 \in 1..n /\ k <= n /\ \A i \in 1..k : i \in 1..n
    BY <1>1, <2>1
  <2>3. Same(k)
    BY <1>4, <2>2
  <2>4. x \in A /\ y \in B /\ x.role = y.role
        /\ (y.role = "system" => k + 1 \in kept /\ x.content.text = y.content.text)
    <3>1. x \in A /\ y \in B
      BY <1>1, <2>2
    <3>2. x.role = y.role
      BY <1>2, <2>2
    <3>3. y.role = "system" => k + 1 \in kept
      BY <1>2, <2>2
    <3>4. y.role = "system" => x.content.text = y.content.text
      BY <1>2, <2>2
    <3> QED
      BY <3>1, <3>2, <3>3, <3>4
  <2>5. ak \in Seq(A) /\ Len(ak) = k /\ bk \in Seq(B)
    <3>1. (\A i \in 1..k : lean[i] \in A) /\ (\A i \in 1..k : ms[i] \in B)
      BY <1>1, <2>2
    <3>2. SubSeq(lean, 1, k) \in Seq(A) /\ Len(SubSeq(lean, 1, k)) = IF 1 <= k THEN k - 1 + 1 ELSE 0
      BY <3>1, SubSeqProperties
    <3>3. SubSeq(ms, 1, k) \in Seq(B)
      BY <3>1, SubSeqProperties
    <3> QED
      BY <3>2, <3>3
  <2>6. a[k + 1] = Append(ak, x) /\ b[k + 1] = Append(bk, y)
    <3>1. 1 \in 1..n /\ k + 1 \in 1..n /\ (k + 1) - 1 = k
      BY <1>1, <2>2
    <3>2. SubSeq(lean, 1, k + 1) = SubSeq(lean, 1, k) \o <<x>>
      <4>1. 1 \in 1..Len(lean) /\ k + 1 \in 1..Len(lean)
        BY <1>1, <3>1
      <4>2. SubSeq(lean, 1, k + 1) = SubSeq(lean, 1, (k + 1) - 1) \o <<lean[k + 1]>>
        BY <1>1, <4>1, SubSeqRecursiveSecond
      <4> QED
        BY <3>1, <4>2
    <3>3. SubSeq(ms, 1, k + 1) = SubSeq(ms, 1, k) \o <<y>>
      <4>1. 1 \in 1..Len(ms) /\ k + 1 \in 1..Len(ms)
        BY <1>1, <3>1 DEF n
      <4>2. SubSeq(ms, 1, k + 1) = SubSeq(ms, 1, (k + 1) - 1) \o <<ms[k + 1]>>
        BY <1>1, <4>1, SubSeqRecursiveSecond
      <4> QED
        BY <3>1, <4>2
    <3>4. ak \o <<x>> = Append(ak, x)
      BY <2>4, <2>5, AppendIsConcat
    <3>5. bk \o <<y>> = Append(bk, y)
      BY <2>4, <2>5, AppendIsConcat
    <3> QED
      BY <3>2, <3>3, <3>4, <3>5
  <2> HIDE DEF ak, bk, a, b, x, y
  <2>7. e \in Seq(A)
    BY <2>5, ElementsIsSeq
  <2>8. ElementsAt(a[k + 1], kept) = IF k + 1 \in kept THEN Append(e, x) ELSE e
    <3>1. ElementsAt(Append(ak, x), kept) = IF Len(ak) + 1 \in kept THEN Append(e, x) ELSE e
      BY <2>4, <2>5, ElementsAppend
    <3> QED
      BY <2>5, <2>6, <3>1
  <2> HIDE DEF e
  <2>9. OfRole(e, "system") \in Seq(A)
        /\ OfRole(Append(e, x), "system")
             = IF x.role = "system" THEN Append(OfRole(e, "system"), x) ELSE OfRole(e, "system")
    BY <2>4, <2>7, OfRoleAppend
  <2>10. OfRole(bk, "system") \in Seq(B)
         /\ OfRole(Append(bk, y), "system")
              = IF y.role = "system" THEN Append(OfRole(bk, "system"), y) ELSE OfRole(bk, "system")
    BY <2>4, <2>5, OfRoleAppend
  <2>11. Texts(OfRole(e, "system")) = Texts(OfRole(bk, "system"))
    BY <2>3 DEF e, ak, bk
  <2>12. CASE y.role = "system"
    <3>1. Texts(Append(OfRole(e, "system"), x)) = Append(Texts(OfRole(e, "system")), x.content.text)
      BY <2>4, <2>9, TextsAppend
    <3>2. Texts(Append(OfRole(bk, "system"), y)) = Append(Texts(OfRole(bk, "system")), y.content.text)
      BY <2>4, <2>10, TextsAppend
    <3> QED
      BY <2>4, <2>6, <2>8, <2>9, <2>10, <2>11, <2>12, <3>1, <3>2, Zenon
  <2>13. CASE y.role # "system"
    <3>1. OfRole(b[k + 1], "system") = OfRole(bk, "system")
      BY <2>6, <2>10, <2>13, Zenon
    <3>2. OfRole(Append(e, x), "system") = OfRole(e, "system")
      BY <2>4, <2>9, <2>13, Zenon
    <3>3. OfRole(ElementsAt(a[k + 1], kept), "system") = OfRole(e, "system")
      BY <2>8, <3>2, Zenon
    <3> QED
      BY <2>11, <3>1, <3>3, Zenon
  <2> QED
    BY <2>12, <2>13
<1>5. n \in P
  <2> HIDE DEF P
  <2> QED
    BY <1>1, <1>3, <1>4, Induction
<1>6. a[n] = lean /\ b[n] = ms
  <2>1. SubSeq(lean, 1, Len(lean)) = lean
    BY <1>1, SubSeqFull
  <2>2. SubSeq(ms, 1, Len(ms)) = ms
    BY <1>1, SubSeqFull
  <2> QED
    BY <1>1, <2>1, <2>2 DEF n
<1>7. Same(n)
  BY <1>1, <1>5
<1> HIDE DEF a, b
<1> QED
  BY <1>6, <1>7

\* What is known of the context once there is one.
LEMMA ContextIsCompact ==
  ASSUME PInv, CInv, stage \in {"compacted", "sent", "streaming"}
  PROVE  /\ IsHistory(request.messages) /\ IsConfig(route.tokens)
         /\ context = Compact(request.messages, route.tokens)
<1>1. stage \notin {"idle", "refused"}
  OBVIOUS
<1>2. IsRequest(request) /\ Valid(request)
  BY <1>1 DEF PInv, WellAsked
<1>3. IsHistory(request.messages)
  BY <1>2, RequestIsHistory
<1>4. route \in Routes /\ context = Compact(request.messages, route.tokens)
  BY DEF CInv, Compacted
<1> QED
  BY <1>3, <1>4, RequestsAssumption DEF IsConfig

\* The system messages and the last message of the user outlast the compactor.
LEMMA ContextIsKept == PInv /\ CInv => ContextSurvives
<1> DEFINE before == request.messages
           after == context.messages
           users == {i \in DOMAIN before : before[i].role = "user"}
           later == {i \in DOMAIN before : users # {} /\ i > Max(users)
                                           /\ before[i].role # "system"}
           inWindow == route.tokens.strategy = "semantic_guarded_trimming"
                         \/ Cardinality(later) < route.tokens.maxHistoryMessages
<1> SUFFICES ASSUME PInv, CInv, stage \in {"compacted", "sent", "streaming"}
             PROVE  /\ Texts(OfRole(after, "system")) = Texts(OfRole(before, "system"))
                    /\ users # {} /\ inWindow =>
                         \E i \in DOMAIN after : after[i].role = "user"
                                                 /\ after[i].content = before[Max(users)].content
  BY DEF ContextSurvives
<1> DEFINE plain == PlainOf(before)
           u == Max(users)
           held == /\ Users(before) # {}
                   /\ Semantic(route.tokens)
                        \/ Cardinality(Later(before)) < route.tokens.maxHistoryMessages
<1>1. /\ IsHistory(before) /\ IsConfig(route.tokens)
      /\ context = Compact(before, route.tokens)
  BY ContextIsCompact
<1> HIDE DEF before
<1>2. users = Users(before) /\ (users # {} => later = Later(before))
  BY DEF Users, Later
<1> HIDE DEF users, later
<1>3. users # {} /\ inWindow => held
  BY <1>2, Zenon DEF Semantic
<1>4. users # {} => u \in DOMAIN before /\ before[u].role = "user"
  BY <1>1, <1>2, LastUserIs, Zenon
<1> HIDE DEF inWindow, held
<1>5. \/ after = before
      \/ \E lean, kept : /\ Trims(plain, lean, kept, context)
                         /\ held => KeepsUser(plain, lean, kept)
  BY <1>1, CompactTrims DEF held
<1>6. CASE after = before
  BY <1>4, <1>6
<1>7. CASE \E lean, kept : /\ Trims(plain, lean, kept, context)
                           /\ held => KeepsUser(plain, lean, kept)
  <2>1. PICK lean, kept : /\ Trims(plain, lean, kept, context)
                          /\ held => KeepsUser(plain, lean, kept)
    BY <1>7
  <2>2. /\ IsHistory(plain) /\ DOMAIN plain = DOMAIN before /\ Users(plain) = Users(before)
        /\ \A i \in DOMAIN before : /\ plain[i].role = before[i].role
                                    /\ plain[i].content = before[i].content
    BY <1>1, PlainIsHistory DEF PlainOf
  <2> HIDE DEF plain
  <2>3. /\ Shortened(plain, lean) /\ kept \in SUBSET (DOMAIN plain) /\ System(plain) \subseteq kept
        /\ after = ElementsAt(lean, kept) \/ (kept = {} /\ after = <<Last(plain)>>)
    BY <2>1 DEF Trims
  <2>4. /\ lean \in Seq(Range(lean)) /\ DOMAIN lean = 1..Len(lean) /\ DOMAIN lean = DOMAIN plain
        /\ \A i \in DOMAIN plain : lean[i].role = plain[i].role
    BY <2>3, HistoryProperties DEF Shortened
  <2>5. Texts(OfRole(plain, "system")) = Texts(OfRole(before, "system"))
    <3>1. /\ Shortened(before, plain)
      <4>1. \A i \in DOMAIN before : Spoken(before[i]) /\ Tokens(before[i]) \in Nat
        BY <1>1, HistoryProperties
      <4>2. \A i \in DOMAIN before : Tokens(plain[i]) = Tokens(before[i])
        <5>1. \A i \in DOMAIN before : plain[i] = Plain(before[i])
          BY DEF plain, PlainOf
        <5>2. \A m : Spoken(m) => Tokens(Plain(m)) = Tokens(m)
          BY PlainIsSame
        <5> QED
          BY <4>1, <5>1, <5>2, Zenon
      <4>3. \A i \in DOMAIN before : Tokens(plain[i]) <= Tokens(before[i])
        BY <4>1, <4>2
      <4> QED
        BY <2>2, <4>3 DEF Shortened
    <3>2. plain \in Seq(Range(plain)) /\ 1..Len(plain) \subseteq DOMAIN plain
      BY <2>2, HistoryProperties
    <3>3. ElementsAt(plain, DOMAIN plain) = plain
      <4> DEFINE all == DOMAIN plain
      <4>1. plain \in Seq(Range(plain)) /\ 1..Len(plain) \subseteq all
        BY <3>2
      <4> HIDE DEF all
      <4>2. ElementsAt(plain, all) = plain
        BY <4>1, ElementsOfAll
      <4> QED
        BY <4>2 DEF all
    <3>4. System(before) \subseteq DOMAIN plain
      BY <2>2 DEF System
    <3>5. Texts(OfRole(ElementsAt(plain, DOMAIN plain), "system")) = Texts(OfRole(before, "system"))
      BY <1>1, <3>1, <3>4, SystemTextsKept
    <3> QED
      BY <3>3, <3>5, Zenon
  <2>6. CASE after = ElementsAt(lean, kept)
    <3>1. Texts(OfRole(after, "system")) = Texts(OfRole(before, "system"))
      <4>1. Texts(OfRole(ElementsAt(lean, kept), "system")) = Texts(OfRole(plain, "system"))
        BY <2>2, <2>3, SystemTextsKept
      <4> QED
        BY <2>5, <2>6, <4>1, Zenon
    <3>2. ASSUME users # {}, inWindow
          PROVE  \E i \in DOMAIN after : after[i].role = "user"
                                         /\ after[i].content = before[Max(users)].content
      <4>1. KeepsUser(plain, lean, kept) /\ u \in DOMAIN before /\ before[u].role = "user"
        BY <1>3, <1>4, <2>1, <3>2
      <4>2. u \in kept /\ lean[u].content = plain[u].content
        BY <1>2, <2>2, <4>1, Zenon DEF KeepsUser
      <4>3. lean[u].role = "user" /\ lean[u].content = before[u].content
        BY <2>2, <2>4, <4>1, <4>2, Zenon
      <4> HIDE DEF u
      <4>4. u \in (1..Len(lean)) \cap kept
        BY <2>2, <2>4, <4>1, <4>2
      <4>5. lean[u] \in Range(ElementsAt(lean, kept))
        BY <2>4, <4>4, ElementsContain
      <4>6. PICK i \in DOMAIN after : after[i] = lean[u]
        BY <2>6, <4>5, Zenon DEF Range
      <4> QED
        BY <4>3, <4>6 DEF u
    <3> QED
      BY <3>1, <3>2
  <2>7. CASE kept = {} /\ after = <<Last(plain)>>
    <3>1. ~(users # {} /\ inWindow)
      BY <1>3, <2>1, <2>7 DEF KeepsUser
    <3>2. System(plain) = {}
      BY <2>3, <2>7
    <3>3. OfRole(plain, "system") = <<>>
      <4>1. plain \in Seq(Range(plain))
        BY <2>2, HistoryProperties
      <4> DEFINE none == {i \in DOMAIN plain : plain[i].role = "system"}
      <4>2. (1..Len(plain)) \cap none = {}
        BY <3>2 DEF System
      <4> HIDE DEF none
      <4>3. ElementsAt(plain, none) = <<>>
        BY <4>1, <4>2, ElementsOfNobody
      <4> QED
        BY <4>3 DEF OfRole, none
    <3>4. OfRole(after, "system") = <<>>
      <4> DEFINE m == Last(plain)
                 one == <<m>>
                 none == {i \in DOMAIN one : one[i].role = "system"}
      <4>1. m.role # "system"
        <5>1. Len(plain) \in DOMAIN plain
          BY <2>2, HistoryProperties
        <5> QED
          BY <3>2, <5>1, Zenon DEF System, Last
      <4> HIDE DEF m
      <4>2. one \in Seq({m}) /\ DOMAIN one = {1} /\ one[1] = m
        OBVIOUS
      <4> HIDE DEF one
      <4>3. none = {}
        BY <4>1, <4>2, Zenon
      <4> HIDE DEF none
      <4>4. (1..Len(one)) \cap none = {}
        BY <4>3
      <4>5. ElementsAt(one, none) = <<>>
        BY <4>2, <4>4, ElementsOfNobody
      <4> QED
        BY <2>7, <4>5 DEF OfRole, none, one, m
    <3>5. Texts(OfRole(after, "system")) = Texts(OfRole(before, "system"))
      BY <2>5, <3>3, <3>4, Zenon
    <3> QED
      BY <3>1, <3>5
  <2> QED
    BY <2>3, <2>6, <2>7
<1> QED
  BY <1>5, <1>6, <1>7

\* A compaction makes no context longer, and removes no more than it has to.
LEMMA ContextIsFrugal == PInv /\ CInv => CompactionIsFrugal
<1> DEFINE gone == context.removed
           last == request.messages[Last(gone)]
           leave == route.tokens.stopWords /\ route.tokens.strategy # "semantic_guarded_trimming"
           back == CountTokens(RoleChars[last.role])
                     + CountTokens(IF leave THEN last.content.lean ELSE last.content.chars)
<1> SUFFICES ASSUME PInv, CInv, stage = "compacted"
             PROVE  /\ context.final <= context.original
                    /\ gone # <<>> => context.final + back > context.target
  BY Zenon DEF CompactionIsFrugal
<1> DEFINE before == request.messages
           plain == PlainOf(before)
           stop == route.tokens.stopWords /\ ~Semantic(route.tokens)
<1>1. /\ IsHistory(before) /\ IsConfig(route.tokens)
      /\ context = Compact(before, route.tokens)
  BY ContextIsCompact
<1> HIDE DEF before
<1>2. context.final <= context.original /\ Frugal(plain, stop, context)
  BY <1>1, CompactTrims
<1>3. ASSUME gone # <<>> PROVE context.final + back > context.target
  <2> DEFINE k == Last(gone)
             m == plain[k]
  <2>1. /\ k \in DOMAIN plain
        /\ context.final + Tokens(IF stop THEN WithoutStopWords(m) ELSE m) > context.target
    BY <1>2, <1>3 DEF Frugal
  <2>2. /\ DOMAIN plain = DOMAIN before
        /\ plain[k].role = before[k].role /\ plain[k].content = before[k].content
        /\ Spoken(plain[k])
    <3>1. /\ IsHistory(plain) /\ DOMAIN plain = DOMAIN before
          /\ \A i \in DOMAIN before : /\ plain[i].role = before[i].role
                                      /\ plain[i].content = before[i].content
      BY <1>1, PlainIsHistory DEF PlainOf
    <3>2. \A i \in DOMAIN plain : Spoken(plain[i])
      BY <3>1, HistoryProperties
    <3> HIDE DEF plain, k
    <3> QED
      BY <2>1, <3>1, <3>2
  <2>3. leave <=> stop
    BY Zenon DEF Semantic
  <2>4. last = before[k]
    BY DEF before
  <2> HIDE DEF plain, k, stop, leave, m, last
  <2>5. m.role = last.role /\ m.content = last.content /\ Spoken(m)
    BY <2>2, <2>4, Zenon DEF m
  <2>6. Tokens(IF stop THEN WithoutStopWords(m) ELSE m) = back
    <3>1. CASE stop
      <4>1. Tokens(WithoutStopWords(m)) = CountTokens(RoleChars[m.role]) + CountTokens(m.content.lean)
        BY <2>5, LeanIsLess
      <4> QED
        BY <2>3, <2>5, <3>1, <4>1, Zenon
    <3>2. CASE ~stop
      BY <2>3, <2>5, <3>2, Zenon DEF Tokens
    <3> QED
      BY <3>1, <3>2
  <2> QED
    BY <2>1, <2>6, Zenon
<1> QED
  BY <1>2, <1>3

\* Whatever the compactor throws away, the system messages stay, in their order
\* and to the letter, and so does the last message of the user, unless at least
\* as many messages follow it as the window of AdaptiveTrimming holds.
THEOREM KeepsTheContext == Spec => []ContextSurvives
BY PInvInit, PInvNext, CInvInit, CInvNext, ContextIsKept, PTL DEF Spec

\* Compaction never makes a context longer (the handler subtracts unsigned
\* numbers), and removes no more than it has to: with the message that went last,
\* the context would be over its target.
THEOREM CompactsFrugally == Spec => []CompactionIsFrugal
BY PInvInit, PInvNext, CInvInit, CInvNext, ContextIsFrugal, PTL DEF Spec
-----------------------------------------------------------------------------
(* Streams: what bytes become.                                             *)

\* The frames that the lines in some bytes can become, and the last one.
FramesFrom(type, B) == {Done} \cup UNION {Range(FramesOf(type, x.line)) : x \in B}

\* What becomes of a line is a list.
LEMMA LineIsTold ==
  ASSUME NEW type, NEW B, NEW x \in B
  PROVE  FramesOf(type, x.line) \in Seq(FramesFrom(type, B))
<1> DEFINE F == FramesOf(type, x.line)
<1>1. F = <<>> \/ \E y : F = <<y>>
  <2> DEFINE T == TranslateChunk(type, x.line.chunk)
  <2>1. T = <<>> \/ \E y : T = <<y>>
    <3>1. CASE type \in {"anthropic", "vertex_anthropic"}
      <4>1. T = <<AnthropicChunk(x.line.chunk)>>
        BY <3>1, Zenon DEF TranslateChunk
      <4> QED
        BY <4>1, Zenon
    <3>2. CASE type = "google_vertex_ai"
      <4>1. T = IF x.line.chunk.type = "candidates" THEN <<VertexChunk(x.line.chunk)>> ELSE <<>>
        BY <3>2 DEF TranslateChunk
      <4> QED
        BY <4>1, Zenon
    <3>3. CASE type \notin {"anthropic", "vertex_anthropic"} /\ type # "google_vertex_ai"
      <4>1. T = <<x.line.chunk.frame>>
        BY <3>3 DEF TranslateChunk
      <4> QED
        BY <4>1, Zenon
    <3> QED
      BY <3>1, <3>2, <3>3, Zenon
  <2> HIDE DEF T
  <2>2. F = <<Done>> \/ F = T \/ F = <<>>
    BY DEF FramesOf, T
  <2> QED
    BY <2>1, <2>2, Zenon
<1>2. F \in Seq(Range(F))
  <2>1. CASE F = <<>>
    BY <2>1
  <2>2. CASE \E y : F = <<y>>
    <3>1. PICK y : F = <<y>>
      BY <2>2
    <3>2. <<y>> \in Seq({y}) /\ Range(<<y>>) = {y}
      BY OneIsSeq
    <3> QED
      BY <3>1, <3>2, Zenon
  <2> QED
    BY <1>1, <2>1, <2>2
<1>3. Range(F) \subseteq FramesFrom(type, B)
  BY Zenon DEF FramesFrom
<1> HIDE DEF F
<1>4. F \in Seq(FramesFrom(type, B))
  BY <1>2, <1>3, SeqMonotonic
<1> QED
  BY <1>4 DEF F

\* What each of some bytes becomes.
PiecesOf(type, event) ==
  [i \in DOMAIN event |-> IF EndsLine(event, i) THEN FramesOf(type, event[i].line) ELSE <<>>]

\* What bytes become is a list, of frames that their lines become.
LEMMA PiecesAreTold ==
  ASSUME NEW type, NEW B, NEW event \in Seq(B)
  PROVE  /\ PiecesOf(type, event) \in Seq(Seq(FramesFrom(type, B)))
         /\ Len(PiecesOf(type, event)) = Len(event)
         /\ FramesIn(type, event) = FlattenSeq(PiecesOf(type, event))
         /\ FramesIn(type, event) \in Seq(FramesFrom(type, B))
<1> DEFINE X == FramesFrom(type, B)
           pieces == PiecesOf(type, event)
<1>1. DOMAIN event = 1..Len(event) /\ Len(event) \in Nat /\ \A i \in 1..Len(event) : event[i] \in B
  BY LenProperties, ElementOfSeq
<1>2. \A i \in 1..Len(event) : FramesOf(type, event[i].line) \in Seq(X)
  BY <1>1, LineIsTold
<1>3. pieces = [i \in 1..Len(event) |-> pieces[i]] /\ \A i \in 1..Len(event) : pieces[i] \in Seq(X)
  <2>1. \A i \in 1..Len(event) :
          pieces[i] = IF EndsLine(event, i) THEN FramesOf(type, event[i].line) ELSE <<>>
    BY <1>1 DEF PiecesOf
  <2>2. <<>> \in Seq(X)
    OBVIOUS
  <2>3. pieces = [i \in 1..Len(event) |-> pieces[i]]
    BY <1>1 DEF PiecesOf
  <2> HIDE DEF pieces, X
  <2> QED
    BY <1>2, <2>1, <2>2, <2>3
<1> HIDE DEF X, pieces
<1>4. pieces \in Seq(Seq(X)) /\ Len(pieces) = Len(event)
  BY <1>1, <1>3
<1>5. FlattenSeq(pieces) \in Seq(X)
  BY <1>4, FlattenIsSeq
<1> QED
  BY <1>4, <1>5 DEF FramesIn, PiecesOf, X, pieces

\* No line reaches over the end of another: bytes that end one can be told apart
\* from those that follow.
LEMMA FramesConcat ==
  ASSUME NEW type, NEW B, NEW a \in Seq(B), NEW b \in Seq(B),
         a # <<>> => a[Len(a)] = LF
  PROVE  FramesIn(type, a \o b) = FramesIn(type, a) \o FramesIn(type, b)
<1> DEFINE X == FramesFrom(type, B)
           c == a \o b
           p == PiecesOf(type, a)
           q == PiecesOf(type, b)
           r == PiecesOf(type, c)
<1>1. /\ c \in Seq(B) /\ Len(c) = Len(a) + Len(b) /\ Len(a) \in Nat /\ Len(b) \in Nat
      /\ DOMAIN a = 1..Len(a) /\ DOMAIN b = 1..Len(b) /\ DOMAIN c = 1..(Len(a) + Len(b))
      /\ \A i \in 1..(Len(a) + Len(b)) : c[i] = IF i <= Len(a) THEN a[i] ELSE b[i - Len(a)]
  BY ConcatProperties, LenProperties
<1> HIDE DEF c
<1>2. /\ p \in Seq(Seq(X)) /\ Len(p) = Len(a) /\ FramesIn(type, a) = FlattenSeq(p)
      /\ q \in Seq(Seq(X)) /\ Len(q) = Len(b) /\ FramesIn(type, b) = FlattenSeq(q)
      /\ r \in Seq(Seq(X)) /\ Len(r) = Len(a) + Len(b) /\ FramesIn(type, c) = FlattenSeq(r)
  BY <1>1, PiecesAreTold
<1>3. ASSUME NEW i \in 1..Len(a) PROVE r[i] = p[i]
  <2>1. c[i] = a[i] /\ i \in DOMAIN c /\ i \in DOMAIN a
    BY <1>1
  <2>2. EndsLine(c, i) <=> EndsLine(a, i)
    <3>1. i > 1 => c[i - 1] = a[i - 1]
      <4>1. i > 1 => i - 1 \in 1..(Len(a) + Len(b)) /\ i - 1 <= Len(a)
        BY <1>1
      <4> QED
        BY <1>1, <4>1
    <3> QED
      BY <2>1, <3>1 DEF EndsLine
  <2> QED
    BY <2>1, <2>2 DEF PiecesOf
<1>4. ASSUME NEW i \in 1..Len(b) PROVE r[Len(a) + i] = q[i]
  <2> DEFINE k == Len(a) + i
  <2>1. c[k] = b[i] /\ k \in DOMAIN c /\ i \in DOMAIN b /\ k \in Nat
    <3>1. k \in 1..(Len(a) + Len(b)) /\ ~(k <= Len(a)) /\ k - Len(a) = i
      BY <1>1
    <3> QED
      BY <1>1, <3>1
  <2>2. EndsLine(c, k) <=> EndsLine(b, i)
    <3>1. CASE i > 1
      <4>1. /\ k > 1 /\ k - 1 \in 1..(Len(a) + Len(b)) /\ ~(k - 1 <= Len(a))
            /\ (k - 1) - Len(a) = i - 1
        BY <1>1, <3>1
      <4>2. c[k - 1] = b[i - 1]
        BY <1>1, <4>1
      <4> HIDE DEF k
      <4> QED
        BY <2>1, <3>1, <4>1, <4>2 DEF EndsLine
    <3>2. CASE ~(i > 1)
      <4>1. i = 1 /\ ~EndsLine(b, i)
        BY <3>2 DEF EndsLine
      <4>2. ASSUME EndsLine(c, k) PROVE FALSE
        <5>1. k > 1 /\ c[k - 1] = Half(c[k].line, 1)
          BY <4>2 DEF EndsLine
        <5>2. k - 1 = Len(a) /\ Len(a) # 0
          BY <1>1, <4>1, <5>1
        <5>3. a # <<>> /\ c[k - 1] = a[Len(a)]
          <6>1. k - 1 \in 1..(Len(a) + Len(b)) /\ k - 1 <= Len(a)
            BY <1>1, <5>2
          <6>2. c[k - 1] = a[k - 1]
            BY <1>1, <6>1
          <6> HIDE DEF k
          <6> QED
            BY <5>2, <6>2
        <5>4. c[k - 1].part = 0
          BY <5>3 DEF LF, Half
        <5>5. c[k - 1].part = 1
          BY <5>1 DEF Half
        <5> QED
          BY <5>4, <5>5
      <4> QED
        BY <4>1, <4>2
    <3> QED
      BY <3>1, <3>2
  <2> HIDE DEF k
  <2>3. r[k] = q[i]
    BY <2>1, <2>2 DEF PiecesOf
  <2> QED
    BY <2>3 DEF k
<1> HIDE DEF X, p, q, r
<1>5. r = p \o q
  <2> DEFINE s == p \o q
  <2>1. /\ s \in Seq(Seq(X)) /\ Len(s) = Len(p) + Len(q)
        /\ \A i \in 1..(Len(p) + Len(q)) : s[i] = IF i <= Len(p) THEN p[i] ELSE q[i - Len(p)]
    <3> DEFINE Y == Seq(X)
    <3>1. p \in Seq(Y) /\ q \in Seq(Y)
      BY <1>2
    <3> HIDE DEF Y
    <3>2. /\ p \o q \in Seq(Y) /\ Len(p \o q) = Len(p) + Len(q)
          /\ \A i \in 1..(Len(p) + Len(q)) :
               (p \o q)[i] = IF i <= Len(p) THEN p[i] ELSE q[i - Len(p)]
      BY <3>1, ConcatProperties
    <3> QED
      BY <3>2 DEF Y
  <2> HIDE DEF s
  <2>2. ASSUME NEW i \in 1..Len(r) PROVE r[i] = s[i]
    <3>1. CASE i <= Len(a)
      <4>1. i \in 1..Len(a)
        BY <1>1, <1>2, <3>1
      <4>2. i \in 1..(Len(p) + Len(q)) /\ i <= Len(p)
        BY <1>1, <1>2, <3>1
      <4> QED
        BY <1>3, <2>1, <4>1, <4>2
    <3>2. CASE ~(i <= Len(a))
      <4>1. i - Len(a) \in 1..Len(b) /\ Len(a) + (i - Len(a)) = i
        BY <1>1, <1>2, <3>2
      <4>2. i \in 1..(Len(p) + Len(q)) /\ ~(i <= Len(p))
        BY <1>1, <1>2, <3>2
      <4>3. r[Len(a) + (i - Len(a))] = q[i - Len(a)]
        BY <1>4, <4>1
      <4> QED
        BY <1>2, <2>1, <4>1, <4>2, <4>3
    <3> QED
      BY <3>1, <3>2
  <2>3. Len(r) = Len(s)
    BY <1>2, <2>1
  <2>4. r = s
    BY <1>2, <2>1, <2>2, <2>3, SeqEqual
  <2> QED
    BY <2>4 DEF s
<1>6. FlattenSeq(p \o q) = FlattenSeq(p) \o FlattenSeq(q)
  BY <1>2, FlattenConcat
<1> QED
  BY <1>2, <1>5, <1>6, Zenon DEF c
-----------------------------------------------------------------------------
(* Streams: up to [DONE].                                                  *)

\* Where the first [DONE] is, there is the end of what comes up to it.
LEMMA UpToDoneIsBefore ==
  ASSUME NEW X, NEW told \in Seq(X)
  PROVE  LET done == {k \in DOMAIN told : told[k] = Done}
             U == UpToDone(told)
             n == IF done = {} THEN Len(told) ELSE Min(done) - 1
         IN /\ n \in 0..Len(told) /\ U = SubSeq(told, 1, n)
            /\ U \in Seq(X) /\ Len(U) = n
            /\ \A k \in 1..n : U[k] = told[k] /\ told[k] # Done
            /\ done = {} => U = told
            /\ done # {} => n + 1 = Min(done) /\ Min(done) \in 1..Len(told)
                              /\ told[Min(done)] = Done
<1> DEFINE done == {k \in DOMAIN told : told[k] = Done}
           U == UpToDone(told)
           n == IF done = {} THEN Len(told) ELSE Min(done) - 1
<1>1. DOMAIN told = 1..Len(told) /\ Len(told) \in Nat /\ \A i \in 1..Len(told) : told[i] \in X
  BY LenProperties, ElementOfSeq
<1>2. /\ \A k \in 1..Len(told) : k \in done <=> told[k] = Done
      /\ done \subseteq 1..Len(told) /\ done \subseteq Int
  BY <1>1
<1>3. U = IF done = {} THEN told ELSE SubSeq(told, 1, Min(done) - 1)
  BY DEF UpToDone
<1> SUFFICES /\ n \in 0..Len(told) /\ U = SubSeq(told, 1, n)
             /\ U \in Seq(X) /\ Len(U) = n
             /\ \A k \in 1..n : U[k] = told[k] /\ told[k] # Done
             /\ done = {} => U = told
             /\ done # {} => n + 1 = Min(done) /\ Min(done) \in 1..Len(told)
                               /\ told[Min(done)] = Done
  BY Zenon
<1> HIDE DEF U, done
<1>4. CASE done = {}
  <2>1. U = told /\ n = Len(told)
    BY <1>3, <1>4
  <2>2. SubSeq(told, 1, Len(told)) = told
    BY SubSeqFull
  <2> QED
    BY <1>1, <1>2, <1>4, <2>1, <2>2
<1>5. CASE done # {}
  <2>1. IsFiniteSet(done)
    <3>1. IsFiniteSet(1..Len(told))
      BY <1>1, FS_Interval
    <3> QED
      BY <1>2, <3>1, FS_Subset
  <2>2. Min(done) \in done /\ \A y \in done : Min(done) <= y
    BY <1>2, <1>5, <2>1, MinIsLeast
  <2> DEFINE m == Min(done)
  <2>3. /\ m \in 1..Len(told) /\ told[m] = Done /\ n = m - 1
        /\ \A k \in 1..Len(told) : k < m => told[k] # Done
    <3>1. n = m - 1
      BY <1>5
    <3>2. m \in done /\ \A y \in done : m <= y
      BY <2>2
    <3> HIDE DEF m, n
    <3>3. ASSUME NEW k \in 1..Len(told), k < m, told[k] = Done PROVE FALSE
      <4>1. m <= k
        BY <1>2, <3>2, <3>3
      <4> QED
        BY <1>1, <1>2, <3>2, <3>3, <4>1
    <3> QED
      BY <1>2, <3>1, <3>2, <3>3
  <2> HIDE DEF m, n
  <2>4. n \in 0..Len(told) /\ n \in Int /\ 1 \in Int /\ n + 1 = m /\ \A i \in 1..n : told[i] \in X
    BY <1>1, <2>3
  <2>5. /\ SubSeq(told, 1, n) \in Seq(X)
        /\ Len(SubSeq(told, 1, n)) = IF 1 <= n THEN n - 1 + 1 ELSE 0
        /\ \A i \in 1..(n - 1 + 1) : SubSeq(told, 1, n)[i] = told[1 + i - 1]
    BY <2>4, SubSeqProperties
  <2>6. U = SubSeq(told, 1, n)
    BY <1>3, <1>5, <2>3 DEF m
  <2> DEFINE W == SubSeq(told, 1, n)
  <2> HIDE DEF W
  <2>7. Len(W) = n /\ \A i \in 1..n : W[i] = told[i]
    <3>1. \A i \in 1..n : i \in 1..(n - 1 + 1) /\ 1 + i - 1 = i
      BY <2>4
    <3> QED
      BY <2>4, <2>5, <3>1 DEF W
  <2>8. \A k \in 1..n : told[k] # Done
    BY <2>3, <2>4
  <2> QED
    BY <1>5, <2>3, <2>4, <2>5, <2>6, <2>7, <2>8 DEF W, m
<1> QED
  BY <1>4, <1>5

\* Frames are what comes up to the first [DONE], and the rest.
LEMMA DoneSplits ==
  ASSUME NEW X, NEW told \in Seq(X)
  PROVE  LET done == {k \in DOMAIN told : told[k] = Done}
         IN \E P \in Seq(X) :
              /\ \A k \in 1..Len(P) : P[k] # Done
              /\ done = {} => P = told
              /\ done # {} => /\ Done \in X /\ SubSeq(told, 1, Min(done)) = Append(P, Done)
                              /\ \E R \in Seq(X) : told = P \o R /\ R # <<>> /\ R[1] = Done
<1> DEFINE done == {k \in DOMAIN told : told[k] = Done}
           P == UpToDone(told)
           n == IF done = {} THEN Len(told) ELSE Min(done) - 1
<1>1. /\ n \in 0..Len(told) /\ P = SubSeq(told, 1, n)
      /\ P \in Seq(X) /\ Len(P) = n
      /\ \A k \in 1..n : P[k] = told[k] /\ told[k] # Done
      /\ done = {} => P = told
      /\ done # {} => n + 1 = Min(done) /\ Min(done) \in 1..Len(told)
                        /\ told[Min(done)] = Done
  BY UpToDoneIsBefore, Zenon
<1> HIDE DEF P, n, done
<1>2. \A k \in 1..Len(P) : P[k] # Done
  BY <1>1
<1>3. ASSUME done # {}
      PROVE  /\ Done \in X /\ SubSeq(told, 1, Min(done)) = Append(P, Done)
             /\ \E R \in Seq(X) : told = P \o R /\ R # <<>> /\ R[1] = Done
  <2> DEFINE m == Min(done)
  <2>0. Len(told) \in Nat /\ \A i \in 1..Len(told) : told[i] \in X
    BY LenProperties, ElementOfSeq
  <2>1. m = n + 1 /\ m \in 1..Len(told) /\ told[m] = Done /\ Done \in X /\ m - 1 = n
    BY <1>1, <1>3, <2>0
  <2> HIDE DEF m
  <2>2. SubSeq(told, 1, m) = SubSeq(told, 1, m - 1) \o <<told[m]>>
    <3>1. 1 \in 1..Len(told) /\ m \in 1..Len(told)
      BY <2>0, <2>1
    <3> QED
      BY <3>1, SubSeqRecursiveSecond
  <2>3. SubSeq(told, 1, m) = P \o <<Done>>
    BY <1>1, <2>1, <2>2, Zenon
  <2>4. Append(P, Done) = P \o <<Done>>
    BY <1>1, <2>1, AppendIsConcat
  <2> DEFINE R == SubSeq(told, m, Len(told))
  <2>5. told = P \o R
    <3>1. 1 \in 1..(Len(told) + 1) /\ n \in (1 - 1)..Len(told) /\ Len(told) \in n..Len(told)
      BY <1>1, <2>0, <2>1
    <3>2. SubSeq(told, 1, n) \o SubSeq(told, n + 1, Len(told)) = SubSeq(told, 1, Len(told))
      BY <3>1, ConcatAdjacentSubSeq
    <3>3. SubSeq(told, 1, Len(told)) = told
      BY SubSeqFull
    <3> QED
      BY <1>1, <2>1, <3>2, <3>3, Zenon
  <2>6. R \in Seq(X) /\ R # <<>> /\ R[1] = Done
    <3>1. /\ m \in Int /\ Len(told) \in Int /\ \A i \in m..Len(told) : told[i] \in X
          /\ m <= Len(told) /\ 1 \in 1..(Len(told) - m + 1) /\ Len(told) - m + 1 > 0
          /\ m + 1 - 1 = m
      BY <2>0, <2>1
    <3>2. /\ R \in Seq(X)
          /\ Len(R) = IF m <= Len(told) THEN Len(told) - m + 1 ELSE 0
          /\ \A i \in 1..(Len(told) - m + 1) : R[i] = told[m + i - 1]
      BY <3>1, SubSeqProperties
    <3> HIDE DEF R
    <3>3. R[1] = told[m] /\ Len(R) > 0
      BY <3>1, <3>2
    <3>4. Len(<<>>) = 0
      OBVIOUS
    <3> QED
      BY <2>1, <3>2, <3>3, <3>4
  <2> QED
    BY <2>1, <2>3, <2>4, <2>5, <2>6, Zenon DEF m
<1>4. \E Q \in Seq(X) :
        /\ \A k \in 1..Len(Q) : Q[k] # Done
        /\ done = {} => Q = told
        /\ done # {} => /\ Done \in X /\ SubSeq(told, 1, Min(done)) = Append(Q, Done)
                        /\ \E R \in Seq(X) : told = Q \o R /\ R # <<>> /\ R[1] = Done
  BY <1>1, <1>2, <1>3, Zenon
<1> QED
  BY <1>4, Zenon DEF done

\* What comes up to the first [DONE] begins with all that has none.
LEMMA UpToDoneConcat ==
  ASSUME NEW X, NEW P \in Seq(X), NEW R \in Seq(X), \A k \in 1..Len(P) : P[k] # Done
  PROVE  \E Q \in Seq(X) : /\ UpToDone(P \o R) = P \o Q
                           /\ R = <<>> \/ R[1] = Done => Q = <<>>
<1> DEFINE t == P \o R
           done == {k \in DOMAIN t : t[k] = Done}
           n == IF done = {} THEN Len(t) ELSE Min(done) - 1
           Q == SubSeq(t, Len(P) + 1, n)
<1>0. Len(P) \in Nat /\ Len(R) \in Nat
  BY LenProperties
<1>1. /\ t \in Seq(X) /\ Len(t) = Len(P) + Len(R)
      /\ \A i \in 1..(Len(P) + Len(R)) : t[i] = IF i <= Len(P) THEN P[i] ELSE R[i - Len(P)]
  BY ConcatProperties
<1>2. SubSeq(t, 1, Len(P)) = P
  <2>1. CASE Len(P) = 0
    <3>1. P = <<>>
      BY <2>1, EmptySeq
    <3>2. SubSeq(t, 1, 0) = <<>>
      BY SubSeqEmpty
    <3> QED
      BY <2>1, <3>1, <3>2, Zenon
  <2>2. CASE Len(P) # 0
    <3>1. 1 \in 1..Len(P) /\ Len(P) \in 1..Len(P)
      BY <1>0, <2>2
    <3>2. SubSeq(P \o R, 1, Len(P)) = SubSeq(P, 1, Len(P))
      BY <3>1, SubSeqOfConcat1
    <3>3. SubSeq(P, 1, Len(P)) = P
      BY SubSeqFull
    <3> QED
      BY <3>2, <3>3, Zenon
  <2> QED
    BY <2>1, <2>2
<1> HIDE DEF t
<1>3. /\ n \in 0..Len(t) /\ UpToDone(t) = SubSeq(t, 1, n)
      /\ \A k \in 1..n : t[k] # Done
      /\ done # {} => n + 1 = Min(done) /\ Min(done) \in 1..Len(t) /\ t[Min(done)] = Done
      /\ done = {} => n = Len(t)
  BY <1>1, UpToDoneIsBefore, ZenonT(60)
<1> HIDE DEF done, n
<1>4. Len(P) <= n
  <2>1. CASE done = {}
    BY <1>0, <1>1, <1>3, <2>1
  <2>2. CASE done # {}
    <3> SUFFICES ASSUME n < Len(P) PROVE FALSE
      BY <1>0, <1>1, <1>3
    <3>1. n + 1 \in 1..Len(P) /\ n + 1 \in 1..(Len(P) + Len(R)) /\ n + 1 <= Len(P)
      BY <1>0, <1>1, <1>3
    <3>2. t[n + 1] = P[n + 1] /\ t[n + 1] = Done
      BY <1>1, <1>3, <2>2, <3>1
    <3> QED
      BY <3>1, <3>2
  <2> QED
    BY <2>1, <2>2
<1>5. UpToDone(t) = P \o Q
  <2>1. 1 \in 1..(Len(t) + 1) /\ Len(P) \in (1 - 1)..Len(t) /\ n \in Len(P)..Len(t)
    BY <1>0, <1>1, <1>3, <1>4
  <2>2. SubSeq(t, 1, Len(P)) \o SubSeq(t, Len(P) + 1, n) = SubSeq(t, 1, n)
    BY <1>1, <2>1, ConcatAdjacentSubSeq
  <2> QED
    BY <1>2, <1>3, <2>2, Zenon
<1>6. Q \in Seq(X)
  <2>1. Len(P) + 1 \in Int /\ n \in Int /\ \A i \in (Len(P) + 1)..n : t[i] \in X
    <3>1. \A i \in (Len(P) + 1)..n : i \in 1..Len(t)
      BY <1>0, <1>1, <1>3
    <3>2. \A i \in 1..Len(t) : t[i] \in X
      BY <1>1, ElementOfSeq
    <3> QED
      BY <1>0, <1>1, <1>3, <3>1, <3>2
  <2> QED
    BY <2>1, SubSeqProperties
<1>7. ASSUME R = <<>> \/ R[1] = Done PROVE Q = <<>>
  <2>1. n <= Len(P)
    <3>1. CASE R = <<>>
      <4>1. Len(R) = 0
        BY <3>1
      <4> QED
        BY <1>0, <1>1, <1>3, <4>1
    <3>2. CASE R # <<>> /\ R[1] = Done
      <4> SUFFICES ASSUME n > Len(P) PROVE FALSE
        BY <1>0, <1>1, <1>3
      <4>1. /\ Len(P) + 1 \in 1..n /\ Len(P) + 1 \in 1..(Len(P) + Len(R))
            /\ ~(Len(P) + 1 <= Len(P)) /\ (Len(P) + 1) - Len(P) = 1
        BY <1>0, <1>1, <1>3
      <4>2. t[Len(P) + 1] = R[1]
        BY <1>1, <4>1
      <4> QED
        BY <1>3, <3>2, <4>1, <4>2
    <3> QED
      BY <1>7, <3>1, <3>2
  <2>2. Len(P) + 1 \in Int /\ n \in Int /\ n < Len(P) + 1
    BY <1>0, <1>1, <1>3, <2>1
  <2> QED
    BY <2>2, SubSeqEmpty
<1> HIDE DEF Q
<1> QED
  BY <1>5, <1>6, <1>7, Zenon DEF t
-----------------------------------------------------------------------------
(* Streams: what frames say.                                               *)

\* The text of frames is that of the first ones, and then that of the others.
LEMMA TextConcat ==
  ASSUME NEW X, \A f \in X : IsList(TextOfFrame(f)), NEW P \in Seq(X), NEW R \in Seq(X)
  PROVE  /\ IsList(TextOf(P)) /\ IsList(TextOf(R))
         /\ TextOf(P \o R) = TextOf(P) \o TextOf(R)
<1> DEFINE Z == UNION {Range(TextOfFrame(f)) : f \in X}
           T(s) == [k \in DOMAIN s |-> TextOfFrame(s[k])]
           c == P \o R
<1>1. \A f \in X : TextOfFrame(f) \in Seq(Z)
  <2>1. \A f \in X : TextOfFrame(f) \in Seq(Range(TextOfFrame(f)))
                       /\ Range(TextOfFrame(f)) \subseteq Z
    BY DEF IsList
  <2> HIDE DEF Z
  <2> QED
    BY <2>1, SeqMonotonic
<1> HIDE DEF Z
<1>2. ASSUME NEW s \in Seq(X)
      PROVE  /\ T(s) \in Seq(Seq(Z)) /\ Len(T(s)) = Len(s)
             /\ \A k \in 1..Len(s) : T(s)[k] = TextOfFrame(s[k])
  <2>1. DOMAIN s = 1..Len(s) /\ Len(s) \in Nat /\ \A k \in 1..Len(s) : s[k] \in X
    BY LenProperties, ElementOfSeq
  <2>2. \A k \in 1..Len(s) : TextOfFrame(s[k]) \in Seq(Z)
    BY <1>1, <2>1
  <2>3. T(s) = [k \in 1..Len(s) |-> TextOfFrame(s[k])]
    BY <2>1
  <2> DEFINE Y == Seq(Z)
             t == T(s)
  <2> HIDE DEF Y, t
  <2>4. t = [k \in 1..Len(s) |-> TextOfFrame(s[k])] /\ \A k \in 1..Len(s) : TextOfFrame(s[k]) \in Y
    BY <2>2, <2>3 DEF Y, t
  <2>5. t \in Seq(Y) /\ Len(t) = Len(s) /\ \A k \in 1..Len(s) : t[k] = TextOfFrame(s[k])
    BY <2>1, <2>4
  <2> QED
    BY <2>5 DEF Y, t
<1>3. /\ c \in Seq(X) /\ Len(c) = Len(P) + Len(R) /\ Len(P) \in Nat /\ Len(R) \in Nat
      /\ \A i \in 1..(Len(P) + Len(R)) : c[i] = IF i <= Len(P) THEN P[i] ELSE R[i - Len(P)]
  BY ConcatProperties, LenProperties
<1> HIDE DEF c
<1> DEFINE p == T(P)
           r == T(R)
           t == T(c)
<1>4. /\ p \in Seq(Seq(Z)) /\ Len(p) = Len(P) /\ \A k \in 1..Len(P) : p[k] = TextOfFrame(P[k])
      /\ r \in Seq(Seq(Z)) /\ Len(r) = Len(R) /\ \A k \in 1..Len(R) : r[k] = TextOfFrame(R[k])
      /\ t \in Seq(Seq(Z)) /\ Len(t) = Len(c) /\ \A k \in 1..Len(c) : t[k] = TextOfFrame(c[k])
  <2> HIDE DEF T
  <2> QED
    BY <1>2, <1>3
<1>5. TextOf(P) = FlattenSeq(p) /\ TextOf(R) = FlattenSeq(r) /\ TextOf(c) = FlattenSeq(t)
  BY DEF TextOf
<1> HIDE DEF p, r, t
<1>6. t = p \o r
  <2> DEFINE Y == Seq(Z)
             s == p \o r
  <2>1. p \in Seq(Y) /\ r \in Seq(Y) /\ t \in Seq(Y)
    BY <1>4
  <2> HIDE DEF Y
  <2>2. /\ s \in Seq(Y) /\ Len(s) = Len(p) + Len(r)
        /\ \A i \in 1..(Len(p) + Len(r)) : s[i] = IF i <= Len(p) THEN p[i] ELSE r[i - Len(p)]
    <3>1. p \in Seq(Y) /\ r \in Seq(Y)
      BY <2>1
    <3> QED
      BY <3>1, ConcatProperties
  <2> HIDE DEF s
  <2>3. Len(t) = Len(s) /\ Len(t) = Len(P) + Len(R)
    BY <1>3, <1>4, <2>2
  <2>4. ASSUME NEW i \in 1..Len(t) PROVE t[i] = s[i]
    <3>1. t[i] = TextOfFrame(c[i])
      BY <1>4, <2>3
    <3>2. CASE i <= Len(P)
      <4>1. c[i] = P[i] /\ s[i] = p[i] /\ i \in 1..Len(P)
        BY <1>3, <1>4, <2>2, <2>3, <3>2
      <4>2. p[i] = TextOfFrame(P[i])
        BY <1>4, <4>1
      <4> QED
        BY <3>1, <4>1, <4>2, Zenon
    <3>3. CASE ~(i <= Len(P))
      <4> DEFINE j == i - Len(P)
      <4>1. c[i] = R[j] /\ s[i] = r[j] /\ j \in 1..Len(R)
        BY <1>3, <1>4, <2>2, <2>3, <3>3
      <4> HIDE DEF j
      <4>2. r[j] = TextOfFrame(R[j])
        BY <1>4, <4>1
      <4> QED
        BY <3>1, <4>1, <4>2, Zenon
    <3> QED
      BY <3>2, <3>3
  <2>5. t = s
    BY <2>1, <2>2, <2>3, <2>4, SeqEqual
  <2> QED
    BY <2>5 DEF s
<1>7. FlattenSeq(p \o r) = FlattenSeq(p) \o FlattenSeq(r)
  BY <1>4, FlattenConcat
<1>8. IsList(FlattenSeq(p)) /\ IsList(FlattenSeq(r))
  <2>1. FlattenSeq(p) \in Seq(Z) /\ FlattenSeq(r) \in Seq(Z)
    BY <1>4, FlattenIsSeq
  <2> QED
    BY <2>1, SeqIsList
<1> QED
  BY <1>5, <1>6, <1>7, <1>8, Zenon DEF c

\* The beginning of a beginning.
LEMMA BeginsAsWell ==
  ASSUME NEW a, IsList(a), NEW b, IsList(b), NEW t, IsList(t), IsPrefix(a \o b, t)
  PROVE  IsPrefix(a, t)
<1> DEFINE Z == (Range(a) \cup Range(b)) \cup Range(t)
           c == a \o b
<1>1. a \in Seq(Z) /\ b \in Seq(Z) /\ t \in Seq(Z)
  <2>1. Range(a) \subseteq Z /\ Range(b) \subseteq Z /\ Range(t) \subseteq Z
    OBVIOUS
  <2>2. a \in Seq(Range(a)) /\ b \in Seq(Range(b)) /\ t \in Seq(Range(t))
    BY DEF IsList
  <2> HIDE DEF Z
  <2>3. a \in Seq(Z)
    BY <2>1, <2>2, SeqMonotonic
  <2>4. b \in Seq(Z)
    BY <2>1, <2>2, SeqMonotonic
  <2>5. t \in Seq(Z)
    BY <2>1, <2>2, SeqMonotonic
  <2> QED
    BY <2>3, <2>4, <2>5
<1> HIDE DEF Z
<1>2. /\ c \in Seq(Z) /\ Len(c) = Len(a) + Len(b)
      /\ \A i \in 1..(Len(a) + Len(b)) : c[i] = IF i <= Len(a) THEN a[i] ELSE b[i - Len(a)]
  BY <1>1, ConcatProperties
<1>3. Len(a) \in Nat /\ Len(b) \in Nat /\ Len(t) \in Nat
  BY <1>1, LenProperties
<1>4. Len(c) <= Len(t) /\ SubSeq(c, 1, Len(c)) = SubSeq(t, 1, Len(c))
  BY DEF IsPrefix
<1> HIDE DEF c
<1> DEFINE n == Len(c)
           m == Len(a)
<1>5. SubSeq(c, 1, n) = c
  BY <1>2, SubSeqFull
<1>6. /\ m \in Int /\ n \in Int /\ m <= n /\ 0 <= m
      /\ (\A i \in 1..m : t[i] \in Z) /\ (\A i \in 1..n : t[i] \in Z)
      /\ m - 1 + 1 = m /\ n - 1 + 1 = n
  <2>1. \A i \in 1..Len(t) : t[i] \in Z
    BY <1>1, ElementOfSeq
  <2> QED
    BY <1>2, <1>3, <1>4, <2>1
<1> DEFINE C == SubSeq(t, 1, n)
           A == SubSeq(t, 1, m)
<1> HIDE DEF n, m
<1>7. \A i \in 1..(n - 1 + 1) : C[i] = t[1 + i - 1]
  BY <1>6, SubSeqProperties
<1>8. /\ A \in Seq(Z) /\ Len(A) = IF 1 <= m THEN m - 1 + 1 ELSE 0
      /\ \A i \in 1..(m - 1 + 1) : A[i] = t[1 + i - 1]
  BY <1>6, SubSeqProperties
<1> HIDE DEF A, C
<1>9. C = c
  BY <1>4, <1>5, Zenon DEF C, n
<1>10. ASSUME NEW i \in 1..m PROVE A[i] = a[i]
  <2>1. /\ i \in 1..(m - 1 + 1) /\ i \in 1..(n - 1 + 1) /\ 1 + i - 1 = i
        /\ i \in 1..(Len(a) + Len(b)) /\ i <= Len(a)
    BY <1>3, <1>6 DEF m
  <2>2. A[i] = t[i] /\ C[i] = t[i] /\ c[i] = a[i]
    BY <1>2, <1>7, <1>8, <2>1
  <2> QED
    BY <1>9, <2>2, Zenon
<1>11. Len(A) = m /\ Len(a) = m
  BY <1>6, <1>8 DEF m
<1>12. A = a
  BY <1>1, <1>8, <1>10, <1>11, SeqEqual
<1>13. SubSeq(a, 1, m) = a
  BY <1>1, SubSeqFull DEF m
<1>14. m <= Len(t)
  BY <1>3, <1>4, <1>6 DEF n
<1> QED
  BY <1>12, <1>13, <1>14, Zenon DEF IsPrefix, A, m

\* What the first frames of a body, without [DONE], say: a beginning of its text,
\* and all of it if they are all that come before [DONE].
LEMMA TextIsRelayed ==
  ASSUME NEW type \in Types, NEW body \in Bodies[type], NEW X, NEW P \in Seq(X), NEW R \in Seq(X),
         FramesIn(type, body.bytes) = P \o R, \A k \in 1..Len(P) : P[k] # Done
  PROVE  /\ IsPrefix(TextOf(P), body.text)
         /\ (R = <<>> \/ R[1] = Done) /\ body.streamed /\ type # "google_vertex_ai" =>
              TextOf(P) = body.text
<1> DEFINE told == P \o R
           Y == Range(told)
<1>1. /\ IsList(body.text) /\ \A f \in Y : IsList(TextOfFrame(f))
      /\ IsPrefix(TextOf(UpToDone(told)), body.text)
      /\ body.streamed /\ type # "google_vertex_ai" => TextOf(UpToDone(told)) = body.text
  BY BodiesAssumption
<1>2. P \in Seq(Y) /\ R \in Seq(Y)
  <2>1. IsList(P) /\ IsList(R)
    <3>1. IsList(P)
      BY SeqIsList
    <3>2. IsList(R)
      BY SeqIsList
    <3> QED
      BY <3>1, <3>2
  <2>2. Range(P) \subseteq Y /\ Range(R) \subseteq Y
    BY <2>1, ListsConcat
  <2> HIDE DEF Y
  <2>3. P \in Seq(Y)
    BY <2>1, <2>2, SeqMonotonic DEF IsList
  <2>4. R \in Seq(Y)
    BY <2>1, <2>2, SeqMonotonic DEF IsList
  <2> QED
    BY <2>3, <2>4
<1> HIDE DEF Y
<1>3. PICK Q \in Seq(Y) : UpToDone(told) = P \o Q /\ (R = <<>> \/ R[1] = Done => Q = <<>>)
  BY <1>2, UpToDoneConcat
<1>4. /\ IsList(TextOf(P)) /\ IsList(TextOf(Q)) /\ TextOf(P \o Q) = TextOf(P) \o TextOf(Q)
  BY <1>1, <1>2, TextConcat
<1> HIDE DEF told
<1>5. IsPrefix(TextOf(P) \o TextOf(Q), body.text)
  BY <1>1, <1>3, <1>4, Zenon
<1>6. IsPrefix(TextOf(P), body.text)
  BY <1>1, <1>4, <1>5, BeginsAsWell, Zenon
<1>7. ASSUME R = <<>> \/ R[1] = Done, body.streamed, type # "google_vertex_ai"
      PROVE  TextOf(P) = body.text
  <2>1. Q = <<>>
    BY <1>3, <1>7, Zenon
  <2>2. P \o <<>> = P
    BY ConcatEmptySeq
  <2> QED
    BY <1>1, <1>3, <1>7, <2>1, <2>2, Zenon
<1> QED
  BY <1>6, <1>7, Zenon
-----------------------------------------------------------------------------
(* Streams: the splitter.                                                  *)

\* What the client has got of a stream that is not over: frames without [DONE],
\* and what is left to come is the rest of what the body becomes in one piece.
Flowing(type, B, bytes, got, left) ==
  /\ left \in Seq(B) /\ got \in Seq(FramesFrom(type, B))
  /\ \A k \in 1..Len(got) : got[k] # Done
  /\ FramesIn(type, bytes) = got \o FramesIn(type, left)

\* ... and of one that is: a [DONE] after the first of them, after all of them if
\* no bytes are left.
Ceased(type, B, bytes, got, left) ==
  \E P \in Seq(FramesFrom(type, B)) : \E R \in Seq(FramesFrom(type, B)) :
    /\ got = Append(P, Done) /\ \A k \in 1..Len(P) : P[k] # Done
    /\ FramesIn(type, bytes) = P \o R
    /\ left = <<>> => R = <<>> \/ R[1] = Done

\* The bytes of the response are those of a body that the provider may send.
Answered(bytes) ==
  IF response = Nothing THEN bytes = <<>>
  ELSE source \in Types /\ response.body \in Bodies[source] /\ bytes = response.body.bytes

\* The inductive invariant of streams, relative to PInv: nothing flows before the
\* provider has answered; from then on Flowing or Ceased holds, with the bytes of
\* the splitter's buffer and of the wire as what is left.
SInv ==
  /\ flow \in {"off", "open", "closed"}
  /\ flow = "off" => wire = <<>> /\ buffer = <<>> /\ frames = <<>>
  /\ flow # "off" =>
       /\ stage = "streaming"
       /\ \E bytes : \E B :
            /\ Answered(bytes) /\ wire \in Seq(B) /\ buffer \in Seq(B)
            /\ flow = "open" => Flowing(source, B, bytes, frames, buffer \o wire)
            /\ flow = "closed" => Ceased(source, B, bytes, frames, buffer \o wire)

\* No bytes are no frames.
LEMMA NoFrames ==
  ASSUME NEW type
  PROVE  FramesIn(type, <<>>) = <<>>
<1> DEFINE none == <<>>
           p == PiecesOf(type, none)
<1>1. none \in Seq({}) /\ Len(none) = 0
  OBVIOUS
<1> HIDE DEF none
<1>2. p \in Seq(Seq(FramesFrom(type, {}))) /\ Len(p) = Len(none) /\ FramesIn(type, none) = FlattenSeq(p)
  BY <1>1, PiecesAreTold
<1> DEFINE Y == Seq(FramesFrom(type, {}))
<1> HIDE DEF p, Y
<1>3. p \in Seq(Y) /\ Len(p) = 0
  BY <1>1, <1>2 DEF Y
<1>4. p = <<>>
  BY <1>3, EmptySeq
<1> QED
  BY <1>2, <1>4, FlattenNone, Zenon DEF none

\* Where [DONE] is among some frames.
DoneIn(told) == {k \in DOMAIN told : told[k] = Done}

\* The frames of an event that goes to the client are those that come next.
LEMMA RelayFlows ==
  ASSUME NEW type, NEW B, NEW bytes, NEW got, NEW a \in Seq(B), NEW b \in Seq(B),
         Flowing(type, B, bytes, got, a \o b),
         FramesIn(type, a \o b) = FramesIn(type, a) \o FramesIn(type, b)
  PROVE  /\ DoneIn(FramesIn(type, a)) = {} => Flowing(type, B, bytes, got \o FramesIn(type, a), b)
         /\ DoneIn(FramesIn(type, a)) # {} =>
              Ceased(type, B, bytes,
                     got \o SubSeq(FramesIn(type, a), 1, Min(DoneIn(FramesIn(type, a)))), b)
<1> DEFINE X == FramesFrom(type, B)
           told == FramesIn(type, a)
           rest == FramesIn(type, b)
           done == DoneIn(told)
<1>1. told \in Seq(X)
  BY PiecesAreTold
<1>2. rest \in Seq(X)
  BY PiecesAreTold
<1>3. /\ got \in Seq(X) /\ \A k \in 1..Len(got) : got[k] # Done
      /\ FramesIn(type, bytes) = got \o (told \o rest)
  BY Zenon DEF Flowing
<1>4. PICK P \in Seq(X) :
        /\ \A k \in 1..Len(P) : P[k] # Done
        /\ done = {} => P = told
        /\ done # {} => /\ Done \in X /\ SubSeq(told, 1, Min(done)) = Append(P, Done)
                        /\ \E R \in Seq(X) : told = P \o R /\ R # <<>> /\ R[1] = Done
  BY <1>1, DoneSplits, Zenon DEF DoneIn
<1> HIDE DEF X, told, rest, done
<1> DEFINE G == got \o P
<1>5. G \in Seq(X) /\ \A k \in 1..Len(G) : G[k] # Done
  <2>1. /\ G \in Seq(X) /\ Len(G) = Len(got) + Len(P)
        /\ \A i \in 1..(Len(got) + Len(P)) : G[i] = IF i <= Len(got) THEN got[i] ELSE P[i - Len(got)]
    BY <1>3, ConcatProperties
  <2>2. Len(got) \in Nat /\ Len(P) \in Nat
    BY <1>3, LenProperties
  <2> HIDE DEF G
  <2>3. ASSUME NEW k \in 1..Len(G) PROVE G[k] # Done
    <3>1. CASE k <= Len(got)
      <4>1. G[k] = got[k] /\ k \in 1..Len(got)
        BY <2>1, <2>2, <3>1
      <4> QED
        BY <1>3, <4>1
    <3>2. CASE ~(k <= Len(got))
      <4>1. G[k] = P[k - Len(got)] /\ k - Len(got) \in 1..Len(P)
        BY <2>1, <2>2, <3>2
      <4> QED
        BY <1>4, <4>1
    <3> QED
      BY <3>1, <3>2
  <2> QED
    BY <2>1, <2>3
<1>6. ASSUME done = {} PROVE Flowing(type, B, bytes, got \o told, b)
  <2>1. got \o told = G
    BY <1>4, <1>6, Zenon
  <2>2. (got \o told) \o rest = got \o (told \o rest)
    BY <1>1, <1>2, <1>3, Regroup, SMTT(90)
  <2>3. FramesIn(type, bytes) = (got \o told) \o FramesIn(type, b)
    BY <1>3, <2>2, Zenon DEF rest
  <2>4. G \in Seq(FramesFrom(type, B)) /\ FramesIn(type, bytes) = G \o FramesIn(type, b)
    BY <1>5, <2>1, <2>3, Zenon DEF X
  <2>5. Flowing(type, B, bytes, G, b)
    <3> HIDE DEF G
    <3> QED
      BY <1>5, <2>4, Zenon DEF Flowing
  <2> QED
    BY <2>1, <2>5, Zenon
<1>7. ASSUME done # {}
      PROVE  Ceased(type, B, bytes, got \o SubSeq(told, 1, Min(done)), b)
  <2>1. PICK R \in Seq(X) : told = P \o R /\ R # <<>> /\ R[1] = Done
    BY <1>4, <1>7
  <2>2. Done \in X /\ SubSeq(told, 1, Min(done)) = Append(P, Done)
    BY <1>4, <1>7
  <2> DEFINE S == R \o rest
  <2>3. S \in Seq(X) /\ S[1] = Done
    <3>1. /\ S \in Seq(X)
          /\ \A i \in 1..(Len(R) + Len(rest)) : S[i] = IF i <= Len(R) THEN R[i] ELSE rest[i - Len(R)]
      BY <1>2, ConcatProperties
    <3>2. Len(R) \in Nat /\ Len(rest) \in Nat /\ Len(R) # 0
      <4>1. Len(R) \in Nat /\ Len(rest) \in Nat
        BY <1>2, LenProperties
      <4> QED
        BY <2>1, <4>1, EmptySeq
    <3> HIDE DEF S
    <3>3. 1 \in 1..(Len(R) + Len(rest)) /\ 1 <= Len(R)
      BY <3>2
    <3> QED
      BY <2>1, <3>1, <3>3
  <2>4. got \o (told \o rest) = G \o S
    <3>1. (P \o R) \o rest = P \o S
      <4>1. (P \o R) \o rest = P \o (R \o rest)
        <5>1. P \in Seq(X) /\ R \in Seq(X) /\ rest \in Seq(X)
          BY <1>2
        <5> QED
          BY <5>1, Regroup, SMTT(30)
      <4> QED
        BY <4>1, Zenon DEF S
    <3>2. (got \o P) \o S = got \o (P \o S)
      <4> HIDE DEF S
      <4> QED
        <5>1. got \in Seq(X) /\ P \in Seq(X) /\ S \in Seq(X)
          BY <1>3, <2>3
        <5> QED
          BY <5>1, Regroup, SMTT(90)
    <3> QED
      BY <2>1, <3>1, <3>2, Zenon
  <2>5. got \o SubSeq(told, 1, Min(done)) = Append(G, Done)
    <3>1. Append(P, Done) = P \o <<Done>>
      BY <2>2, AppendIsConcat
    <3>2. Append(G, Done) = G \o <<Done>>
      <4> HIDE DEF G
      <4> QED
        BY <1>5, <2>2, AppendIsConcat
    <3>3. (got \o P) \o <<Done>> = got \o (P \o <<Done>>)
      <4> DEFINE one == <<Done>>
      <4>1. one \in Seq(X)
        BY <2>2
      <4> HIDE DEF one
      <4>2. got \in Seq(X) /\ P \in Seq(X) /\ one \in Seq(X)
        BY <1>3, <4>1
      <4>3. (got \o P) \o one = got \o (P \o one)
        BY <4>2, Regroup, SMTT(60)
      <4> QED
        BY <4>3, Zenon DEF one
    <3> QED
      BY <2>2, <3>1, <3>2, <3>3, Zenon
  <2>6. G \in Seq(FramesFrom(type, B)) /\ S \in Seq(FramesFrom(type, B))
    BY <1>5, <2>3, Zenon DEF X
  <2>7. FramesIn(type, bytes) = G \o S
    BY <1>3, <2>4, Zenon
  <2> HIDE DEF G, S
  <2> QED
    BY <1>5, <2>3, <2>5, <2>6, <2>7, Zenon DEF Ceased
<1> QED
  BY <1>6, <1>7, Zenon DEF told, done

\* There is no stream yet.
LEMMA SInvInit == Init => SInv
<1> SUFFICES ASSUME Init PROVE SInv
  OBVIOUS
<1> QED
  BY DEF Init, StreamInit, SInv

\* A provider's answer, whole or in pieces, or none at all.
LEMMA AwaitStarts == PInv /\ SInv /\ Await => SInv'
<1> SUFFICES ASSUME PInv, SInv, Await PROVE SInv'
  OBVIOUS
<1>1. ASSUME stage' = "streaming", wire = <<>>, buffer = <<>>, frames = <<>>,
             NEW bytes, IsList(bytes), Answered(bytes)', Open(provider.type, bytes)
      PROVE  SInv'
  <2> DEFINE B == Range(bytes)
             X == FramesFrom(provider.type, B)
             none == <<>>
  <2>1. /\ wire' = bytes /\ source' = provider.type /\ flow' = "open"
        /\ buffer' = none /\ frames' = none
    BY <1>1 DEF Open
  <2>2. bytes \in Seq(B)
    BY <1>1 DEF IsList
  <2>3. none \in Seq(B) /\ none \in Seq(X) /\ Len(none) = 0
    OBVIOUS
  <2>4. none \o bytes = bytes
    <3> HIDE DEF B
    <3> QED
      BY <2>2, ConcatEmptySeq
  <2>5. FramesIn(provider.type, bytes) \in Seq(X)
    <3> HIDE DEF B
    <3> QED
      BY <2>2, PiecesAreTold
  <2>6. none \o FramesIn(provider.type, bytes) = FramesIn(provider.type, bytes)
    <3> HIDE DEF X
    <3> QED
      BY <2>5, ConcatEmptySeq
  <2>7. \A k \in 1..Len(none) : none[k] # Done
    BY <2>3
  <2> HIDE DEF none, B
  <2>8. Flowing(provider.type, B, bytes, none, none \o bytes)
    BY <2>2, <2>3, <2>4, <2>6, <2>7, Zenon DEF Flowing
  <2>9. /\ Answered(bytes)' /\ wire' \in Seq(B) /\ buffer' \in Seq(B)
        /\ Flowing(source', B, bytes, frames', buffer' \o wire')
    BY <1>1, <2>1, <2>2, <2>3, <2>8, Zenon
  <2>10. flow' = "open" /\ flow' # "off" /\ flow' # "closed"
    BY <2>1
  <2> QED
    BY <1>1, <2>9, <2>10, Zenon DEF SInv
<1>2. CASE stage = "sent" /\ UNCHANGED streamVars
  <2>1. flow = "off" /\ flow' = "off" /\ wire' = <<>> /\ buffer' = <<>> /\ frames' = <<>>
    BY <1>2 DEF SInv, streamVars
  <2> QED
    BY <2>1 DEF SInv
<1>3. CASE RefuseStream
  <2> DEFINE none == <<>>
  <2>1. stage' = "streaming" /\ wire = <<>> /\ buffer = <<>> /\ frames = <<>>
          /\ Open(provider.type, none) /\ Answered(none)'
    BY <1>3 DEF RefuseStream, Open, SInv, Answered
  <2>2. IsList(none)
    <3>1. none \in Seq({})
      OBVIOUS
    <3> QED
      BY <3>1, SeqIsList
  <2> HIDE DEF none
  <2> QED
    BY <1>1, <2>1, <2>2, Zenon
<1>4. ASSUME NEW body \in Bodies[provider.type], StartStream(body) PROVE SInv'
  <2>1. stage' = "streaming" /\ wire = <<>> /\ buffer = <<>> /\ frames = <<>>
          /\ Open(provider.type, body.bytes) /\ source' = provider.type
          /\ response' = [type |-> provider.type, body |-> body]
    BY <1>4 DEF StartStream, Open, SInv
  <2>2. provider.type \in Types
    BY DEF PInv, WellReplied
  <2>3. IsList(body.bytes)
    BY <2>2, BodiesAssumption
  <2>4. response' # Nothing
    <3>1. "type" \in DOMAIN response' /\ "type" \notin DOMAIN Nothing
      BY <2>1 DEF Nothing
    <3> QED
      BY <3>1, Zenon
  <2>5. response'.body = body
    BY <2>1
  <2>6. Answered(body.bytes)'
    BY <1>4, <2>1, <2>2, <2>4, <2>5, Zenon DEF Answered
  <2> QED
    BY <1>1, <2>1, <2>3, <2>6
<1>5. Fail => stage = "sent" /\ UNCHANGED streamVars
  BY DEF Fail
<1>6. (\E body \in Responses[provider.type] : Receive(body)) => stage = "sent" /\ UNCHANGED streamVars
  BY DEF Receive
<1> QED
  BY <1>2, <1>3, <1>4, <1>5, <1>6 DEF Await

\* The splitter and the translation of a stream.
LEMMA StreamFlows == SInv /\ Stream => SInv'
<1> SUFFICES ASSUME SInv, Stream PROVE SInv'
  OBVIOUS
<1>0. flow = "open" /\ stage' = stage /\ response' = response /\ source' = source
  BY DEF Stream, StreamStep, Emit, Arrive, Flush, End, Break, chatVars
<1>1. PICK bytes, B :
        /\ Answered(bytes) /\ wire \in Seq(B) /\ buffer \in Seq(B)
        /\ Flowing(source, B, bytes, frames, buffer \o wire)
  BY <1>0 DEF SInv
<1>2. stage' = "streaming" /\ Answered(bytes)'
  BY <1>0, <1>1 DEF SInv, Answered
<1>3. ASSUME wire' \in Seq(B), buffer' \in Seq(B), flow' = "open",
             Flowing(source, B, bytes, frames', buffer' \o wire')
      PROVE  SInv'
  <2>1. flow' # "off" /\ flow' # "closed" /\ flow' \in {"off", "open", "closed"}
    BY <1>3
  <2> QED
    BY <1>0, <1>2, <1>3, <2>1, Zenon DEF SInv
<1>4. ASSUME wire' \in Seq(B), buffer' \in Seq(B), flow' = "closed",
             Ceased(source, B, bytes, frames', buffer' \o wire')
      PROVE  SInv'
  <2>1. flow' # "off" /\ flow' # "open" /\ flow' \in {"off", "open", "closed"}
    BY <1>4
  <2> QED
    BY <1>0, <1>2, <1>4, <2>1, Zenon DEF SInv
\* An event a goes to the client, and b is left.
<1>5. ASSUME NEW a \in Seq(B), NEW b \in Seq(B), buffer \o wire = a \o b,
             b = <<>> \/ (a # <<>> => a[Len(a)] = LF),
             Relay(FramesIn(source, a)), wire' \in Seq(B), buffer' \in Seq(B), buffer' \o wire' = b
      PROVE  SInv'
  <2> DEFINE told == FramesIn(source, a)
             done == DoneIn(told)
  <2>1. FramesIn(source, a \o b) = FramesIn(source, a) \o FramesIn(source, b)
    <3>1. CASE b = <<>>
      <4>1. a \o <<>> = a
        BY ConcatEmptySeq
      <4>2. told \in Seq(FramesFrom(source, B))
        BY PiecesAreTold
      <4> HIDE DEF told
      <4>3. told \o <<>> = told
        BY <4>2, ConcatEmptySeq
      <4>4. FramesIn(source, <<>>) = <<>>
        BY NoFrames
      <4> QED
        BY <3>1, <4>1, <4>3, <4>4, Zenon DEF told
    <3>2. CASE a # <<>> => a[Len(a)] = LF
      BY <3>2, FramesConcat
    <3> QED
      BY <1>5, <3>1, <3>2
  <2>2. /\ done = {} => Flowing(source, B, bytes, frames \o told, b)
        /\ done # {} => Ceased(source, B, bytes, frames \o SubSeq(told, 1, Min(done)), b)
    <3>1. Flowing(source, B, bytes, frames, a \o b)
      BY <1>1, <1>5, Zenon
    <3> QED
      BY <2>1, <3>1, RelayFlows, Zenon
  <2>3. /\ frames' = frames \o (IF done = {} THEN told ELSE SubSeq(told, 1, Min(done)))
        /\ flow' = IF done = {} THEN "open" ELSE "closed"
    BY <1>5, Zenon DEF Relay, DoneIn
  <2> HIDE DEF told, done
  <2> QED
    BY <1>3, <1>4, <1>5, <2>2, <2>3, Zenon
<1>6. ASSUME frames' = Append(frames, Done), flow' = "closed", UNCHANGED <<wire, buffer>>
      PROVE  SInv'
  <2> DEFINE X == FramesFrom(source, B)
             left == buffer \o wire
             R == FramesIn(source, left)
  <2>1. left \in Seq(B) /\ frames \in Seq(X) /\ (\A k \in 1..Len(frames) : frames[k] # Done)
          /\ FramesIn(source, bytes) = frames \o R
    BY <1>1, Zenon DEF Flowing
  <2> HIDE DEF left
  <2>2. R \in Seq(X)
    BY <2>1, PiecesAreTold
  <2>3. left = <<>> => R = <<>>
    BY NoFrames, Zenon
  <2>4. Ceased(source, B, bytes, frames', left)
    BY <1>6, <2>1, <2>2, <2>3, Zenon DEF Ceased
  <2> QED
    BY <1>1, <1>4, <1>6, <2>4, Zenon DEF left
<1>7. CASE Emit
  <2>1. PICK i \in Boundaries(buffer) :
          /\ Relay(FramesIn(source, SubSeq(buffer, 1, i + 1)))
          /\ buffer' = SubSeq(buffer, i + 2, Len(buffer))
    BY <1>7 DEF Emit
  <2>2. wire' = wire
    BY <1>7 DEF Emit
  <2> DEFINE a == SubSeq(buffer, 1, i + 1)
             c == SubSeq(buffer, i + 2, Len(buffer))
  <2>3. i \in 1..(Len(buffer) - 1) /\ buffer[i + 1] = LF /\ Len(buffer) \in Nat
        /\ \A j \in 1..Len(buffer) : buffer[j] \in B
    BY <1>1, LenProperties, ElementOfSeq DEF Boundaries
  <2>4. a \in Seq(B) /\ a # <<>> /\ a[Len(a)] = LF
    <3>1. /\ 1 \in Int /\ i + 1 \in Int /\ \A j \in 1..(i + 1) : buffer[j] \in B
          /\ 1 <= i + 1 /\ i + 1 - 1 + 1 = i + 1 /\ 1 + (i + 1) - 1 = i + 1 /\ i + 1 \in 1..(i + 1)
          /\ i + 1 # 0
      BY <2>3
    <3> DEFINE e == i + 1
    <3>2. /\ a \in Seq(B)
          /\ Len(a) = IF 1 <= e THEN e - 1 + 1 ELSE 0
          /\ \A j \in 1..(e - 1 + 1) : a[j] = buffer[1 + j - 1]
      <4>1. 1 \in Int /\ e \in Int /\ \A j \in 1..e : buffer[j] \in B
        BY <3>1
      <4> HIDE DEF e
      <4>2. /\ SubSeq(buffer, 1, e) \in Seq(B)
            /\ Len(SubSeq(buffer, 1, e)) = IF 1 <= e THEN e - 1 + 1 ELSE 0
            /\ \A j \in 1..(e - 1 + 1) : SubSeq(buffer, 1, e)[j] = buffer[1 + j - 1]
        BY <4>1, SubSeqProperties
      <4> QED
        BY <4>2 DEF e
    <3> HIDE DEF a
    <3>3. Len(a) = i + 1 /\ a[i + 1] = buffer[i + 1]
      BY <3>1, <3>2
    <3>4. Len(<<>>) = 0
      OBVIOUS
    <3> QED
      BY <2>3, <3>1, <3>2, <3>3, <3>4
  <2>5. c \in Seq(B)
    <3>1. i + 2 \in Int /\ Len(buffer) \in Int /\ \A j \in (i + 2)..Len(buffer) : buffer[j] \in B
      BY <2>3
    <3> QED
      BY <3>1, SubSeqProperties
  <2>6. buffer \o wire = a \o (c \o wire)
    <3>1. 1 \in 1..(Len(buffer) + 1) /\ i + 1 \in (1 - 1)..Len(buffer)
            /\ Len(buffer) \in (i + 1)..Len(buffer) /\ (i + 1) + 1 = i + 2
      BY <2>3
    <3>2. SubSeq(buffer, 1, i + 1) \o SubSeq(buffer, (i + 1) + 1, Len(buffer))
            = SubSeq(buffer, 1, Len(buffer))
      BY <1>1, <3>1, ConcatAdjacentSubSeq
    <3>3. SubSeq(buffer, 1, Len(buffer)) = buffer
      BY <1>1, SubSeqFull
    <3>4. a \o c = buffer
      BY <3>1, <3>2, <3>3, Zenon
    <3> HIDE DEF a, c
    <3>5. a \in Seq(B) /\ c \in Seq(B) /\ wire \in Seq(B)
      BY <1>1, <2>4, <2>5
    <3>6. (a \o c) \o wire = a \o (c \o wire)
      BY <3>5, Regroup
    <3> QED
      BY <3>4, <3>6, Zenon
  <2> DEFINE b == c \o wire
  <2> HIDE DEF a, c
  <2>7. b \in Seq(B)
    BY <1>1, <2>5, ConcatProperties
  <2>8. Relay(FramesIn(source, a)) /\ buffer' = c
    BY <2>1 DEF a, c
  <2> QED
    BY <1>1, <1>5, <2>2, <2>4, <2>5, <2>6, <2>7, <2>8, Zenon
<1>8. ASSUME NEW n \in 1..Len(wire), Arrive(n) PROVE SInv'
  <2> DEFINE a == SubSeq(wire, 1, n)
             b == SubSeq(wire, n + 1, Len(wire))
  <2>1. /\ buffer' = buffer \o a /\ wire' = b /\ frames' = frames /\ flow' = "open"
    BY <1>0, <1>8 DEF Arrive
  <2>2. n \in Int /\ Len(wire) \in Nat /\ \A j \in 1..Len(wire) : wire[j] \in B
    BY <1>1, LenProperties, ElementOfSeq
  <2>3. a \in Seq(B)
    <3>1. 1 \in Int /\ n \in Int /\ \A j \in 1..n : wire[j] \in B
      BY <2>2
    <3> QED
      BY <3>1, SubSeqProperties
  <2>4. b \in Seq(B)
    <3>1. n + 1 \in Int /\ Len(wire) \in Int /\ \A j \in (n + 1)..Len(wire) : wire[j] \in B
      BY <2>2
    <3> QED
      BY <3>1, SubSeqProperties
  <2>5. a \o b = wire
    <3>1. 1 \in 1..(Len(wire) + 1) /\ n \in (1 - 1)..Len(wire) /\ Len(wire) \in n..Len(wire)
      BY <2>2
    <3>2. SubSeq(wire, 1, n) \o SubSeq(wire, n + 1, Len(wire)) = SubSeq(wire, 1, Len(wire))
      BY <1>1, <3>1, ConcatAdjacentSubSeq
    <3>3. SubSeq(wire, 1, Len(wire)) = wire
      BY <1>1, SubSeqFull
    <3> QED
      BY <3>2, <3>3, Zenon
  <2> HIDE DEF a, b
  <2>6. (buffer \o a) \o b = buffer \o (a \o b) /\ buffer \o a \in Seq(B)
    <3>1. buffer \in Seq(B) /\ a \in Seq(B) /\ b \in Seq(B)
      BY <1>1, <2>3, <2>4
    <3>2. (buffer \o a) \o b = buffer \o (a \o b)
      BY <3>1, Regroup
    <3>3. buffer \o a \in Seq(B)
      BY <3>1, ConcatProperties
    <3> QED
      BY <3>2, <3>3, Zenon
  <2>7. buffer' \o wire' = buffer \o wire
    BY <2>1, <2>5, <2>6, Zenon
  <2>8. Flowing(source, B, bytes, frames', buffer' \o wire')
    BY <1>1, <2>1, <2>7, Zenon
  <2> QED
    BY <1>3, <2>1, <2>4, <2>6, <2>8, Zenon
<1>9. CASE Flush
  <2> DEFINE none == <<>>
  <2>1. Relay(FramesIn(source, buffer)) /\ wire' = wire /\ wire = none /\ buffer' = none
    BY <1>9 DEF Flush
  <2>2. none \in Seq(B)
    OBVIOUS
  <2>3. none \o none = none
    BY <2>2, ConcatEmptySeq
  <2>5. buffer \o wire = buffer \o none
    BY <2>1, Zenon
  <2> QED
    BY <1>1, <1>5, <2>1, <2>2, <2>3, <2>5, Zenon
<1>10. CASE End \/ Break
  <2>1. frames' = Append(frames, Done) /\ flow' = "closed" /\ UNCHANGED <<wire, buffer>>
    BY <1>10 DEF End, Break
  <2> QED
    BY <1>6, <2>1
<1> QED
  BY <1>7, <1>8, <1>9, <1>10 DEF Stream, StreamStep

\* The stream starts in its stage, flows, and ends with it.
LEMMA SInvNext == PInv /\ SInv /\ [Next]_vars => SInv'
<1> SUFFICES ASSUME PInv, SInv, [Next]_vars PROVE SInv'
  OBVIOUS
<1>1. CASE stage # "streaming" /\ UNCHANGED streamVars
  <2>1. flow = "off" /\ flow' = "off" /\ wire' = <<>> /\ buffer' = <<>> /\ frames' = <<>>
    BY <1>1 DEF SInv, streamVars
  <2> QED
    BY <2>1 DEF SInv
<1>2. CASE Await
  BY <1>2, AwaitStarts
<1>3. CASE Stream
  BY <1>3, StreamFlows
<1>4. CASE Close
  BY <1>4 DEF Close, SInv
<1>5. CASE UNCHANGED <<chatVars, streamVars>>
  BY <1>5 DEF chatVars, streamVars, SInv, Answered
<1>6. \/ stage # "streaming" /\ UNCHANGED streamVars
      \/ Await \/ Stream \/ Close \/ UNCHANGED <<chatVars, streamVars>>
  BY DEF Next, vars, Ask, CompactContext, TokenFails, Send, Continue, AskForEmbeddings, Embed
<1> QED
  BY <1>1, <1>2, <1>3, <1>4, <1>5, <1>6

\* [DONE] says nothing.
LEMMA DoneIsSilent ==
  ASSUME NEW X, \A f \in X : IsList(TextOfFrame(f)), NEW P \in Seq(X)
  PROVE  TextOf(Append(P, Done)) = TextOf(P)
<1> DEFINE Y == X \cup {Done}
           one == <<Done>>
           none == <<>>
<1>1. TextOfFrame(Done) = none
  BY DEF TextOfFrame
<1>2. IsList(none) /\ none \in Seq({})
  <2>1. none \in Seq({})
    OBVIOUS
  <2> QED
    BY <2>1, SeqIsList
<1>3. \A f \in Y : IsList(TextOfFrame(f))
  BY <1>1, <1>2
<1>4. P \in Seq(Y) /\ one \in Seq(Y) /\ Done \in Y
  <2>1. X \subseteq Y
    OBVIOUS
  <2>2. P \in Seq(Y)
    <3> HIDE DEF Y
    <3> QED
      BY <2>1, SeqMonotonic
  <2> QED
    BY <2>2
<1>5. TextOf(one) = none
  <2> DEFINE f == [k \in DOMAIN one |-> TextOfFrame(one[k])]
             g == <<none>>
  <2>1. f = g
    BY <1>1
  <2>2. FlattenSeq(g) = none
    BY <1>2, FlattenOne
  <2>3. TextOf(one) = FlattenSeq(f)
    BY Zenon DEF TextOf
  <2> QED
    BY <2>1, <2>2, <2>3, Zenon
<1> HIDE DEF Y
<1>6. Append(P, Done) = P \o one
  BY <1>4, AppendIsConcat
<1> HIDE DEF one, none
<1>7. /\ IsList(TextOf(P)) /\ TextOf(P \o one) = TextOf(P) \o TextOf(one)
  BY <1>3, <1>4, TextConcat
<1>8. TextOf(P) \o none = TextOf(P)
  BY <1>7, ConcatEmptySeq DEF IsList, none
<1> QED
  BY <1>5, <1>6, <1>7, <1>8, Zenon

\* What the client has got carries a beginning of the text, and ends with the
\* only [DONE] if the stream is over.
LEMMA SInvRelays == SInv => StreamIsRelayed
<1> SUFFICES ASSUME SInv, flow # "off"
             PROVE  LET told == TextOf(frames)
                        text == IF response = Nothing THEN <<>> ELSE response.body.text
                        whole == response # Nothing /\ response.body.streamed
                                   /\ source # "google_vertex_ai"
                    IN /\ IsPrefix(told, text)
                       /\ flow = "closed" /\ wire = <<>> /\ buffer = <<>> /\ whole => told = text
                       /\ \A k \in DOMAIN frames :
                            frames[k] = Done <=> k = Len(frames) /\ flow = "closed"
  BY DEF StreamIsRelayed
<1> DEFINE told == TextOf(frames)
           text == IF response = Nothing THEN <<>> ELSE response.body.text
           whole == response # Nothing /\ response.body.streamed /\ source # "google_vertex_ai"
           over == flow = "closed"
<1> SUFFICES /\ IsPrefix(told, text)
             /\ over /\ wire = <<>> /\ buffer = <<>> /\ whole => told = text
             /\ \A k \in DOMAIN frames : frames[k] = Done <=> k = Len(frames) /\ over
  BY Zenon
<1>1. PICK bytes, B :
        /\ Answered(bytes) /\ wire \in Seq(B) /\ buffer \in Seq(B)
        /\ flow = "open" => Flowing(source, B, bytes, frames, buffer \o wire)
        /\ flow = "closed" => Ceased(source, B, bytes, frames, buffer \o wire)
  BY DEF SInv
<1> DEFINE X == FramesFrom(source, B)
           left == buffer \o wire
<1>2. left \in Seq(B) /\ (wire = <<>> /\ buffer = <<>> => left = <<>>)
  <2>1. left \in Seq(B)
    BY <1>1, ConcatProperties
  <2> DEFINE none == <<>>
  <2>2. none \o none = none
    <3>1. none \in Seq(B)
      OBVIOUS
    <3> QED
      BY <3>1, ConcatEmptySeq
  <2> QED
    BY <2>1, <2>2, Zenon
<1>3. \E P \in Seq(X) : \E R \in Seq(X) :
        /\ \A k \in 1..Len(P) : P[k] # Done
        /\ frames = IF over THEN Append(P, Done) ELSE P
        /\ FramesIn(source, bytes) = P \o R
        /\ over /\ left = <<>> => R = <<>> \/ R[1] = Done
  <2>1. CASE over
    BY <1>1, <2>1, Zenon DEF Ceased
  <2>2. CASE ~over
    <3>1. flow = "open"
      BY <2>2 DEF SInv
    <3>2. /\ frames \in Seq(X) /\ \A k \in 1..Len(frames) : frames[k] # Done
          /\ FramesIn(source, bytes) = frames \o FramesIn(source, left)
      BY <1>1, <3>1, Zenon DEF Flowing
    <3> HIDE DEF left
    <3>3. FramesIn(source, left) \in Seq(X)
      BY <1>2, PiecesAreTold
    <3> QED
      BY <2>2, <3>2, <3>3, Zenon
  <2> QED
    BY <2>1, <2>2
<1> HIDE DEF left, X
<1>4. PICK P \in Seq(X), R \in Seq(X) :
        /\ \A k \in 1..Len(P) : P[k] # Done
        /\ frames = IF over THEN Append(P, Done) ELSE P
        /\ FramesIn(source, bytes) = P \o R
        /\ over /\ left = <<>> => R = <<>> \/ R[1] = Done
  BY <1>3
<1>5. Done \in X
  BY DEF X, FramesFrom
<1> DEFINE Tells == /\ IsPrefix(told, text)
                    /\ over /\ wire = <<>> /\ buffer = <<>> /\ whole => told = text
<1>6. ASSUME response = Nothing PROVE Tells
  <2>1. P \o R = <<>>
    BY <1>1, <1>4, <1>6, NoFrames DEF Answered
  <2> DEFINE none == <<>>
             Y == {}
  <2>2. P = none
    <3>1. \A s, t \in Seq(X) : s \o t = <<>> => s = <<>> /\ t = <<>>
      BY ConcatSimplifications!concIsEmpty
    <3> QED
      BY <2>1, <3>1
  <2>3. (\A f \in Y : IsList(TextOfFrame(f))) /\ none \in Seq(Y)
    OBVIOUS
  <2>4. TextOf(none) = none
    BY FlattenNone DEF TextOf
  <2>5. IsPrefix(none, none)
    BY DEF IsPrefix
  <2> HIDE DEF Y, none
  <2>6. TextOf(Append(none, Done)) = TextOf(none)
    BY <2>3, DoneIsSilent
  <2>7. told = none
    BY <1>4, <2>2, <2>4, <2>6, Zenon
  <2>8. text = none
    BY <1>6 DEF none
  <2>9. IsPrefix(told, text) /\ ~whole
    BY <1>6, <2>5, <2>7, <2>8, Zenon
  <2> QED
    BY <2>9
<1>7. ASSUME response # Nothing PROVE Tells
  <2> DEFINE body == response.body
             Y == Range(P \o R)
  <2>1. source \in Types /\ body \in Bodies[source] /\ FramesIn(source, body.bytes) = P \o R
          /\ text = body.text
    BY <1>1, <1>4, <1>7, Zenon DEF Answered
  <2>2. \A f \in Y : IsList(TextOfFrame(f))
    BY <2>1, BodiesAssumption
  <2>3. P \in Seq(Y)
    <3>1. IsList(P)
      BY SeqIsList
    <3>2. IsList(R)
      BY SeqIsList
    <3>3. Range(P) \subseteq Y
      BY <3>1, <3>2, ListsConcat
    <3> HIDE DEF Y
    <3> QED
      BY <3>1, <3>3, SeqMonotonic DEF IsList
  <2> HIDE DEF Y, body, text
  <2>4. TextOf(Append(P, Done)) = TextOf(P)
    BY <2>2, <2>3, DoneIsSilent
  <2>5. told = TextOf(P)
    BY <1>4, <2>4, Zenon
  <2>6. /\ IsPrefix(TextOf(P), body.text)
        /\ (R = <<>> \/ R[1] = Done) /\ body.streamed /\ source # "google_vertex_ai" =>
             TextOf(P) = body.text
    BY <1>4, <2>1, TextIsRelayed
  <2>7. IsPrefix(told, text)
    BY <2>1, <2>5, <2>6, Zenon
  <2>8. ASSUME over, wire = <<>>, buffer = <<>>, whole PROVE told = text
    <3>1. R = <<>> \/ R[1] = Done
      BY <1>2, <1>4, <2>8, Zenon
    <3> QED
      BY <2>1, <2>5, <2>6, <2>8, <3>1, Zenon DEF body
  <2> QED
    BY <2>7, <2>8
<1>8. \A k \in DOMAIN frames : frames[k] = Done <=> k = Len(frames) /\ over
  <2>1. DOMAIN P = 1..Len(P) /\ Len(P) \in Nat
    BY LenProperties
  <2>2. CASE ~over
    BY <1>4, <2>1, <2>2
  <2>3. CASE over
    <3>1. /\ Append(P, Done) \in Seq(X) /\ Len(Append(P, Done)) = Len(P) + 1
          /\ \A i \in 1..Len(P) : Append(P, Done)[i] = P[i]
          /\ Append(P, Done)[Len(P) + 1] = Done
      BY <1>5, AppendProperties
    <3> DEFINE t == Append(P, Done)
    <3>2. frames = t
      BY <1>4, <2>3
    <3> HIDE DEF t
    <3>3. DOMAIN t = 1..Len(t)
      BY <3>1, LenProperties DEF t
    <3>4. Len(t) = Len(P) + 1 /\ (\A i \in 1..Len(P) : t[i] # Done) /\ t[Len(P) + 1] = Done
      BY <1>4, <3>1 DEF t
    <3> QED
      BY <2>1, <2>3, <3>2, <3>3, <3>4
  <2> QED
    BY <2>2, <2>3
<1> QED
  BY <1>6, <1>7, <1>8, Zenon

\* However the provider's bytes are cut into reads, and wherever the stream
\* breaks: the client gets a beginning of the provider's text, in order and
\* nothing twice, and all of it (except from Gemini) if the stream ended and the
\* payload had asked for one; and exactly one [DONE], as the last frame, when and
\* only when the stream is over.
THEOREM RelaysTheStream == Spec => []StreamIsRelayed
<1>1. Init => PInv /\ SInv
  BY PInvInit, SInvInit
<1>2. PInv /\ SInv /\ [Next]_vars => (PInv /\ SInv)'
  BY PInvNext, SInvNext
<1> QED
  BY <1>1, <1>2, SInvRelays, PTL DEF Spec
-----------------------------------------------------------------------------
(* The work runs out.                                                      *)

\* A poll of the body reads from the wire, or passes on what was read, or ends.
LEMMA StreamRunsOut ==
  ASSUME SInv, [Next]_vars, flow = "open", streamVars' # streamVars
  PROVE  StreamLeft' \in 0..(StreamLeft - 1)
<1>1. PICK B : wire \in Seq(B) /\ buffer \in Seq(B)
  BY DEF SInv
<1>2. Len(wire) \in Nat /\ Len(buffer) \in Nat
  BY <1>1, LenProperties
<1>3. StreamLeft = 2 * Len(wire) + Len(buffer) + 1
  BY DEF StreamLeft
<1>4. ASSUME flow' # "open" PROVE StreamLeft' \in 0..(StreamLeft - 1)
  BY <1>2, <1>3, <1>4 DEF StreamLeft
<1>5. ASSUME Len(wire') \in Nat, Len(buffer') \in Nat,
             2 * Len(wire') + Len(buffer') < 2 * Len(wire) + Len(buffer)
      PROVE  StreamLeft' \in 0..(StreamLeft - 1)
  <2>1. CASE flow' = "open"
    <3>1. StreamLeft' = 2 * Len(wire') + Len(buffer') + 1
      BY <2>1 DEF StreamLeft
    <3> QED
      BY <1>2, <1>3, <1>5, <3>1
  <2> QED
    BY <1>4, <2>1
<1>6. CASE Close
  BY <1>4, <1>6 DEF Close
<1>7. CASE Emit
  <2>1. PICK i \in Boundaries(buffer) : buffer' = SubSeq(buffer, i + 2, Len(buffer))
    BY <1>7 DEF Emit
  <2>2. wire' = wire /\ i \in 1..(Len(buffer) - 1)
    BY <1>7, <2>1 DEF Emit, Boundaries
  <2>3. Len(buffer') = IF i + 2 <= Len(buffer) THEN Len(buffer) - (i + 2) + 1 ELSE 0
    <3>1. i + 2 \in Int /\ \A j \in (i + 2)..Len(buffer) : buffer[j] \in B
      BY <1>1, <1>2, <2>2, ElementOfSeq
    <3> QED
      BY <1>2, <2>1, <3>1, SubSeqProperties
  <2>4. Len(buffer') \in Nat /\ Len(buffer') < Len(buffer)
    BY <1>2, <2>2, <2>3
  <2> QED
    BY <1>2, <1>5, <2>2, <2>4
<1>8. ASSUME NEW n \in 1..Len(wire), Arrive(n) PROVE StreamLeft' \in 0..(StreamLeft - 1)
  <2> DEFINE a == SubSeq(wire, 1, n)
             b == SubSeq(wire, n + 1, Len(wire))
  <2>1. buffer' = buffer \o a /\ wire' = b
    BY <1>8 DEF Arrive
  <2>2. \A j \in 1..Len(wire) : wire[j] \in B
    BY <1>1, ElementOfSeq
  <2>3. a \in Seq(B) /\ Len(a) = n
    <3>1. 1 \in Int /\ n \in Int /\ 1 <= n /\ \A j \in 1..n : wire[j] \in B
      BY <1>2, <2>2
    <3>2. a \in Seq(B) /\ Len(a) = IF 1 <= n THEN n - 1 + 1 ELSE 0
      BY <3>1, SubSeqProperties
    <3> QED
      BY <3>1, <3>2
  <2>4. Len(b) = IF n + 1 <= Len(wire) THEN Len(wire) - (n + 1) + 1 ELSE 0
    <3>1. n + 1 \in Int /\ Len(wire) \in Int /\ \A j \in (n + 1)..Len(wire) : wire[j] \in B
      BY <1>2, <2>2
    <3> QED
      BY <3>1, SubSeqProperties
  <2> HIDE DEF a, b
  <2>5. Len(buffer \o a) = Len(buffer) + Len(a)
    BY <1>1, <2>3, ConcatProperties
  <2>6. Len(wire') = Len(wire) - n /\ Len(buffer') = Len(buffer) + n
    BY <1>2, <2>1, <2>3, <2>4, <2>5
  <2> QED
    BY <1>2, <1>5, <2>6
<1>9. CASE Flush
  <2>1. wire' = wire /\ buffer' = <<>> /\ buffer # <<>>
    BY <1>9 DEF Flush
  <2>2. Len(buffer') = 0 /\ Len(buffer) > 0
    BY <1>1, <1>2, <2>1, EmptySeq
  <2> QED
    BY <1>2, <1>5, <2>1, <2>2
<1>10. CASE End \/ Break
  BY <1>4, <1>10 DEF End, Break
<1>11. Close \/ Stream
  BY DEF Next, Ask, CompactContext, TokenFails, Send, Await, Fail, Receive, RefuseStream,
         StartStream, Open, Continue, AskForEmbeddings, Embed, vars
<1> QED
  BY <1>6, <1>7, <1>8, <1>9, <1>10, <1>11 DEF Stream, StreamStep

\* An answer of Ollama is the last of its endpoint, or brings a vector more.
LEMMA EmbeddingRunsOut ==
  ASSUME EInv, [Next]_vars, job \notin {"none", "answered"}, embeddingVars' # embeddingVars
  PROVE  EmbeddingLeft' \in 0..(EmbeddingLeft - 1)
<1>1. /\ Len(inputs) \in Nat /\ Len(vectors) \in Nat /\ vectors \in Seq(VectorSet)
      /\ job \in {"modern", "legacy", "collected"}
      /\ job # "collected" => Len(vectors) <= Len(inputs)
  BY LenProperties DEF EInv, JobType
<1>2. Close \/ Embed
  BY DEF Next, Ask, CompactContext, TokenFails, Send, Await, Fail, Receive, RefuseStream,
         StartStream, Stream, Continue, AskForEmbeddings, AskEmbeddings, embeddingVars, vars
<1>3. ASSUME job' \in {"none", "answered"}
      PROVE  EmbeddingLeft' \in 0..(EmbeddingLeft - 1)
  BY <1>1, <1>3 DEF EmbeddingLeft
<1>4. ASSUME NEW answer, CallModern(answer) PROVE EmbeddingLeft' \in 0..(EmbeddingLeft - 1)
  <2>1. /\ job = "modern"
        /\ \/ job' = "collected" \/ job' = "answered"
           \/ job' = "legacy" /\ UNCHANGED <<inputs, vectors>>
    BY <1>4 DEF CallModern, Answer
  <2> QED
    BY <1>1, <2>1 DEF EmbeddingLeft
<1>5. ASSUME NEW answer, CallLegacy(answer) PROVE EmbeddingLeft' \in 0..(EmbeddingLeft - 1)
  <2>1. /\ job = "legacy" /\ Len(vectors) < Len(inputs)
        /\ \/ job' = "collected" \/ job' = "answered"
           \/ job' = "legacy" /\ inputs' = inputs /\ Len(vectors') = Len(vectors) + 1
    BY <1>1, <1>5 DEF CallLegacy, Answer
  <2> QED
    BY <1>1, <2>1 DEF EmbeddingLeft
<1>6. CASE CheckVectors
  BY <1>3, <1>6 DEF CheckVectors
<1>7. CASE Close
  BY <1>3, <1>7 DEF Close
<1> QED
  BY <1>2, <1>4, <1>5, <1>6, <1>7 DEF Embed, EmbeddingsStep

\* Streams of any length, cut into reads of any size, and embeddings of any number
\* of inputs come to an end, whatever providers answer.
THEOREM WorkEnds == Spec => WorkRunsOut
<1>1. Init => EInv /\ PInv /\ SInv
  BY InitEstablishes, PInvInit, SInvInit
<1>2. EInv /\ PInv /\ SInv /\ [Next]_vars => (EInv /\ PInv /\ SInv)'
  BY NextPreserves, PInvNext, SInvNext
<1>3. EInv /\ SInv /\ [Next]_vars =>
        [/\ flow = "open" /\ streamVars' # streamVars => StreamLeft' \in 0..(StreamLeft - 1)
         /\ job \notin {"none", "answered"} /\ embeddingVars' # embeddingVars =>
              EmbeddingLeft' \in 0..(EmbeddingLeft - 1)]_vars
  BY StreamRunsOut, EmbeddingRunsOut
<1> QED
  BY <1>1, <1>2, <1>3, PTL DEF Spec, WorkRunsOut
=============================================================================
