------------------------------- MODULE Exchange -------------------------------
(***************************************************************************)
(* One connection of the gateway, and what becomes of the payloads on it:  *)
(* the chat handler validates a request, compacts and translates it, and   *)
(* sends it to a provider; the response is translated back, whole or as a  *)
(* stream; the client may go on with the conversation.  Or the request is  *)
(* for embeddings.                                                         *)
(*                                                                         *)
(* Selection, failover and the circuit breaker are the subject of Gateway; *)
(* here the route names the one provider that is tried.                    *)
(***************************************************************************)
EXTENDS Compactor, SseStream, Embeddings

CONSTANTS Requests,          \* what clients ask for
          EmbeddingRequests,
          Routes,            \* resolved routes: [model, tokens, name]
          Providers,         \* the sequence of configured providers
          Responses,         \* whole responses, by type of provider
          Bodies,            \* streamed bodies, by type of provider
          MaxMessages        \* bound: the conversations that clients continue

VARIABLES stage,             \* where the handler is
          request,           \* the client's request
          route,             \* ResolvedRoute
          context,           \* what the compactor came to
          provider,          \* the provider that is asked
          sent,              \* the call to it: [url, headers, body]
          response           \* the last response: [type, body]

chatVars == <<stage, request, route, context, provider, sent, response>>
vars == <<chatVars, streamVars, embeddingVars>>

\* The types of the providers that can be asked.
Types == {Providers[i].type : i \in DOMAIN Providers} \cup {"ollama"}

ASSUME ExchangeAssumption ==
  \A r \in EmbeddingRequests : \A texts \in r.input : texts \in Seq(Range(texts))

\* What a request is.
IsRequest(r) ==
  /\ DOMAIN r = {"model", "messages", "options", "acceptsEvents"}
  /\ IsList(r.messages) /\ \A m \in Range(r.messages) : IsMessage(m)

ASSUME RequestsAssumption ==
  /\ IsList(Providers) /\ \A r \in Requests : IsRequest(r)
  /\ {"assistant", "user", "tool"} \subseteq DOMAIN RoleChars
  /\ \A r \in Routes : /\ r.tokens.tokenThreshold \in Nat /\ r.tokens.maxHistoryMessages \in Nat
                        /\ r.tokens.targetTokenRatio \in Nat /\ r.tokens.minFinalTokens \in Nat

\* What a provider may reply: lists of fragments, of calls, of blocks.
ASSUME ResponsesAssumption ==
  \A type \in Types : \A r \in Responses[type] :
    IF type \in {"anthropic", "vertex_anthropic"} /\ "blocks" \in DOMAIN r
      THEN /\ IsList(r.blocks)
           /\ \A b \in Range(r.blocks) : b.type = "text" => IsList(b.text)
      ELSE IsList(r.text) /\ IsList(r.calls)

\* The text of a body is what its lines carry up to [DONE], if they are read in one
\* piece: all of it, where the body is a stream that the gateway can translate.
ASSUME BodiesAssumption ==
  \A type \in Types : \A body \in Bodies[type] :
    LET told == FramesIn(type, body.bytes)
    IN /\ IsList(body.bytes) /\ IsList(body.text)
       /\ \A frame \in Range(told) : IsList(TextOfFrame(frame))
       /\ IsPrefix(TextOf(UpToDone(told)), body.text)
       /\ body.streamed /\ type # "google_vertex_ai" => TextOf(UpToDone(told)) = body.text

Nothing == [status |-> 0]

\* A name no provider has is taken for a local Ollama.
Fallback == [id |-> "none", type |-> "ollama", baseUrl |-> "localhost", apiKey |-> ""]

ChatInit ==
  /\ stage = "idle" /\ request = Nothing /\ route = Nothing /\ context = Nothing
  /\ provider = Fallback /\ sent = Nothing /\ response = Nothing

Init == ChatInit /\ StreamInit /\ EmbeddingsInit

\* Fault: the results of tools are taken for messages of an unknown role.
ValidKnownRoles(r) ==
  /\ r.model # "" /\ r.messages # <<>>
  /\ \A i \in DOMAIN r.messages :
       r.messages[i].role \in {"system", "user", "assistant"} /\ r.messages[i].content.chars > 0

\* validate_chat_payload: a model, messages, and in each a role and a content.
Valid(r) ==
  /\ r.model # "" /\ r.messages # <<>>
  /\ \A i \in DOMAIN r.messages :
       r.messages[i].role # "" /\ r.messages[i].content.chars > 0

StreamOption(r) == "stream" \in DOMAIN r.options /\ r.options.stream

\* is_streaming_request: the header or the payload asks for it; the payload is
\* forwarded as it is.
Streaming(r) == r.acceptsEvents \/ StreamOption(r)

\* The route's model, or the one the client asks for.
EffectiveModel(r, resolved) ==
  IF resolved.model = {} THEN r.model ELSE CHOOSE m \in resolved.model : TRUE

\* chat_completions_handler: validation.
Ask(r) ==
  /\ stage' = IF Valid(r) THEN "accepted" ELSE "refused"
  /\ request' = r
  /\ UNCHANGED <<route, context, provider, sent, response, streamVars, embeddingVars>>

\* ... the route, and compaction.
CompactContext(resolved) ==
  /\ stage = "accepted"
  /\ stage' = "compacted"
  /\ route' = resolved
  /\ context' = Compact(request.messages, resolved.tokens)
  /\ UNCHANGED <<request, provider, sent, response, streamVars, embeddingVars>>
-----------------------------------------------------------------------------
\* The first provider that has this name, as its id or as its type.
Lookup(name) ==
  LET matching == {i \in DOMAIN Providers : name \in {Providers[i].id, Providers[i].type}}
  IN IF matching = {} THEN Fallback ELSE Providers[Min(matching)]

SpeaksOpenAi == {"http://a/openai", "http://b/v1"}   \* base URLs of this form

Url(p, model, streaming) ==
  CASE p.type = "anthropic" -> <<p.baseUrl, "messages">>
    [] p.type = "vertex_anthropic" ->
         <<p.baseUrl, model, IF streaming THEN "streamRawPredict" ELSE "rawPredict">>
    [] OTHER -> <<p.baseUrl, IF p.baseUrl \in SpeaksOpenAi THEN "chat/completions"
                                                            ELSE "v1/chat/completions">>

CallHeaders(p) ==
  {"content-type"}
    \cup (IF p.type = "vertex_anthropic" THEN {"bearer token of ADC"}
          ELSE IF p.apiKey \in {"", "ollama"} THEN {}
          ELSE IF p.type = "anthropic" THEN {"x-api-key", "anthropic-version"}
          ELSE {"bearer api key"})

\* bearer_token: discovery, or the token, fails, and the request with it.
TokenFails ==
  /\ stage = "compacted" /\ Lookup(route.name).type = "vertex_anthropic"
  /\ stage' = "failed" /\ provider' = Lookup(route.name)
  /\ UNCHANGED <<request, route, context, sent, response, streamVars, embeddingVars>>

\* The call: URL, headers, the translated body, send or send_stream.
Send ==
  LET p == Lookup(route.name)
      model == EffectiveModel(request, route)
      payload == [model |-> model, messages |-> context.messages,
                  options |-> request.options]
  IN /\ stage = "compacted"
     /\ provider' = p
     /\ sent' = [url |-> Url(p, model, Streaming(request)),
                 headers |-> CallHeaders(p), body |-> Native(p.type, payload)]
     /\ stage' = IF Streaming(request) THEN "streaming" ELSE "sent"
     /\ UNCHANGED <<request, route, context, response, streamVars, embeddingVars>>

\* send: a response.
Receive(body) ==
  /\ stage = "sent"
  /\ stage' = "replied"
  /\ response' = [type |-> provider.type, body |-> body]
  /\ UNCHANGED <<request, route, context, provider, sent, streamVars, embeddingVars>>

\* ... or none, or one that is no JSON.
Fail ==
  /\ stage = "sent"
  /\ stage' = "failed"
  /\ UNCHANGED <<request, route, context, provider, sent, response, streamVars, embeddingVars>>

\* send_stream: a provider streams if the body says so, and answers in one piece
\* otherwise.
StartStream(body) ==
  /\ stage = "streaming" /\ body.streamed = StreamOption(request)
  /\ response' = [type |-> provider.type, body |-> body]
  /\ Open(provider.type, body.bytes)
  /\ UNCHANGED <<stage, request, route, context, provider, sent, embeddingVars>>

\* The provider refuses, or cannot be reached.
RefuseStream ==
  /\ stage = "streaming"
  /\ response' = Nothing
  /\ Open(provider.type, <<>>)
  /\ UNCHANGED <<stage, request, route, context, provider, sent, embeddingVars>>

Stream == stage = "streaming" /\ StreamStep /\ UNCHANGED <<chatVars, embeddingVars>>
-----------------------------------------------------------------------------
LastReply == Reply(response.type, response.body)

Said(text) == [text |-> text, chars |-> 40 * Len(text),
               leanText |-> text, lean |-> 40 * Len(text),
               markers |-> 0, features |-> {}, words |-> text, technical |-> 0]

\* The client takes the reply into the conversation, with the results of the
\* tools it calls, or a further question if there are none.
Turn == [role |-> "assistant", content |-> Said(LastReply.text),
         calls |-> LastReply.calls, answers |-> {}]

\* What a tool can come to: nothing, which is an empty content, or none that is a
\* string, or something.
Results == {<<>>, <<"result">>}

FollowUp(results) ==
  IF LastReply.calls = <<>>
    THEN <<[role |-> "user", content |-> Said(<<"more">>), calls |-> <<>>, answers |-> {}]>>
    ELSE [k \in DOMAIN LastReply.calls |->
            [role |-> "tool", content |-> Said(results[k]), calls |-> <<>>,
             answers |-> {LastReply.calls[k].id}]]

Continued(results) == [request EXCEPT !.messages = (@ \o <<Turn>>) \o FollowUp(results)]

Continue ==
  /\ stage = "replied"
  /\ \E results \in [DOMAIN LastReply.calls -> Results] :
       /\ Len(Continued(results).messages) <= MaxMessages
       /\ Ask(Continued(results))

\* The client leaves, or starts anew.
Close ==
  /\ stage # "idle" \/ job # "none"
  /\ stage' = "idle" /\ request' = Nothing /\ route' = Nothing /\ context' = Nothing
  /\ provider' = Fallback /\ sent' = Nothing /\ response' = Nothing
  /\ wire' = <<>> /\ buffer' = <<>> /\ frames' = <<>> /\ flow' = "off" /\ source' = "none"
  /\ job' = "none" /\ inputs' = <<>> /\ vectors' = <<>> /\ outcome' = NoOutcome

AskForEmbeddings ==
  /\ stage = "idle"
  /\ \E r \in EmbeddingRequests : AskEmbeddings(r, \E i \in DOMAIN Providers :
                                                     Providers[i].type = "ollama")
  /\ UNCHANGED <<chatVars, streamVars>>

Embed == EmbeddingsStep /\ UNCHANGED <<chatVars, streamVars>>

Await ==
  \/ Fail \/ \E body \in Responses[provider.type] : Receive(body)
  \/ RefuseStream \/ \E body \in Bodies[provider.type] : StartStream(body)

Next ==
  \/ stage = "idle" /\ job = "none" /\ \E r \in Requests : Ask(r)
  \/ \E resolved \in Routes : CompactContext(resolved)
  \/ TokenFails \/ Send \/ Await \/ Stream
  \/ Continue \/ Close
  \/ AskForEmbeddings \/ Embed

Spec == Init /\ [][Next]_vars

\* No call of the HTTP client lasts longer than its timeout, body included.
Fairness == WF_vars(Await) /\ WF_vars(Stream) /\ WF_vars(Embed)
FairSpec == Spec /\ Fairness
-----------------------------------------------------------------------------
(* Properties.                                                             *)

OfRole(ms, role) == ElementsAt(ms, {i \in DOMAIN ms : ms[i].role = role})

\* Whatever the compactor throws away, and whatever words it leaves out, the system
\* messages stay, in their order and to the letter, and so does the last message of
\* the user, unless at least as many messages follow it as the window of
\* AdaptiveTrimming holds.
ContextSurvives ==
  context # Nothing =>
    LET before == request.messages
        after == context.messages
        users == {i \in DOMAIN before : before[i].role = "user"}
        later == {i \in DOMAIN before : users # {} /\ i > Max(users)
                                        /\ before[i].role # "system"}
        inWindow == route.tokens.strategy = "semantic_guarded_trimming"
                      \/ Cardinality(later) < route.tokens.maxHistoryMessages
    IN stage \in {"compacted", "sent", "streaming"} =>
         /\ Texts(OfRole(after, "system")) = Texts(OfRole(before, "system"))
         /\ users # {} /\ inWindow =>
              \E i \in DOMAIN after : after[i].role = "user"
                                      /\ after[i].content = before[Max(users)].content

\* Compaction never makes a context longer (the handler subtracts the new count of
\* tokens from the old one, and both are unsigned), and the loop that removes
\* messages stops as soon as it can: with the message that went last, the context
\* would be over the target that the strategy has set itself (which is not the
\* threshold that is configured).
CompactionIsFrugal ==
  context # Nothing =>
    LET gone == context.removed
        back == CountTokens(RoleChars[request.messages[Last(gone)].role])
                  + CountTokens(IF route.tokens.stopWords
                                     /\ route.tokens.strategy # "semantic_guarded_trimming"
                                  THEN request.messages[Last(gone)].content.lean
                                  ELSE request.messages[Last(gone)].content.chars)
    IN stage = "compacted" =>
         /\ context.final <= context.original
         /\ gone # <<>> => context.final + back > context.target

\* In a conversation that goes on (and was not compacted), Claude is shown the
\* last reply as it was given, whichever provider gave it: its text, its calls
\* with their ids and arguments, and then the result of each call.
ProviderSeesTheReply ==
  LET turn == CHOOSE i \in DOMAIN sent.body.messages :
                /\ sent.body.messages[i].role = "assistant"
                /\ \A j \in DOMAIN sent.body.messages :
                     sent.body.messages[j].role = "assistant" => j <= i
      blocks == sent.body.messages[turn].blocks
      uses == OfType(blocks, "tool_use")
      calls == LastReply.calls
  IN stage \in {"sent", "streaming"} /\ flow = "off" /\ response # Nothing
       /\ provider.type \in {"anthropic", "vertex_anthropic"} /\ ~context.compressed =>
         /\ FlattenSeq(TextsOf(blocks)) = LastReply.text
         /\ Len(uses) = Len(calls)
         /\ \A k \in DOMAIN calls :
              /\ uses[k].id = calls[k].id
              /\ calls[k].arguments # Garbled => uses[k].input = calls[k].arguments
              /\ sent.body.messages[turn + k].blocks[1].call = calls[k].id

\* A client that returns the gateway's own reply, with the results of the tools it
\* called, is refused only where it has to hand in an empty content: the reply had
\* no text, or a tool came to nothing.
RepliesAreAccepted ==
  stage = "refused" /\ response # Nothing =>
    \/ LastReply.text = <<>>
    \/ \E k \in 1..Len(LastReply.calls) :
         request.messages[Len(request.messages) - Len(LastReply.calls) + k].content.chars = 0

\* However the provider's bytes are cut into reads, and wherever the stream
\* breaks: the client gets a beginning of the provider's text, in order and
\* nothing twice, and all of it (except from Gemini) if the stream ended and the
\* payload had asked for one; and exactly one [DONE], as the last frame, when and
\* only when the stream is over.
StreamIsRelayed ==
  flow # "off" =>
    LET told == TextOf(frames)
        text == IF response = Nothing THEN <<>> ELSE response.body.text
        whole == response # Nothing /\ response.body.streamed /\ source # "google_vertex_ai"
    IN /\ IsPrefix(told, text)
       /\ flow = "closed" /\ wire = <<>> /\ buffer = <<>> /\ whole => told = text
       /\ \A k \in DOMAIN frames : frames[k] = Done <=> k = Len(frames) /\ flow = "closed"

\* What a stream has still to do: a byte on the wire is read and then passed on.
StreamLeft == IF flow = "open" THEN 2 * Len(wire) + Len(buffer) + 1 ELSE 0

\* The steps an embeddings request can still take: the call to the new endpoint,
\* one to the old one for each input without a vector, and the answer.
EmbeddingLeft ==
  CASE job = "modern" -> Len(inputs) + 2
    [] job = "legacy" -> Len(inputs) - Len(vectors) + 1
    [] job = "collected" -> 1
    [] OTHER -> 0

\* Neither a stream nor the fallback to the old endpoint goes on for ever: every
\* poll of a body, however it is cut into reads, and every answer of Ollama leaves
\* less to do than before.
WorkRunsOut ==
  [][/\ flow = "open" /\ streamVars' # streamVars => StreamLeft' \in 0..(StreamLeft - 1)
     /\ job \notin {"none", "answered"} /\ embeddingVars' # embeddingVars =>
          EmbeddingLeft' \in 0..(EmbeddingLeft - 1)]_vars

\* Once a provider has been asked the request ends, unless its client leaves.
EveryRequestEnds ==
  /\ stage \in {"sent", "streaming"} ~>
       stage \in {"idle", "replied", "failed"} \/ flow = "closed"
  /\ job \notin {"none", "answered"} ~> job \in {"none", "answered"}
=============================================================================
