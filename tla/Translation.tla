----------------------------- MODULE Translation -----------------------------
(***************************************************************************)
(* The transpilers of src/src/transpiler: requests from the OpenAI format  *)
(* to a provider's, responses and the chunks of a stream back.             *)
(*                                                                         *)
(* A request is a record [model, messages, options], the options being a   *)
(* function from the names of optional fields to their values.  A text is  *)
(* a sequence of fragments.  A call is a record [id, arguments]: the       *)
(* arguments are the text of a JSON document, or are garbled.              *)
(***************************************************************************)
EXTENDS Sublists

CONSTANT Garbled             \* arguments that are no JSON

LOCAL Only(f, names) == [name \in DOMAIN f \cap names |-> f[name]]

Texts(ms) == [i \in DOMAIN ms |-> ms[i].content.text]
Text(text) == [type |-> "text", text |-> text]

\* extract_system_message.
SystemText(ms) == Texts(ElementsAt(ms, {i \in DOMAIN ms : ms[i].role = "system"}))
OtherMessages(ms) == ElementsAt(ms, {i \in DOMAIN ms : ms[i].role # "system"})

\* A result for the call it answers; without one, for the call "".
ToolResult(m) ==
  [type |-> "tool_result",
   call |-> IF m.answers = {} THEN "" ELSE CHOOSE id \in m.answers : TRUE,
   text |-> m.content.text]

ToolUse(call) ==
  [type |-> "tool_use", id |-> call.id,
   input |-> IF call.arguments = Garbled THEN "{}" ELSE call.arguments]

\* Fault: an assistant that calls tools says nothing else.
BlocksOfCallsOnly(m) ==
  IF m.role = "tool" THEN <<ToolResult(m)>>
  ELSE IF m.role = "assistant" /\ m.calls # <<>>
    THEN [k \in DOMAIN m.calls |-> ToolUse(m.calls[k])]
  ELSE <<Text(m.content.text)>>

BlocksOf(m) ==
  IF m.role = "tool" THEN <<ToolResult(m)>>
  ELSE IF m.role = "assistant" /\ m.calls # <<>>
    THEN (IF m.content.chars = 0 THEN <<>> ELSE <<Text(m.content.text)>>)
           \o [k \in DOMAIN m.calls |-> ToolUse(m.calls[k])]
  ELSE <<Text(m.content.text)>>

\* convert_messages_to_native: there are two roles.
AnthropicMessages(ms) ==
  [i \in DOMAIN ms |-> [role |-> IF ms[i].role = "assistant" THEN "assistant" ELSE "user",
                        blocks |-> BlocksOf(ms[i])]]

\* convert_tool_choice_to_native: a tool that is named; anything else, "none"
\* included, is left to the model.
ToolChoice(choice) ==
  IF choice \in {"auto", "none", "required"} THEN [type |-> "auto"]
  ELSE [type |-> "tool", name |-> choice]

DefaultMaxTokens == 4096

\* The optional fields: a choice of tools goes along with tools only.
AnthropicOptions(options) ==
  LET given == DOMAIN options
      tools == "tools" \in given /\ options.tools # <<>>
  IN [maxTokens |-> IF "max_tokens" \in given THEN options.max_tokens ELSE DefaultMaxTokens]
       @@ Only(options, {"temperature", "stream"})
       @@ (IF "stop" \in given THEN [stopSequences |-> options.stop] ELSE <<>>)
       @@ (IF tools THEN [tools |-> options.tools] ELSE <<>>)
       @@ (IF tools /\ "tool_choice" \in given
             THEN [toolChoice |-> ToolChoice(options.tool_choice)] ELSE <<>>)

\* AnthropicTranspiler::to_native.
ToAnthropic(request) ==
  [model |-> request.model,
   system |-> SystemText(request.messages),
   messages |-> AnthropicMessages(OtherMessages(request.messages)),
   options |-> AnthropicOptions(request.options)]

\* VertexAnthropicTranspiler::to_native: the model is part of the URL.
ToVertexAnthropic(request) ==
  LET native == ToAnthropic(request)
  IN [version |-> "vertex-2023-10-16", system |-> native.system,
      messages |-> native.messages, options |-> native.options]

\* map_role_to_vertex.
GeminiRole(role) == IF role = "assistant" THEN "model" ELSE "user"

\* VertexTranspiler::to_native: Gemini's own format, which knows no tools.  The
\* handler does not use it: the Gemini it asks speaks OpenAI's.
ToVertex(request) ==
  LET rest == OtherMessages(request.messages)
  IN [contents |-> [i \in DOMAIN rest |->
         [role |-> GeminiRole(rest[i].role), text |-> rest[i].content.text]],
      system |-> SystemText(request.messages),
      config |-> Only(request.options, {"temperature", "max_tokens", "stop", "top_p"})]

\* The body that the handler sends.
Native(type, request) ==
  CASE type = "anthropic" -> ToAnthropic(request)
    [] type = "vertex_anthropic" -> ToVertexAnthropic(request)
    [] OTHER -> request
-----------------------------------------------------------------------------
\* map_stop_reason, and map_finish_reason of Gemini's own format.
FinishOf(stopReason) ==
  CASE stopReason = "max_tokens" -> "length"
    [] stopReason = "tool_use" -> "tool_calls"
    [] OTHER -> "stop"

GeminiFinishOf(reason) ==
  CASE reason = "MAX_TOKENS" -> "length"
    [] reason \in {"SAFETY", "RECITATION"} -> "content_filter"
    [] OTHER -> "stop"

OfType(blocks, type) == ElementsAt(blocks, {i \in DOMAIN blocks : blocks[i].type = type})
TextsOf(blocks) ==
  LET said == OfType(blocks, "text") IN [i \in DOMAIN said |-> said[i].text]

\* extract_tool_calls.
CallsOf(blocks) ==
  LET uses == OfType(blocks, "tool_use")
  IN [i \in DOMAIN uses |-> [id |-> uses[i].id, arguments |-> uses[i].input]]

\* AnthropicTranspiler::from_native: all text in one content, then the calls.
FromAnthropic(response) ==
  [text |-> FlattenSeq(TextsOf(response.blocks)),
   calls |-> CallsOf(response.blocks),
   finish |-> {FinishOf(response.stopReason)}]

\* A choice of a reply or of a frame, a frame being what a streamed reply gains;
\* role, text and finish are optional.
Choice(role, text, finish) == [role |-> role, text |-> text, finish |-> finish]
Frame(role, text, finish) == [choices |-> <<Choice(role, text, finish)>>]

\* map_role_to_openai.
OpenAiRole(role) == IF role = "user" THEN "user" ELSE "assistant"

\* A candidate in Gemini's own format: the first part is its text.
Candidate(c) ==
  Choice({OpenAiRole(role) : role \in c.role},
         IF c.parts = <<>> THEN {} ELSE {Head(c.parts)},
         {GeminiFinishOf(reason) : reason \in c.finish})

VertexChunk(chunk) ==
  [choices |-> [i \in DOMAIN chunk.candidates |-> Candidate(chunk.candidates[i])]]

\* VertexTranspiler::from_native: what candidates do not say is filled in.
FromVertex(response) ==
  [choices |-> [i \in DOMAIN response.candidates |->
     LET c == Candidate(response.candidates[i])
     IN [c EXCEPT !.role = IF @ = {} THEN {"assistant"} ELSE @,
                  !.text = IF @ = {} THEN {""} ELSE @]]]

\* What the handler makes of a response: one that from_native cannot translate, a
\* JSON value that is no object, is passed on as it is.
Reply(type, response) ==
  IF type \in {"anthropic", "vertex_anthropic"} /\ "blocks" \in DOMAIN response
    THEN FromAnthropic(response) ELSE response
-----------------------------------------------------------------------------
\* AnthropicTranspiler::translate_chunk; calls of tools are not streamed.
AnthropicChunk(chunk) ==
  CASE chunk.type = "message_start" -> Frame({"assistant"}, {}, {})
    [] chunk.type = "content_block_delta" -> Frame({}, chunk.text, {})
    [] chunk.type = "message_delta" -> Frame({}, {}, {FinishOf(chunk.stopReason)})
    [] chunk.type = "message_stop" -> Frame({}, {}, {"stop"})
    [] OTHER -> Frame({}, {}, {})

\* translate_chunk of the transpiler for a type: the frames of a chunk, none if
\* there is an error.
TranslateChunk(type, chunk) ==
  CASE type \in {"anthropic", "vertex_anthropic"} -> <<AnthropicChunk(chunk)>>
    [] type = "google_vertex_ai" ->
         IF chunk.type = "candidates" THEN <<VertexChunk(chunk)>> ELSE <<>>
    [] OTHER -> <<chunk.frame>>
=============================================================================
