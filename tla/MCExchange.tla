------------------------------ MODULE MCExchange ------------------------------
(* Histories of up to six messages, of agents that use tools among them;     *)
(* providers of each type; streams of three events, with either line ending. *)
EXTENDS Exchange

MCRoleChars == [role \in {"system", "user", "assistant", "tool"} |->
                  IF role = "assistant" THEN 9 ELSE IF role = "system" THEN 6 ELSE 4]

Content(text, chars, lean, markers, features, words) ==
  [text |-> <<text>>, chars |-> chars,
   leanText |-> IF lean < chars THEN <<"part of", text>> ELSE <<text>>, lean |-> lean,
   markers |-> markers, features |-> features, words |-> words,
   technical |-> Cardinality(features \cap {"routes"})]
Message(role, content) == [role |-> role, content |-> content, calls |-> <<>>, answers |-> {}]
S(text) == Message("system", Content(text, 40, 32, 0, {}, <<>>))
U(text) == Message("user", Content(text, 80, 60, 0, {}, <<"port", "redis">>))
A(text) == Message("assistant", Content(text, 120, 90, 0, {"numbers"}, <<"redis">>))
Ok(text) == Message("assistant", Content(text, 8, 8, 0, {}, <<>>))
Padded(text) == Message("assistant", Content(text, 90, 70, 0, {"padding", "routes"}, <<>>))
Marked(text) == Message("user", Content(text, 60, 52, 1, {}, <<>>))
Calling(text) == [A(text) EXCEPT !.calls = <<[id |-> "c0", arguments |-> Garbled]>>]
Result(text) == [Message("tool", Content(text, 200, 150, 0, {"dates"}, <<"port">>)) EXCEPT !.answers = {"c0"}]

Ask1(messages, options, acceptsEvents) ==
  [model |-> "asked", messages |-> messages, options |-> options, acceptsEvents |-> acceptsEvents]
Tools == [tools |-> <<"t">>, tool_choice |-> "required", max_tokens |-> 9]
MCRequests ==
  {Ask1(<<S("s"), U("u")>>, Tools, FALSE),
   Ask1(<<S("s"), U("u")>>, [stream |-> TRUE], FALSE),
   Ask1(<<U("u")>>, <<>>, TRUE),
   Ask1(<<>>, <<>>, FALSE),
   Ask1(<<Marked("m"), A("a"), Ok("k"), S("s"), U("u")>>, [stream |-> FALSE], FALSE),
   Ask1(<<S("s"), U("u"), A("a"), U("v"), Padded("b"), U("w")>>, [stop |-> "x"], FALSE),
   Ask1(<<U("u"), Calling("c"), Result("r")>>, Tools, FALSE),
   Ask1(<<A("a"), Ok("k"), A("b")>>, <<>>, FALSE)}

Trimming(threshold, max, stopWords) ==
  [strategy |-> "adaptive_trimming", tokenThreshold |-> threshold, maxHistoryMessages |-> max,
   stopWords |-> stopWords, targetTokenRatio |-> 45, minFinalTokens |-> 20,
   preserveCriticalMarkers |-> TRUE]
Semantic(threshold, ratio) ==
  [Trimming(threshold, 20, FALSE) EXCEPT !.strategy = "semantic_guarded_trimming",
                                         !.targetTokenRatio = ratio]
MCRoutes ==
  {[model |-> {}, tokens |-> tokens, name |-> "claude"] :
     tokens \in {Trimming(30, 20, TRUE), Trimming(30, 2, FALSE), Trimming(30, 0, FALSE),
                 Trimming(512, 2, TRUE), Semantic(30, 45), Semantic(30, 90)}}
  \cup {[model |-> {"m"}, tokens |-> Trimming(512, 20, TRUE), name |-> name] :
          name \in {"claude", "vertex_anthropic", "gemini", "openai", "unknown"}}

Provider(id, type, baseUrl) == [id |-> id, type |-> type, baseUrl |-> baseUrl, apiKey |-> "k"]
MCProviders ==
  <<Provider("claude", "anthropic", "http://c"),
    Provider("claude-eu", "vertex_anthropic", "http://v"),
    Provider("gemini", "google_vertex_ai", "http://a/openai"),
    Provider("gpt", "openai", "http://b/v1"),
    Provider("local", "ollama", "http://o")>>

Claude(blocks, stopReason) == [blocks |-> blocks, stopReason |-> stopReason]
Use(id) == [type |-> "tool_use", id |-> id, input |-> "args"]
ClaudeSays ==
  {Claude(<<Text(<<"one">>), Text(<<"two">>)>>, "end_turn"),
   Claude(<<Text(<<"one">>), Use("c1"), Use("c2")>>, "tool_use"),
   Claude(<<Use("c1")>>, "tool_use"),
   [text |-> <<>>, calls |-> <<>>, finish |-> {}]}
OthersSay ==
  {[text |-> <<"one">>, calls |-> <<>>, finish |-> {"length"}],
   [text |-> <<"one">>, calls |-> <<[id |-> "c1", arguments |-> Garbled]>>,
    finish |-> {"tool_calls"}]}
ByType(claude, others) ==
  [type \in {"anthropic", "vertex_anthropic", "google_vertex_ai", "openai", "ollama"} |->
     IF type \in {"anthropic", "vertex_anthropic"} THEN claude ELSE others]
MCResponses == ByType(ClaudeSays, OthersSay)

Line(kind, chunk) == [kind |-> kind, chunk |-> chunk]
Whole(line) == <<Half(line, 1), Half(line, 2)>>
Chunk(type) == [type |-> type]
Delta(text) == [type |-> "content_block_delta", text |-> {text}]
ClaudeEvent(chunk) ==
  Whole(Line("other", Chunk("name"))) \o <<LF>> \o Whole(Line("data", chunk)) \o <<LF, LF>>
ClaudeStreams ==
  {[streamed |-> TRUE, text |-> <<"a", "b">>,
    bytes |-> ClaudeEvent(Chunk("message_start")) \o ClaudeEvent(Delta("a"))
                \o ClaudeEvent(Delta("b"))
                \o ClaudeEvent([type |-> "message_delta", stopReason |-> "end_turn"])
                \o ClaudeEvent(Chunk("message_stop"))],
   [streamed |-> FALSE, text |-> <<"a", "b">>, bytes |-> Whole(Line("data", Chunk("message")))]}

OpenAiChunk(text) == Line("data", [type |-> "chunk", frame |-> Frame({}, {text}, {})])
Ended(line, ending) == Whole(line) \o ending \o ending
OpenAiStreams ==
  {[streamed |-> TRUE, text |-> <<"a", "b">>,
    bytes |-> Ended(Line("comment", Chunk("none")), ending) \o Ended(OpenAiChunk("a"), ending)
                \o Ended(OpenAiChunk("b"), ending) \o last] :
     ending \in {<<LF>>, <<CR, LF>>},
     last \in {<<>>, Ended(Line("done", Chunk("none")), <<LF>>), Whole(Line("done", Chunk("none")))}}
  \cup {[streamed |-> FALSE, text |-> <<"a">>,
         bytes |-> Whole(Line("data", [type |-> "chunk", frame |-> Frame({}, {}, {"stop"})]))]}
MCBodies == ByType(ClaudeStreams, OpenAiStreams)

Embedding(model, input, format) == [model |-> model, input |-> input, format |-> format]
MCEmbeddingRequests ==
  {Embedding({"m"}, {<<"x", "", "y">>}, {}), Embedding({"m"}, {<<"x">>}, {"float"}),
   Embedding({"m"}, {<<"">>}, {}), Embedding({}, {<<"x">>}, {}),
   Embedding({"m"}, {<<"x">>}, {"base64"})}
=============================================================================
