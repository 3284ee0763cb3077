------------------------------ MODULE SseStream ------------------------------
(***************************************************************************)
(* A streamed reply on its way through the gateway: the provider's bytes   *)
(* arrive in reads of any size, SseChunkSplitter (src/src/client.rs) cuts  *)
(* them into events, and transform_sse_stream (src/src/streaming.rs) turns *)
(* the lines of each event into frames for the client.                     *)
(*                                                                         *)
(* The bytes are a sequence of LF, CR and the halves of lines: a read may  *)
(* end in the middle of a line.  A line is a record [kind, chunk], of kind *)
(* "data" (a chunk as JSON, after "data:" or bare), "other" (text that is  *)
(* no JSON, such as an event's name), "comment" or "done".                 *)
(***************************************************************************)
EXTENDS Translation

VARIABLES wire,              \* bytes that have not arrived
          buffer,            \* the splitter's buffer
          frames,            \* what the client has got
          flow,              \* "off", "open" or "closed"
          source             \* the type of the provider

streamVars == <<wire, buffer, frames, flow, source>>

Half(line, part) == [line |-> line, part |-> part]
LF == Half([kind |-> "LF"], 0)
CR == Half([kind |-> "CR"], 0)
Done == [data |-> "[DONE]"]

\* find_double_newline: where an event ends, if it does.
Boundaries(bytes) == {i \in 1..(Len(bytes) - 1) : bytes[i] = LF /\ bytes[i + 1] = LF}

\* A line of an event counts if its halves are both there, side by side; empty
\* lines and carriage returns are trimmed.
EndsLine(event, i) ==
  i > 1 /\ event[i].part = 2 /\ event[i - 1] = Half(event[i].line, 1)

\* What the loop of transform_sse_stream makes of a line: nothing, unless it is
\* [DONE] or has a chunk that can be translated.
FramesOf(type, line) ==
  CASE line.kind = "done" -> <<Done>>
    [] line.kind = "data" -> TranslateChunk(type, line.chunk)
    [] OTHER -> <<>>

FramesIn(type, event) ==
  FlattenSeq([i \in DOMAIN event |->
    IF EndsLine(event, i) THEN FramesOf(type, event[i].line) ELSE <<>>])

StreamInit ==
  /\ wire = <<>> /\ buffer = <<>> /\ frames = <<>> /\ flow = "off" /\ source = "none"

\* send_stream: the body begins.
Open(type, bytes) ==
  /\ flow = "off"
  /\ wire' = bytes /\ source' = type /\ flow' = "open"
  /\ UNCHANGED <<buffer, frames>>

\* The frames of an event go to the client, up to the provider's [DONE].
Relay(told) ==
  LET done == {k \in DOMAIN told : told[k] = Done}
  IN /\ frames' = frames \o (IF done = {} THEN told ELSE SubSeq(told, 1, Min(done)))
     /\ flow' = IF done = {} THEN "open" ELSE "closed"

\* poll_next: a whole event comes before more bytes.
Emit ==
  /\ flow = "open"
  /\ \E i \in Boundaries(buffer) :
       /\ \A j \in Boundaries(buffer) : i <= j
       /\ \E told \in {FramesIn(source, SubSeq(buffer, 1, i + 1))} : Relay(told)
       /\ buffer' = SubSeq(buffer, i + 2, Len(buffer))
  /\ UNCHANGED <<wire, source>>

Arrive(n) ==
  /\ flow = "open" /\ Boundaries(buffer) = {} /\ n \in 1..Len(wire)
  /\ buffer' = buffer \o SubSeq(wire, 1, n)
  /\ wire' = SubSeq(wire, n + 1, Len(wire))
  /\ UNCHANGED <<frames, flow, source>>

\* Fault: what is left is passed on, and left in the buffer.
FlushAgain ==
  /\ flow = "open" /\ Boundaries(buffer) = {} /\ wire = <<>> /\ buffer # <<>>
  /\ \E told \in {FramesIn(source, buffer)} : Relay(told)
  /\ UNCHANGED <<wire, buffer, source>>

\* poll_next, at the end of the body: what is left is an event.
Flush ==
  /\ flow = "open" /\ Boundaries(buffer) = {} /\ wire = <<>> /\ buffer # <<>>
  /\ \E told \in {FramesIn(source, buffer)} : Relay(told)
  /\ buffer' = <<>>
  /\ UNCHANGED <<wire, source>>

\* Fault: the frames end with the body.
EndSilently ==
  /\ flow = "open" /\ wire = <<>> /\ buffer = <<>>
  /\ flow' = "closed"
  /\ UNCHANGED <<wire, buffer, frames, source>>

End ==
  /\ flow = "open" /\ wire = <<>> /\ buffer = <<>>
  /\ frames' = Append(frames, Done)
  /\ flow' = "closed"
  /\ UNCHANGED <<wire, buffer, source>>

\* The connection fails or times out, or the provider refuses: the client is
\* told that the stream is done.
Break ==
  /\ flow = "open" /\ Boundaries(buffer) = {}
  /\ frames' = Append(frames, Done)
  /\ flow' = "closed"
  /\ UNCHANGED <<wire, buffer, source>>

StreamStep == Emit \/ (\E n \in 1..Len(wire) : Arrive(n)) \/ Flush \/ End \/ Break

\* The text that a choice, a frame, and frames carry.
TextOfChoice(c) == IF c.text = {} THEN <<>> ELSE <<CHOOSE text \in c.text : TRUE>>
TextOfFrame(frame) ==
  IF frame = Done THEN <<>>
  ELSE FlattenSeq([i \in DOMAIN frame.choices |-> TextOfChoice(frame.choices[i])])
TextOf(told) == FlattenSeq([k \in DOMAIN told |-> TextOfFrame(told[k])])

\* Frames, up to the first [DONE].
UpToDone(told) ==
  LET done == {k \in DOMAIN told : told[k] = Done}
  IN IF done = {} THEN told ELSE SubSeq(told, 1, Min(done) - 1)
=============================================================================
