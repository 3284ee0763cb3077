------------------------------ MODULE Embeddings ------------------------------
(***************************************************************************)
(* The embeddings endpoint (src/src/embeddings.rs): one call to Ollama's   *)
(* /api/embed, or, where that does not exist, one to /api/embeddings for   *)
(* each input.                                                             *)
(*                                                                         *)
(* Inputs are texts, "" the empty one.  A vector is a record [of, size]:   *)
(* the input it was computed from, and its dimension.                      *)
(***************************************************************************)
EXTENDS Integers, SequencesExt

VARIABLES job,               \* where the handler is
          inputs,            \* the texts to embed
          vectors,           \* what it has collected
          outcome            \* what the client was answered

embeddingVars == <<job, inputs, vectors, outcome>>

NoOutcome == [status |-> 0, data |-> <<>>]
Refusal(status) == [status |-> status, data |-> <<>>]

EmbeddingsInit ==
  /\ job = "none" /\ inputs = <<>> /\ vectors = <<>> /\ outcome = NoOutcome

\* EmbeddingsInput::is_empty: one input that is not empty will do.
NoInput(texts) == ToSet(texts) \subseteq {""}

\* validate_embeddings_request.  A field of the request is a set of at most one element.
Acceptable(request) ==
  /\ request.model \notin {{}, {""}}
  /\ request.input # {} /\ \A texts \in request.input : ~NoInput(texts)
  /\ request.format \subseteq {"float"}

\* embeddings_handler: validation, and the first provider of type ollama.
AskEmbeddings(request, ollamaConfigured) ==
  /\ job = "none"
  /\ \/ /\ Acceptable(request) /\ ollamaConfigured
        /\ job' = "modern" /\ inputs' \in request.input
        /\ UNCHANGED outcome
     \/ /\ ~(Acceptable(request) /\ ollamaConfigured)
        /\ job' = "answered"
        /\ outcome' = Refusal(IF Acceptable(request) THEN 503 ELSE 400)
        /\ UNCHANGED inputs
  /\ UNCHANGED vectors

Answer(status) ==
  /\ job' = "answered"
  /\ outcome' = Refusal(status)
  /\ UNCHANGED <<inputs, vectors>>

\* The vectors of the first n texts; one more than there are texts is of none.
Vectors(texts, n, size) ==
  [k \in 1..n |-> [of |-> IF k <= Len(texts) THEN texts[k] ELSE "nothing", size |-> size]]

\* call_ollama_embed: the vectors; no such endpoint; a body that is no JSON; or
\* no answer.  Ollama may return too few vectors, one too many, or empty ones;
\* they are in the order of the texts.
ModernAnswers(texts) ==
  {[kind |-> "vectors", vectors |-> Vectors(texts, n, size)] :
     size \in {0, 2}, n \in 0..(Len(texts) + 1)}
  \cup {[kind |-> kind, vectors |-> <<>>] : kind \in {"notFound", "garbled", "failed"}}

CallModern(answer) ==
  /\ job = "modern"
  /\ CASE answer.kind = "vectors" ->
            job' = "collected" /\ vectors' = answer.vectors /\ UNCHANGED <<inputs, outcome>>
       [] answer.kind = "notFound" -> job' = "legacy" /\ UNCHANGED <<inputs, vectors, outcome>>
       [] answer.kind = "garbled" -> Answer(502)
       [] OTHER -> Answer(503)

\* call_ollama_embeddings_legacy: one input after the other.  A failure ends it;
\* there is no further fallback, whatever the status.
LegacyAnswers(text) ==
  {[kind |-> "vector", vector |-> [of |-> text, size |-> size]] : size \in {0, 2}}
  \cup {[kind |-> kind] : kind \in {"notFound", "garbled", "failed"}}

\* Fault: an input that cannot be embedded gets the vector of the one before it.
CallLegacyRepeating(answer) ==
  /\ job = "legacy" /\ Len(vectors) < Len(inputs)
  /\ vectors' = IF answer.kind = "vector" THEN Append(vectors, answer.vector)
                ELSE IF vectors = <<>> THEN vectors ELSE Append(vectors, Last(vectors))
  /\ job' = IF Len(vectors') = Len(inputs) THEN "collected" ELSE "legacy"
  /\ UNCHANGED <<inputs, outcome>>

CallLegacy(answer) ==
  /\ job = "legacy" /\ Len(vectors) < Len(inputs)
  /\ \/ /\ answer.kind = "vector"
        /\ vectors' = Append(vectors, answer.vector)
        /\ job' = IF Len(vectors') = Len(inputs) THEN "collected" ELSE "legacy"
        /\ UNCHANGED <<inputs, outcome>>
     \/ answer.kind = "garbled" /\ Answer(502)
     \/ answer.kind \in {"notFound", "failed"} /\ Answer(503)

\* Fault: too few vectors are asked for again.
CheckVectorsAndRetry ==
  /\ job = "collected"
  /\ IF Len(vectors) # Len(inputs)
       THEN job' = "modern" /\ vectors' = <<>> /\ UNCHANGED outcome
       ELSE /\ job' = "answered" /\ UNCHANGED vectors
            /\ outcome' = [status |-> 200,
                 data |-> [k \in DOMAIN vectors |-> [index |-> k - 1, vector |-> vectors[k]]]]
  /\ UNCHANGED inputs

\* The handler: as many vectors as inputs, none of them empty.
CheckVectors ==
  /\ job = "collected"
  /\ job' = "answered"
  /\ outcome' = IF Len(vectors) # Len(inputs) \/ \E k \in DOMAIN vectors : vectors[k].size = 0
                  THEN Refusal(502)
                  ELSE [status |-> 200,
                        data |-> [k \in DOMAIN vectors |-> [index |-> k - 1, vector |-> vectors[k]]]]
  /\ UNCHANGED <<inputs, vectors>>

EmbeddingsStep ==
  \/ \E answer \in ModernAnswers(inputs) : CallModern(answer)
  \/ /\ job = "legacy"
     /\ \E answer \in LegacyAnswers(inputs[Len(vectors) + 1]) : CallLegacy(answer)
  \/ CheckVectors
-----------------------------------------------------------------------------
(* Properties.                                                             *)

\* Whatever the provider fails at, and however many vectors it returns (in the order
\* of the texts, which the code relies on): a client that gets vectors gets one for
\* each of its inputs, and each is that input's.
EmbeddingsAreWhole ==
  outcome.status = 200 =>
    /\ Len(outcome.data) = Len(inputs)
    /\ \A k \in DOMAIN outcome.data :
         /\ outcome.data[k].index = k - 1
         /\ outcome.data[k].vector.of = inputs[k] /\ outcome.data[k].vector.size > 0
=============================================================================
