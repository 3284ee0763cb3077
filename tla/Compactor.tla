------------------------------ MODULE Compactor ------------------------------
(***************************************************************************)
(* The two context compactors of src/src/compactor.rs, and the use that    *)
(* the chat handler makes of them (src/src/router.rs).                     *)
(*                                                                         *)
(* A message is a record [role, content, calls, answers]: `calls` are the  *)
(* tool calls of an assistant, `answers` the call that a tool's result     *)
(* belongs to, if any.  A content is a record [text, chars, leanText, lean,*)
(* markers, features, words, technical]: what it says and its length, the  *)
(* same without stop words, how many critical markers it has, which of the *)
(* features that score, its long words, and how many technical keywords.   *)
(* Ratios are in hundredths.                                               *)
(***************************************************************************)
EXTENDS Sublists

CONSTANT RoleChars           \* the length of each role's name

ASSUME RoleAssumption == \A role \in DOMAIN RoleChars : RoleChars[role] \in Nat \ {0}

\* What a message is: leaving words out makes no text longer.
IsMessage(m) ==
  /\ DOMAIN m = {"role", "content", "calls", "answers"}
  /\ m.role \in DOMAIN RoleChars \cup {""}
  /\ DOMAIN m.content =
       {"text", "chars", "leanText", "lean", "markers", "features", "words", "technical"}
  /\ m.content.chars \in Nat /\ m.content.lean \in 0..m.content.chars
  /\ m.content.markers \in Nat /\ m.content.technical \in Nat
  /\ m.content.features \subseteq {"numbers", "routes", "dates", "auxiliary", "padding"}
  /\ IsList(m.content.words)

\* count_tokens: four characters are a token, or part of one.
CountTokens(chars) == (chars + 3) \div 4

Tokens(m) == CountTokens(RoleChars[m.role]) + CountTokens(m.content.chars)

\* total_tokens, of the messages at some positions.
TokensAt(ms, kept) == SumFunctionOnSet([i \in DOMAIN ms |-> Tokens(ms[i])], kept)
TotalTokens(ms) == TokensAt(ms, DOMAIN ms)

\* Positions in the order that a sort puts them in, each after those ahead of it.
Arranged(positions, ahead) ==
  [k \in 1..Cardinality(positions) |->
     CHOOSE i \in positions : Cardinality(ahead[i]) = k - 1]

\* A CompactMessage has a role and a content only.
Plain(m) == [m EXCEPT !.calls = <<>>, !.answers = {}]

\* remove_stop_words: another text, of the words that are left.
WithoutStopWords(m) ==
  [m EXCEPT !.content.text = m.content.leanText, !.content.chars = m.content.lean]

\* Fault: stop words are left out of every message.
LeanEverywhere(ms, eligible, stopWords) ==
  [i \in DOMAIN ms |-> IF stopWords THEN WithoutStopWords(ms[i]) ELSE ms[i]]

\* Stop words, if there are any, are left out of the messages at some positions.
LeanAt(ms, eligible, stopWords) ==
  [i \in DOMAIN ms |-> IF i \in eligible /\ stopWords THEN WithoutStopWords(ms[i]) ELSE ms[i]]

Untouched(ms) ==
  [messages |-> ms, original |-> TotalTokens(ms), final |-> TotalTokens(ms),
   compressed |-> FALSE, target |-> TotalTokens(ms), removed |-> <<>>]

System(ms) == {i \in DOMAIN ms : ms[i].role = "system"}

LastUser(ms, kept) ==
  {i \in kept : ms[i].role = "user" /\ \A j \in kept : ms[j].role = "user" => j <= i}

\* Fault: the position that makes the rest fit is followed by one more.
TakenOneMore(ms, kept, order, target, least) ==
  LET fits == {n \in least..Len(order) :
                 TokensAt(ms, kept \ {order[k] : k \in 1..n}) <= target}
  IN IF fits = {} \/ Min(fits) = Len(order) THEN order ELSE SubSeq(order, 1, Min(fits) + 1)

\* The first positions of an order, and at least `least` of them, without which
\* the rest fits the target; all of them if it never fits.
Taken(ms, kept, order, target, least) ==
  LET fits == {n \in least..Len(order) :
                 TokensAt(ms, kept \ {order[k] : k \in 1..n}) <= target}
  IN IF fits = {} THEN order ELSE SubSeq(order, 1, Min(fits))
-----------------------------------------------------------------------------
\* The window: all system messages and the last of the others.
Windowed(ms, max) ==
  System(ms) \cup {i \in DOMAIN ms \ System(ms) :
                     Cardinality({j \in DOMAIN ms \ System(ms) : j >= i}) <= max}

\* No history is emptied: if all its messages went, the last one comes back.
NeverEmpty(final, ms) ==
  IF final # <<>> \/ ms = <<>> THEN final ELSE <<Last(ms)>>

\* SimpleCompactor::compact, with its four ways out.
AdaptiveTrimming(ms, config) ==
  LET original == TotalTokens(ms)
      window == Windowed(ms, config.maxHistoryMessages)
      eligible == window \ (System(ms) \cup LastUser(ms, window))
      lean == LeanAt(ms, eligible, config.stopWords)
      target == (3 * original) \div 4
      oldest == Arranged(eligible, [i \in eligible |-> {j \in eligible : j < i}])
      removed == Taken(lean, window, oldest, target, 1)
      kept == window \ ToSet(removed)
      outcome(final, cut) ==
        IF final = <<>> THEN Untouched(ms)
        ELSE [messages |-> final, original |-> original, final |-> TotalTokens(final),
              compressed |-> TRUE, target |-> target, removed |-> cut]
  IN IF original < config.tokenThreshold /\ Len(ms) <= config.maxHistoryMessages
       THEN Untouched(ms)
     ELSE IF TokensAt(ms, window) < config.tokenThreshold
       THEN [outcome(ElementsAt(ms, window), <<>>) EXCEPT
               !.compressed = window # {} /\ window # DOMAIN ms]
     ELSE IF TokensAt(lean, window) <= target
       THEN outcome(ElementsAt(lean, window), <<>>)
     ELSE outcome(NeverEmpty(ElementsAt(lean, kept), ms), removed)
-----------------------------------------------------------------------------
\* What features of a text are worth; "numbers" are digits or percentages,
\* "routes" are URLs, "dates" are of the form YYYY-MM-DD or DD/MM/YYYY, the other
\* two are phrases of padding.
Worth == [numbers |-> 30, routes |-> 30, dates |-> 20, auxiliary |-> -30, padding |-> -20]

\* extract_query_terms: the long words of the last message of the user.
QueryTerms(ms) ==
  IF LastUser(ms, DOMAIN ms) = {} THEN <<>>
  ELSE ms[CHOOSE i \in LastUser(ms, DOMAIN ms) : TRUE].content.words

\* calculate_score.
Score(m, isLastUser, terms) ==
  (IF m.role = "system" THEN 100 ELSE 0) + (IF isLastUser THEN 100 ELSE 0)
    + 80 * m.content.markers + SumFunctionOnSet(Worth, m.content.features)
    + 20 * Cardinality({k \in DOMAIN terms : terms[k] \in ToSet(m.content.words)})
    + 15 * m.content.technical
    - (IF m.role = "assistant" /\ m.content.chars < 30 THEN 20 ELSE 0)

Protected(ms, config) ==
  System(ms) \cup LastUser(ms, DOMAIN ms)
    \cup {i \in DOMAIN ms : config.preserveCriticalMarkers /\ ms[i].content.markers > 0}

\* SemanticGuardedCompactor::compact: messages go in the order of their scores;
\* where nothing is protected, all may go.
SemanticGuardedTrimming(ms, config) ==
  LET original == TotalTokens(ms)
      target == Max({(original * config.targetTokenRatio) \div 100, config.minFinalTokens})
      guarded == Protected(ms, config)
      score == [i \in DOMAIN ms |->
                  Score(ms[i], i \in LastUser(ms, DOMAIN ms), QueryTerms(ms))]
      free == DOMAIN ms \ guarded
      worse == [i \in free |->
                  {j \in free : score[j] < score[i] \/ (score[j] = score[i] /\ j < i)}]
      removable == Arranged(free, worse)
      removed == IF TokensAt(ms, guarded) >= target THEN removable
                 ELSE Taken(ms, DOMAIN ms, removable, target, 0)
      final == ElementsAt(ms, DOMAIN ms \ ToSet(removed))
  IN IF original < config.tokenThreshold THEN Untouched(ms)
     ELSE [messages |-> final, original |-> original, final |-> TotalTokens(final),
           compressed |-> TRUE, target |-> target, removed |-> removed]

\* The handler: any strategy but one is trimming; a compressed history replaces
\* the messages, and a message is then its role and its content.
Compact(ms, config) ==
  LET plain == [i \in DOMAIN ms |-> Plain(ms[i])]
      result == IF config.strategy = "semantic_guarded_trimming"
                  THEN SemanticGuardedTrimming(plain, config)
                  ELSE AdaptiveTrimming(plain, config)
  IN IF result.compressed THEN result ELSE [result EXCEPT !.messages = ms]
=============================================================================
