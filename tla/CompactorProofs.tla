-------------------------- MODULE CompactorProofs --------------------------
(***************************************************************************)
(* Proofs about Compactor, for every history and every setting: whichever  *)
(* strategy is chosen, the messages that are kept are some of the history, *)
(* in order; the system messages are all there; so is the last message of  *)
(* the user, unless the window of AdaptiveTrimming has moved past it; no   *)
(* context is longer than the history; and without the message that went   *)
(* last there would have been one too many (StrategyTrims, CompactTrims).  *)
(*                                                                         *)
(* A loop that removes messages one at a time, until the context is short  *)
(* enough, is Taken: the shortest prefix of an order of removal that is    *)
(* long enough.  Each strategy is that prefix, of an order of its own.     *)
(***************************************************************************)
EXTENDS Compactor, Collections

(* Counting.                                                               *)

\* Tokens are counted in naturals, and any text has one ...
LEMMA CountIsNat ==
  ASSUME NEW n \in Nat
  PROVE  CountTokens(n) \in Nat /\ (n > 0 => CountTokens(n) >= 1)
BY DEF CountTokens

\* ... and a longer text has no fewer.
LEMMA CountIsMonotone ==
  ASSUME NEW m \in Nat, NEW n \in Nat, m <= n
  PROVE  CountTokens(m) <= CountTokens(n)
BY DEF CountTokens

\* A message of one of the roles.
Spoken(m) == IsMessage(m) /\ m.role \in DOMAIN RoleChars

\* A message with a role has at least one token, whatever the length of its text.
LEMMA TokensAreNat ==
  ASSUME NEW m, Spoken(m)
  PROVE  Tokens(m) \in Nat /\ Tokens(m) >= 1
<1>1. RoleChars[m.role] \in Nat \ {0} /\ m.content.chars \in Nat
  BY RoleAssumption DEF Spoken, IsMessage
<1>2. /\ CountTokens(RoleChars[m.role]) \in Nat /\ CountTokens(RoleChars[m.role]) >= 1
      /\ CountTokens(m.content.chars) \in Nat
  BY <1>1, CountIsNat
<1> QED
  BY <1>2 DEF Tokens

\* A CompactMessage says what the message did.
LEMMA PlainIsSame ==
  ASSUME NEW m, Spoken(m)
  PROVE  /\ Spoken(Plain(m)) /\ Plain(m).role = m.role /\ Plain(m).content = m.content
         /\ Tokens(Plain(m)) = Tokens(m)
<1>1. /\ Plain(m).role = m.role /\ Plain(m).content = m.content
      /\ DOMAIN Plain(m) = DOMAIN m
  BY DEF Spoken, IsMessage, Plain
<1> QED
  BY <1>1 DEF Spoken, IsMessage, Tokens

\* Leaving out stop words leaves another text, of no more tokens.
LEMMA LeanIsLess ==
  ASSUME NEW m, Spoken(m)
  PROVE  LET lean == WithoutStopWords(m)
         IN /\ Spoken(lean) /\ lean.role = m.role
            /\ lean.content.text = m.content.leanText /\ lean.content.chars = m.content.lean
            /\ Tokens(lean) = CountTokens(RoleChars[m.role]) + CountTokens(m.content.lean)
            /\ Tokens(lean) <= Tokens(m)
<1> DEFINE lean == WithoutStopWords(m)
<1>1. /\ lean.role = m.role /\ DOMAIN lean = DOMAIN m
      /\ lean.content = [m.content EXCEPT !.text = m.content.leanText, !.chars = m.content.lean]
  BY DEF Spoken, IsMessage, WithoutStopWords
<1>2. /\ DOMAIN lean.content = DOMAIN m.content /\ lean.content.chars = m.content.lean
      /\ lean.content.text = m.content.leanText /\ lean.content.lean = m.content.lean
      /\ lean.content.markers = m.content.markers
      /\ lean.content.technical = m.content.technical
      /\ lean.content.features = m.content.features /\ lean.content.words = m.content.words
  BY <1>1 DEF Spoken, IsMessage
<1>3. m.content.lean \in 0..m.content.chars /\ m.content.chars \in Nat
  BY DEF Spoken, IsMessage
<1>4. m.content.lean \in 0..m.content.lean /\ m.content.lean \in Nat
      /\ m.content.lean <= m.content.chars
  <2>1. \A c \in Nat : \A l \in 0..c : l \in Nat /\ l <= c /\ l \in 0..l
    OBVIOUS
  <2> QED
    BY <1>3, <2>1
<1> HIDE DEF lean
<1>5. Spoken(lean)
  BY <1>1, <1>2, <1>4 DEF Spoken, IsMessage
<1>6. CountTokens(m.content.lean) <= CountTokens(m.content.chars)
  BY <1>3, <1>4, CountIsMonotone
<1>7. Tokens(lean) = CountTokens(RoleChars[m.role]) + CountTokens(m.content.lean)
  BY <1>1, <1>2 DEF Tokens
<1>8. /\ CountTokens(RoleChars[m.role]) \in Nat
      /\ CountTokens(m.content.lean) \in Nat /\ CountTokens(m.content.chars) \in Nat
  <2>1. RoleChars[m.role] \in Nat
    BY RoleAssumption DEF Spoken, IsMessage
  <2> QED
    BY <1>3, <1>4, <2>1, CountIsNat
<1>9. Tokens(lean) <= Tokens(m)
  <2>1. Tokens(m) = CountTokens(RoleChars[m.role]) + CountTokens(m.content.chars)
    BY DEF Tokens
  <2> QED
    BY <1>6, <1>7, <1>8, <2>1
<1> QED
  BY <1>1, <1>2, <1>5, <1>7, <1>9 DEF lean
-----------------------------------------------------------------------------
(* The tokens of a history.                                                *)

\* One message more, at the end.
LEMMA TokensAppend ==
  ASSUME NEW M, \A m \in M : Tokens(m) \in Nat, NEW s \in Seq(M), NEW x \in M,
         NEW T \in SUBSET (1..Len(s))
  PROVE  /\ TokensAt(Append(s, x), T) = TokensAt(s, T)
         /\ TokensAt(Append(s, x), T \cup {Len(s) + 1}) = Tokens(x) + TokensAt(s, T)
<1> DEFINE t == Append(s, x)
           n == Len(s)
           f == [i \in DOMAIN s |-> Tokens(s[i])]
           g == [i \in DOMAIN t |-> Tokens(t[i])]
<1>1. /\ n \in Nat /\ DOMAIN s = 1..n /\ \A i \in 1..n : s[i] \in M
      /\ t \in Seq(M) /\ DOMAIN t = 1..(n + 1) /\ t[n + 1] = x /\ \A i \in 1..n : t[i] = s[i]
  BY AppendProperties, LenProperties, ElementOfSeq
<1>2. IsFiniteSet(T) /\ n + 1 \notin T /\ \A i \in T : i \in 1..n
  <2>1. IsFiniteSet(1..n)
    BY <1>1, FS_Interval
  <2>2. IsFiniteSet(T)
    BY <2>1, FS_Subset
  <2> QED
    BY <1>1, <2>2
<1>3. /\ \A i \in T : f[i] \in Int /\ f[i] = g[i] /\ g[i] \in Int
      /\ g[n + 1] = Tokens(x) /\ g[n + 1] \in Int
  <2>1. \A i \in 1..n : f[i] = Tokens(s[i]) /\ g[i] = Tokens(s[i]) /\ Tokens(s[i]) \in Int
    BY <1>1
  <2>2. g[n + 1] = Tokens(x) /\ Tokens(x) \in Int
    BY <1>1
  <2> QED
    BY <1>2, <2>1, <2>2
<1> HIDE DEF f, g, n
<1>4. SumFunctionOnSet(f, T) = SumFunctionOnSet(g, T)
  BY <1>2, <1>3, SumOfSame
<1>5. SumFunctionOnSet(g, T \cup {n + 1}) = g[n + 1] + SumFunctionOnSet(g, T)
  <2>1. \A i \in T \cup {n + 1} : g[i] \in Int
    BY <1>3
  <2> QED
    BY <1>2, <2>1, SumAdds
<1> QED
  BY <1>3, <1>4, <1>5 DEF TokensAt, f, g, n

\* Messages that are kept have the tokens they had.
LEMMA TokensOfElements ==
  ASSUME NEW M, \A m \in M : Tokens(m) \in Nat, NEW s \in Seq(M), NEW kept
  PROVE  TotalTokens(ElementsAt(s, kept)) = TokensAt(s, kept \cap DOMAIN s)
<1> DEFINE Q == {r \in Seq(M) : TotalTokens(ElementsAt(r, kept)) = TokensAt(r, kept \cap DOMAIN r)}
<1>0. \A q \in Seq(M) : \A y \in M : \A T \in SUBSET (1..Len(q)) :
        /\ TokensAt(Append(q, y), T) = TokensAt(q, T)
        /\ TokensAt(Append(q, y), T \cup {Len(q) + 1}) = Tokens(y) + TokensAt(q, T)
  BY TokensAppend
<1>1. <<>> \in Q
  <2>1. kept \cap DOMAIN <<>> = {} /\ ElementsAt(<<>>, kept) = <<>> /\ DOMAIN <<>> = {}
    BY ElementsOfNone
  <2>2. TotalTokens(<<>>) = TokensAt(<<>>, {})
    BY <2>1 DEF TotalTokens
  <2>3. <<>> \in Seq(M)
    OBVIOUS
  <2> QED
    BY <2>1, <2>2, <2>3
<1>2. ASSUME NEW r \in Seq(M), NEW x \in M, r \in Q PROVE Append(r, x) \in Q
  <2> DEFINE t == Append(r, x)
             e == ElementsAt(r, kept)
             n == Len(r)
             T == kept \cap (1..n)
  <2>1. /\ n \in Nat /\ DOMAIN r = 1..n /\ t \in Seq(M) /\ DOMAIN t = 1..(n + 1)
    BY AppendProperties, LenProperties
  <2>2. e \in Seq(M) /\ DOMAIN e = 1..Len(e) /\ Len(e) \in Nat
    BY ElementsIsSeq, LenProperties
  <2>3. TotalTokens(e) = TokensAt(r, T)
    BY <1>2, <2>1
  <2>4. CASE n + 1 \in kept
    <3>1. ElementsAt(t, kept) = Append(e, x)
      BY <2>4, ElementsAppend
    <3>2. kept \cap DOMAIN t = T \cup {n + 1}
      BY <2>1, <2>4
    <3>3. TokensAt(t, T \cup {n + 1}) = Tokens(x) + TokensAt(r, T)
      BY <1>0
    <3>4. DOMAIN Append(e, x) = (1..Len(e)) \cup {Len(e) + 1}
      <4>1. DOMAIN Append(e, x) = 1..(Len(e) + 1)
        BY <2>2, AppendProperties, LenProperties
      <4> HIDE DEF e
      <4> QED
        BY <2>2, <4>1
    <3>5. TokensAt(Append(e, x), (1..Len(e)) \cup {Len(e) + 1}) = Tokens(x) + TokensAt(e, 1..Len(e))
      <4> DEFINE all == 1..Len(e)
      <4>1. e \in Seq(M) /\ all \in SUBSET (1..Len(e))
        BY <2>2
      <4> HIDE DEF e, all
      <4>2. TokensAt(Append(e, x), all \cup {Len(e) + 1}) = Tokens(x) + TokensAt(e, all)
        BY <1>0, <4>1, Zenon
      <4> QED
        BY <4>2 DEF all
    <3>6. TotalTokens(Append(e, x)) = Tokens(x) + TotalTokens(e)
      BY <2>2, <3>4, <3>5, Zenon DEF TotalTokens
    <3>7. TotalTokens(ElementsAt(t, kept)) = TokensAt(t, kept \cap DOMAIN t)
      BY <2>3, <3>1, <3>2, <3>3, <3>6, Zenon
    <3> QED
      BY <2>1, <3>7
  <2>5. CASE n + 1 \notin kept
    <3>1. ElementsAt(t, kept) = e
      BY <2>5, ElementsAppend
    <3>2. kept \cap DOMAIN t = T
      BY <2>1, <2>5
    <3>3. TokensAt(t, T) = TokensAt(r, T)
      <4>1. T \in SUBSET (1..Len(r))
        OBVIOUS
      <4> HIDE DEF T
      <4> QED
        BY <1>0, <4>1, Zenon
    <3>4. TotalTokens(ElementsAt(t, kept)) = TokensAt(t, kept \cap DOMAIN t)
      BY <2>3, <3>1, <3>2, <3>3, Zenon
    <3> QED
      BY <2>1, <3>4
  <2> QED
    BY <2>4, <2>5
<1> HIDE DEF Q
<1>3. s \in Q
  BY <1>1, <1>2, SeqInduction
<1> QED
  BY <1>3 DEF Q
-----------------------------------------------------------------------------
(* The order in which messages are removed, and how many are.              *)

\* A sort that puts each position after those ahead of it puts all of them in order.
LEMMA ArrangedOrders ==
  ASSUME NEW D, IsFiniteSet(D), NEW ahead,
         \A i \in D : ahead[i] \in SUBSET D /\ i \notin ahead[i],
         \A i, j \in D : i \in ahead[j] => ahead[i] \subseteq ahead[j],
         \A i, j \in D : i = j \/ i \in ahead[j] \/ j \in ahead[i]
  PROVE  Arranged(D, ahead) \in Seq(D)
<1> DEFINE n == Cardinality(D)
           rank == [i \in D |-> Cardinality(ahead[i])]
           ranks == 0..(n - 1)
           order == Arranged(D, ahead)
<1>1. n \in Nat /\ \A i \in D : IsFiniteSet(ahead[i]) /\ Cardinality(ahead[i]) \in Nat
  BY FS_CardinalityType, FS_Subset
<1>2. \A i \in D : rank[i] \in ranks
  <2>1. ASSUME NEW i \in D PROVE Cardinality(ahead[i]) <= n - 1
    <3>1. IsFiniteSet(D \ {i}) /\ Cardinality(D \ {i}) = n - 1
      BY FS_RemoveElement
    <3>2. ahead[i] \in SUBSET (D \ {i})
      OBVIOUS
    <3>3. Cardinality(ahead[i]) <= Cardinality(D \ {i})
      BY <3>1, <3>2, FS_Subset
    <3> QED
      BY <3>1, <3>3
  <2> QED
    BY <1>1, <2>1
<1>3. \A i \in D : \A j \in D : rank[i] = rank[j] => i = j
  <2>1. ASSUME NEW i \in D, NEW j \in D, i \in ahead[j] PROVE rank[i] # rank[j]
    <3>1. ahead[i] \in SUBSET ahead[j] /\ ahead[i] # ahead[j]
      BY <2>1
    <3>2. Cardinality(ahead[i]) # Cardinality(ahead[j])
      BY <1>1, <3>1, FS_Subset
    <3> QED
      BY <3>2
  <2> HIDE DEF rank
  <2> QED
    BY <2>1
<1>4. rank \in Injection(D, ranks)
  BY <1>2, <1>3 DEF Injection, IsInjective
<1>5. IsFiniteSet(ranks) /\ Cardinality(ranks) = n
  <2>1. n - 1 \in Int
    BY <1>1
  <2> HIDE DEF n
  <2>2. IsFiniteSet(ranks) /\ Cardinality(ranks) = IF 0 > n - 1 THEN 0 ELSE (n - 1) - 0 + 1
    BY <2>1, FS_Interval
  <2> QED
    BY <1>1, <2>2
<1>6. rank \in Surjection(D, ranks)
  <2> HIDE DEF rank, ranks
  <2> QED
    BY <1>4, <1>5, FS_Injection
<1>7. ASSUME NEW k \in 1..n PROVE order[k] \in D
  <2>1. k - 1 \in ranks
    BY <1>1
  <2>2. PICK i \in D : rank[i] = k - 1
    BY <1>6, <2>1 DEF Surjection
  <2>3. order[k] = CHOOSE j \in D : Cardinality(ahead[j]) = k - 1
    BY DEF Arranged
  <2> QED
    BY <2>2, <2>3
<1>8. order \in [1..n -> D]
  BY <1>7 DEF Arranged
<1> HIDE DEF order, n
<1> QED
  BY <1>1, <1>8 DEF order

\* The beginning of a sequence has its elements.
LEMMA PrefixProperties ==
  ASSUME NEW S, NEW s, NEW n \in Nat, \A k \in 1..n : s[k] \in S
  PROVE  /\ SubSeq(s, 1, n) \in Seq(S) /\ Len(SubSeq(s, 1, n)) = n
         /\ \A k \in 1..n : SubSeq(s, 1, n)[k] = s[k]
<1> DEFINE prefix == SubSeq(s, 1, n)
<1>1. /\ prefix \in Seq(S) /\ Len(prefix) = IF 1 <= n THEN n - 1 + 1 ELSE 0
      /\ \A k \in 1..(n - 1 + 1) : prefix[k] = s[1 + k - 1]
  BY SubSeqProperties
<1> HIDE DEF prefix
<1>2. n - 1 + 1 = n /\ \A k \in 1..n : 1 + k - 1 = k
  OBVIOUS
<1>3. Len(prefix) = n /\ \A k \in 1..n : prefix[k] = s[k]
  BY <1>1, <1>2
<1> QED
  BY <1>1, <1>3 DEF prefix

LEMMA OneMore ==
  ASSUME NEW n \in Nat
  PROVE  \A k : k \in 1..(n + 1) <=> k \in 1..n \/ k = n + 1
<1>1. 1..(n + 1) = (1..n) \cup {n + 1}
  OBVIOUS
<1> QED
  BY <1>1, Zenon

\* What is thrown away comes from the order; and if anything is, then the rest
\* with what went last would not fit the target.
LEMMA TakenIsFrugal ==
  ASSUME NEW M, \A m \in M : Tokens(m) \in Nat, NEW ms \in Seq(M),
         NEW kept \in SUBSET (DOMAIN ms), NEW order \in Seq(kept), NEW target \in Int,
         NEW least \in {0, 1}, least = 1 => TokensAt(ms, kept) > target
  PROVE  LET removed == Taken(ms, kept, order, target, least)
         IN /\ removed \in Seq(kept) /\ ToSet(removed) \subseteq ToSet(order)
            /\ removed # <<>> =>
                 /\ Len(removed) \in 1..Len(removed)
                 /\ TokensAt(ms, kept \ ToSet(removed)) + Tokens(ms[Last(removed)]) > target
<1> DEFINE first == [n \in Nat |-> {order[k] : k \in 1..n}]
           rest == [n \in Nat |-> TokensAt(ms, kept \ first[n])]
           fits == {n \in least..Len(order) : rest[n] <= target}
           removed == Taken(ms, kept, order, target, least)
           tokens == [i \in DOMAIN ms |-> Tokens(ms[i])]
<1>1. /\ Len(order) \in Nat /\ \A k \in 1..Len(order) : order[k] \in kept
      /\ IsFiniteSet(kept) /\ \A i \in kept : tokens[i] \in Nat
  <2>1. DOMAIN ms = 1..Len(ms) /\ Len(ms) \in Nat
    BY LenProperties
  <2>2. IsFiniteSet(1..Len(ms))
    BY <2>1, FS_Interval
  <2>3. IsFiniteSet(kept)
    BY <2>1, <2>2, FS_Subset
  <2>4. \A i \in DOMAIN ms : ms[i] \in M
    BY <2>1, ElementOfSeq
  <2> QED
    BY <2>3, <2>4, LenProperties, ElementOfSeq
<1>2. \A T \in SUBSET kept : TokensAt(ms, T) \in Nat
  <2>1. \A T \in SUBSET kept : SumFunctionOnSet(tokens, T) \in Nat
    <3> HIDE DEF tokens
    <3> QED
      BY <1>1, SumOfSubset
  <2> QED
    BY <2>1 DEF TokensAt
<1>3. ASSUME NEW n \in 0..(Len(order) - 1), rest[n] > target
      PROVE  rest[n + 1] + Tokens(ms[order[n + 1]]) > target
  <2> DEFINE x == order[n + 1]
             R == kept \ first[n + 1]
             Q == kept \ first[n]
  <2>1. n \in Nat /\ n + 1 \in Nat /\ n + 1 \in 1..Len(order) /\ x \in kept
    BY <1>1
  <2>2. \A k : k \in 1..(n + 1) <=> k \in 1..n \/ k = n + 1
    BY <2>1, OneMore
  <2>3. first[n + 1] = first[n] \cup {x}
    BY <2>1, <2>2
  <2>4. x \notin R /\ Q \in SUBSET (R \cup {x}) /\ R \in SUBSET kept /\ R \cup {x} \in SUBSET kept
    BY <2>1, <2>3
  <2> HIDE DEF x, R, Q
  <2>5. IsFiniteSet(R) /\ IsFiniteSet(R \cup {x})
    BY <1>1, <2>4, FS_Subset
  <2>6. /\ \A i \in R \cup {x} : tokens[i] \in Nat
        /\ \A i \in R \cup {x} : tokens[i] \in Int
    BY <1>1, <2>4
  <2> HIDE DEF tokens
  <2>7. SumFunctionOnSet(tokens, R \cup {x}) = tokens[x] + SumFunctionOnSet(tokens, R)
    BY <2>4, <2>5, <2>6, SumAdds
  <2>8. SumFunctionOnSet(tokens, Q) <= SumFunctionOnSet(tokens, R \cup {x})
    BY <2>4, <2>5, <2>6, SumOfSubset
  <2>9. tokens[x] = Tokens(ms[x]) /\ Tokens(ms[x]) \in Nat
    BY <1>1, <2>1 DEF tokens
  <2>10. TokensAt(ms, Q) <= Tokens(ms[x]) + TokensAt(ms, R)
    BY <2>7, <2>8, <2>9 DEF TokensAt, tokens
  <2>11. TokensAt(ms, Q) \in Nat /\ TokensAt(ms, R) \in Nat
    BY <1>2, <2>4 DEF Q
  <2>12. rest[n] = TokensAt(ms, Q) /\ rest[n + 1] = TokensAt(ms, R)
    BY <2>1 DEF Q, R
  <2> HIDE DEF rest
  <2>13. TokensAt(ms, R) + Tokens(ms[x]) > target
    BY <1>3, <2>9, <2>10, <2>11, <2>12
  <2> QED
    BY <2>12, <2>13 DEF x
<1>4. removed = IF fits = {} THEN order ELSE SubSeq(order, 1, Min(fits))
  <2>1. \A n \in least..Len(order) : n \in Nat
    BY <1>1
  <2>2. fits = {n \in least..Len(order) : TokensAt(ms, kept \ {order[k] : k \in 1..n}) <= target}
    BY <2>1
  <2> HIDE DEF fits
  <2> QED
    BY <2>2 DEF Taken
<1>5. rest[0] = TokensAt(ms, kept)
  <2>1. first[0] = {} /\ kept \ {} = kept
    OBVIOUS
  <2> HIDE DEF first
  <2> QED
    BY <2>1
<1> HIDE DEF removed
<1>6. CASE fits = {}
  <2>1. removed = order /\ order \in Seq(kept)
    BY <1>4, <1>6
  <2>2. ASSUME order # <<>>
        PROVE  TokensAt(ms, kept \ ToSet(order)) + Tokens(ms[Last(order)]) > target
    <3>1. Len(order) \in Nat \ {0}
      BY <2>2, EmptySeq
    <3>2. ToSet(order) = first[Len(order)]
      BY <3>1 DEF ToSet
    <3>3. rest[Len(order)] = TokensAt(ms, kept \ ToSet(order))
      BY <3>1, <3>2
    <3>4. Len(order) \in least..Len(order)
      BY <3>1
    <3>5. rest[Len(order)] \in Nat
      <4>1. kept \ ToSet(order) \in SUBSET kept
        OBVIOUS
      <4> QED
        BY <1>2, <3>3, <4>1
    <3>6. rest[Len(order)] > target
      <4> HIDE DEF rest
      <4>1. ~(rest[Len(order)] <= target)
        BY <1>6, <3>4, Zenon
      <4> HIDE DEF fits
      <4> QED
        BY <3>5, <4>1
    <3>7. Tokens(ms[Last(order)]) \in Nat
      <4>1. order[Len(order)] \in kept
        BY <1>1, <3>1
      <4>2. ms[order[Len(order)]] \in M
        BY <4>1, LenProperties, ElementOfSeq
      <4> QED
        BY <4>2 DEF Last
    <3> HIDE DEF rest
    <3> QED
      BY <3>3, <3>5, <3>6, <3>7
  <2>3. order # <<>> => Len(order) \in 1..Len(order)
    BY EmptySeq
  <2> QED
    BY <2>1, <2>2, <2>3 DEF removed
<1>7. CASE fits # {}
  <2> DEFINE n == Min(fits)
  <2>1. n \in fits /\ \A k \in fits : n <= k
    <3>1. IsFiniteSet(least..Len(order)) /\ fits \subseteq least..Len(order) /\ fits \subseteq Int
      <4>1. least \in Int /\ Len(order) \in Int
        BY <1>1
      <4>2. fits \subseteq least..Len(order)
        BY Zenon
      <4> HIDE DEF fits
      <4>3. IsFiniteSet(least..Len(order))
        BY <4>1, FS_Interval
      <4>4. least..Len(order) \subseteq Int
        BY <4>1
      <4> QED
        BY <4>2, <4>3, <4>4
    <3> HIDE DEF fits
    <3>2. IsFiniteSet(fits)
      BY <3>1, FS_Subset
    <3> QED
      BY <1>7, <3>1, <3>2, MinIsLeast
  <2>2. n \in least..Len(order) /\ n \in Nat /\ n <= Len(order)
    <3>1. fits \subseteq least..Len(order)
      BY Zenon
    <3> HIDE DEF n, fits
    <3>2. n \in least..Len(order)
      BY <2>1, <3>1
    <3> QED
      BY <1>1, <3>2
  <2> HIDE DEF n
  <2>3. removed = SubSeq(order, 1, n)
    BY <1>4, <1>7 DEF n
  <2>4. /\ removed \in Seq(kept) /\ Len(removed) = n
        /\ \A k \in 1..n : removed[k] = order[k]
    <3>1. \A k \in 1..n : order[k] \in kept
      BY <1>1, <2>2
    <3>2. /\ SubSeq(order, 1, n) \in Seq(kept) /\ Len(SubSeq(order, 1, n)) = n
          /\ \A k \in 1..n : SubSeq(order, 1, n)[k] = order[k]
      <4>1. n \in Nat
        BY <2>2
      <4> HIDE DEF rest, first, fits, removed
      <4> QED
        BY <3>1, <4>1, PrefixProperties
    <3> QED
      BY <2>3, <3>2
  <2>5. ToSet(removed) = first[n]
    <3>1. DOMAIN removed = 1..n
      BY <2>4, LenProperties
    <3> QED
      BY <2>2, <2>4, <3>1 DEF ToSet
  <2>6. first[n] \subseteq ToSet(order)
    <3>1. DOMAIN order = 1..Len(order)
      BY LenProperties
    <3>2. first[n] = {order[k] : k \in 1..n} /\ 1..n \subseteq 1..Len(order)
      BY <1>1, <2>2
    <3> HIDE DEF first
    <3>3. first[n] \subseteq {order[k] : k \in 1..Len(order)}
      BY <3>2
    <3>4. {order[k] : k \in 1..Len(order)} = ToSet(order)
      BY <3>1 DEF ToSet
    <3> QED
      BY <3>3, <3>4
  <2>7. ASSUME removed # <<>>
        PROVE  TokensAt(ms, kept \ ToSet(removed)) + Tokens(ms[Last(removed)]) > target
    <3>1. n \in Nat \ {0}
      BY <2>2, <2>4, <2>7, EmptySeq
    <3>2. n - 1 \in 0..(Len(order) - 1) /\ n - 1 \in Nat /\ (n - 1) + 1 = n
      BY <1>1, <2>2, <3>1
    <3>3. rest[n - 1] \in Nat
      <4>1. kept \ first[n - 1] \in SUBSET kept
        OBVIOUS
      <4> HIDE DEF first
      <4>2. rest[n - 1] = TokensAt(ms, kept \ first[n - 1])
        BY <3>2
      <4> QED
        BY <1>2, <4>1, <4>2
    <3>4. rest[n - 1] > target
      <4>1. CASE n - 1 = 0 /\ least = 1
        <5> HIDE DEF rest
        <5> QED
          BY <1>5, <4>1
      <4>2. CASE n - 1 # 0 \/ least = 0
        <5>1. n - 1 \in least..Len(order) /\ ~(n <= n - 1)
          BY <1>1, <2>2, <3>1, <3>2, <4>2
        <5>2. n - 1 \notin fits
          BY <2>1, <5>1
        <5> HIDE DEF rest
        <5> QED
          BY <3>3, <5>1, <5>2
      <4> QED
        BY <4>1, <4>2
    <3>5. rest[n] + Tokens(ms[order[n]]) > target
      <4> HIDE DEF rest
      <4>1. rest[(n - 1) + 1] + Tokens(ms[order[(n - 1) + 1]]) > target
        BY <1>3, <3>2, <3>4
      <4> QED
        BY <3>2, <4>1
    <3>6. Last(removed) = order[n]
      <4> HIDE DEF removed, rest
      <4>1. n \in 1..n /\ Len(removed) = n
        BY <2>4, <3>1
      <4> QED
        BY <2>4, <4>1 DEF Last
    <3>7. rest[n] = TokensAt(ms, kept \ ToSet(removed))
      BY <2>2, <2>5
    <3> QED
      BY <3>5, <3>6, <3>7
  <2>8. removed # <<>> => Len(removed) \in 1..Len(removed)
    BY <2>4, EmptySeq
  <2> QED
    BY <2>4, <2>5, <2>6, <2>7, <2>8 DEF removed
<1> QED
  BY <1>6, <1>7
-----------------------------------------------------------------------------
(* Histories.                                                              *)

\* A history: messages of some role, at least one.
IsHistory(ms) == IsList(ms) /\ ms # <<>> /\ \A m \in Range(ms) : Spoken(m)

\* What is known of each position of a history.
LEMMA HistoryProperties ==
  ASSUME NEW ms, IsHistory(ms)
  PROVE  /\ ms \in Seq(Range(ms)) /\ DOMAIN ms = 1..Len(ms) /\ Len(ms) \in Nat \ {0}
         /\ IsFiniteSet(DOMAIN ms) /\ DOMAIN ms \subseteq Nat
         /\ \A i \in DOMAIN ms : ms[i] \in Range(ms) /\ Spoken(ms[i])
         /\ \A m \in Range(ms) : Tokens(m) \in Nat
         /\ \A i \in DOMAIN ms : Tokens(ms[i]) \in Nat /\ Tokens(ms[i]) >= 1
<1>1. ms \in Seq(Range(ms)) /\ ms # <<>> /\ \A m \in Range(ms) : Spoken(m)
  BY DEF IsHistory, IsList
<1>2. DOMAIN ms = 1..Len(ms) /\ Len(ms) \in Nat \ {0}
  BY <1>1, LenProperties, EmptySeq
<1>3. IsFiniteSet(1..Len(ms)) /\ 1..Len(ms) \subseteq Nat
  BY <1>2, FS_Interval
<1>4. \A i \in DOMAIN ms : ms[i] \in Range(ms)
  BY DEF Range
<1>5. \A m \in Range(ms) : Tokens(m) \in Nat /\ Tokens(m) >= 1
  BY <1>1, TokensAreNat
<1> QED
  BY <1>1, <1>2, <1>3, <1>4, <1>5

\* The tokens of fewer messages, or of shorter ones, are no more.
LEMMA TokensAreMonotone ==
  ASSUME NEW ms, IsHistory(ms), NEW lean, IsHistory(lean), DOMAIN lean = DOMAIN ms,
         \A i \in DOMAIN ms : Tokens(lean[i]) <= Tokens(ms[i]),
         NEW S \in SUBSET (DOMAIN ms), NEW T \in SUBSET S
  PROVE  /\ TokensAt(lean, T) \in Nat /\ TokensAt(ms, S) \in Nat
         /\ TokensAt(lean, T) <= TokensAt(ms, S)
<1> DEFINE f == [i \in DOMAIN lean |-> Tokens(lean[i])]
           g == [i \in DOMAIN ms |-> Tokens(ms[i])]
<1>1. /\ IsFiniteSet(DOMAIN ms) /\ \A i \in DOMAIN ms : g[i] \in Nat /\ f[i] \in Nat
      /\ \A i \in DOMAIN ms : f[i] <= g[i]
  BY HistoryProperties
<1> HIDE DEF f, g
<1>2. IsFiniteSet(S) /\ IsFiniteSet(T)
  <2>1. IsFiniteSet(S)
    BY <1>1, FS_Subset
  <2> QED
    BY <2>1, FS_Subset
<1>3. /\ \A i \in S : f[i] \in Int /\ g[i] \in Int /\ f[i] <= g[i]
      /\ \A i \in S : f[i] \in Nat /\ g[i] \in Nat
  BY <1>1
<1>4. SumFunctionOnSet(f, S) <= SumFunctionOnSet(g, S)
  BY <1>2, <1>3, SumIsMonotone
<1>5. SumFunctionOnSet(f, T) \in Nat /\ SumFunctionOnSet(f, T) <= SumFunctionOnSet(f, S)
  BY <1>2, <1>3, SumOfSubset
<1>6. SumFunctionOnSet(f, S) \in Nat /\ SumFunctionOnSet(g, S) \in Nat
  BY <1>2, <1>3, SumIsNat
<1> QED
  BY <1>4, <1>5, <1>6 DEF TokensAt, f, g

\* One message alone has its own tokens.
LEMMA TokensOfOne ==
  ASSUME NEW m, Spoken(m)
  PROVE  TotalTokens(<<m>>) = Tokens(m)
<1> DEFINE M == {m}
           none == <<>>
           nobody == {}
<1>1. /\ \A x \in M : Tokens(x) \in Nat
      /\ none \in Seq(M) /\ m \in M /\ nobody \in SUBSET (1..Len(none))
  BY TokensAreNat
<1>2. Append(none, m) = <<m>>
  OBVIOUS
<1> HIDE DEF M, none, nobody
<1>3. TokensAt(Append(none, m), nobody \cup {Len(none) + 1}) = Tokens(m) + TokensAt(none, nobody)
  BY <1>1, TokensAppend
<1>4. nobody \cup {Len(none) + 1} = {1} /\ DOMAIN <<m>> = {1}
  BY DEF nobody, none
<1>5. TokensAt(none, nobody) = 0
  BY SumOfNone DEF TokensAt, nobody
<1>6. Tokens(m) \in Nat
  BY TokensAreNat
<1>7. TokensAt(<<m>>, {1}) = Tokens(m) + 0
  BY <1>2, <1>3, <1>4, <1>5, Zenon
<1> QED
  BY <1>4, <1>6, <1>7 DEF TotalTokens
-----------------------------------------------------------------------------
(* What every strategy does: Trims.                                        *)

\* A history with some messages shortened, but none of the system's.
Shortened(ms, lean) ==
  /\ IsHistory(lean) /\ DOMAIN lean = DOMAIN ms
  /\ \A i \in DOMAIN ms : /\ lean[i].role = ms[i].role
                          /\ Tokens(lean[i]) <= Tokens(ms[i])
                          /\ ms[i].role = "system" => lean[i].content = ms[i].content

\* The fields of what compact_request returns.
Fields == {"messages", "original", "final", "compressed", "target", "removed"}

\* What a strategy comes to: some of the messages, shortened, and every system
\* message among them; or, if it would be none, the last message.
Trims(ms, lean, kept, c) ==
  /\ Shortened(ms, lean)
  /\ kept \in SUBSET (DOMAIN ms) /\ System(ms) \subseteq kept
  /\ c.messages = ElementsAt(lean, kept) \/ (kept = {} /\ c.messages = <<Last(ms)>>)
  /\ c.original = TotalTokens(ms) /\ c.final = TotalTokens(c.messages)
  /\ DOMAIN c = Fields

\* Where the user speaks.
Users(ms) == {i \in DOMAIN ms : ms[i].role = "user"}

\* The messages after the last of the user that count for the window.
Later(ms) == {i \in DOMAIN ms : i > Max(Users(ms)) /\ ms[i].role # "system"}

\* The last message of the user is among those kept, as it was.
KeepsUser(ms, lean, kept) ==
  /\ Max(Users(ms)) \in kept
  /\ lean[Max(Users(ms))].content = ms[Max(Users(ms))].content

\* With the message that went last, the context would be over its target.
Frugal(ms, stopWords, c) ==
  c.removed # <<>> =>
    LET last == Last(c.removed)
    IN /\ last \in DOMAIN ms
       /\ c.final + Tokens(IF stopWords THEN WithoutStopWords(ms[last]) ELSE ms[last]) > c.target

\* A history is a shortening of itself.
LEMMA SameIsShortened ==
  ASSUME NEW ms, IsHistory(ms)
  PROVE  Shortened(ms, ms)
<1>1. \A i \in DOMAIN ms : Tokens(ms[i]) \in Nat
  BY HistoryProperties
<1> QED
  BY <1>1 DEF Shortened

\* ... and so is one without the stop words of some messages, none of the system's.
LEMMA LeanIsShortened ==
  ASSUME NEW ms, IsHistory(ms), NEW eligible, eligible \cap System(ms) = {}
  PROVE  Shortened(ms, [i \in DOMAIN ms |-> IF i \in eligible THEN WithoutStopWords(ms[i])
                                                              ELSE ms[i]])
<1> DEFINE lean == [i \in DOMAIN ms |-> IF i \in eligible THEN WithoutStopWords(ms[i])
                                                          ELSE ms[i]]
<1>1. /\ DOMAIN ms = 1..Len(ms) /\ Len(ms) \in Nat \ {0}
      /\ \A i \in DOMAIN ms : Spoken(ms[i]) /\ Tokens(ms[i]) \in Nat
  BY HistoryProperties
<1>2. \A i \in DOMAIN ms :
        /\ Spoken(lean[i]) /\ lean[i].role = ms[i].role
        /\ Tokens(lean[i]) <= Tokens(ms[i])
        /\ ms[i].role = "system" => lean[i].content = ms[i].content
  <2>1. ASSUME NEW i \in DOMAIN ms
        PROVE  /\ Spoken(lean[i]) /\ lean[i].role = ms[i].role
               /\ Tokens(lean[i]) <= Tokens(ms[i])
               /\ ms[i].role = "system" => lean[i].content = ms[i].content
    <3>1. CASE i \in eligible
      <4>1. lean[i] = WithoutStopWords(ms[i]) /\ Spoken(ms[i]) /\ ms[i].role # "system"
        BY <1>1, <3>1 DEF System
      <4> HIDE DEF lean
      <4> QED
        BY <4>1, LeanIsLess
    <3>2. CASE i \notin eligible
      <4>1. lean[i] = ms[i] /\ Spoken(ms[i]) /\ Tokens(ms[i]) \in Nat
        BY <1>1, <3>2
      <4> HIDE DEF lean
      <4> QED
        BY <4>1
    <3> QED
      BY <3>1, <3>2
  <2> QED
    BY <2>1
<1>3. DOMAIN lean = 1..Len(ms)
  BY <1>1
<1>4. lean \in Seq(Range(lean)) /\ Len(lean) = Len(ms)
  <2>1. lean = [i \in 1..Len(ms) |-> lean[i]]
    BY <1>1
  <2> HIDE DEF lean
  <2>2. lean \in [1..Len(ms) -> Range(lean)]
    BY <1>3, <2>1 DEF Range
  <2> QED
    BY <1>1, <2>2
<1>5. lean # <<>>
  <2> HIDE DEF lean
  <2> QED
    BY <1>1, <1>4
<1>6. \A m \in Range(lean) : Spoken(m)
  BY <1>2 DEF Range
<1> HIDE DEF lean
<1>7. Shortened(ms, lean)
  BY <1>1, <1>2, <1>3, <1>4, <1>5, <1>6 DEF Shortened, IsHistory, IsList
<1> QED
  BY <1>7 DEF lean

\* The last message of the user.
LEMMA LastUserIs ==
  ASSUME NEW ms, IsHistory(ms), Users(ms) # {}
  PROVE  /\ Max(Users(ms)) \in Users(ms) /\ Max(Users(ms)) \in DOMAIN ms
         /\ ms[Max(Users(ms))].role = "user"
         /\ \A kept \in SUBSET (DOMAIN ms) :
              Max(Users(ms)) \in kept => LastUser(ms, kept) = {Max(Users(ms))}
<1> DEFINE u == Max(Users(ms))
<1>1. IsFiniteSet(DOMAIN ms) /\ DOMAIN ms \subseteq Nat
  BY HistoryProperties
<1>2. IsFiniteSet(Users(ms)) /\ Users(ms) \subseteq Int
  <2>1. Users(ms) \in SUBSET (DOMAIN ms)
    BY DEF Users
  <2> QED
    BY <1>1, <2>1, FS_Subset
<1>3. u \in Users(ms) /\ \A j \in Users(ms) : u >= j
  BY <1>2, MaxIsGreatest
<1>4. u \in DOMAIN ms /\ ms[u].role = "user" /\ u \in Nat
      /\ \A j \in DOMAIN ms : ms[j].role = "user" => j <= u /\ j \in Nat
  BY <1>1, <1>3 DEF Users
<1> HIDE DEF u
<1>5. ASSUME NEW kept \in SUBSET (DOMAIN ms), u \in kept PROVE LastUser(ms, kept) = {u}
  <2>1. u \in LastUser(ms, kept)
    BY <1>4, <1>5 DEF LastUser
  <2>2. \A i \in LastUser(ms, kept) : i = u
    <3>1. ASSUME NEW i \in kept, ms[i].role = "user", u <= i PROVE i = u
      BY <1>4, <3>1
    <3> QED
      BY <1>4, <1>5, <3>1 DEF LastUser
  <2> QED
    BY <2>1, <2>2
<1> QED
  BY <1>3, <1>4, <1>5 DEF u

\* The window has all system messages, and the last message of the user unless as
\* many messages follow as it holds.
LEMMA WindowHolds ==
  ASSUME NEW ms, IsHistory(ms), NEW max \in Nat
  PROVE  /\ System(ms) \subseteq Windowed(ms, max) /\ Windowed(ms, max) \in SUBSET (DOMAIN ms)
         /\ Users(ms) # {} /\ Cardinality(Later(ms)) < max
              => Max(Users(ms)) \in Windowed(ms, max)
<1>1. System(ms) \subseteq Windowed(ms, max) /\ Windowed(ms, max) \in SUBSET (DOMAIN ms)
  BY DEF Windowed, System
<1>2. ASSUME Users(ms) # {}, Cardinality(Later(ms)) < max
      PROVE  Max(Users(ms)) \in Windowed(ms, max)
  <2> DEFINE u == Max(Users(ms))
             R == {j \in DOMAIN ms \ System(ms) : j >= u}
  <2>1. u \in DOMAIN ms /\ ms[u].role = "user"
    BY <1>2, LastUserIs
  <2>2. IsFiniteSet(DOMAIN ms) /\ DOMAIN ms \subseteq Nat
    BY HistoryProperties
  <2> HIDE DEF u
  <2>3. R = Later(ms) \cup {u} /\ u \notin Later(ms)
    <3>1. \A j \in DOMAIN ms : j >= u <=> j > u \/ j = u
      BY <2>1, <2>2
    <3>2. ~(u > u)
      BY <2>1, <2>2
    <3> QED
      BY <2>1, <3>1, <3>2 DEF Later, System, u
  <2>4. IsFiniteSet(Later(ms)) /\ Cardinality(Later(ms)) \in Nat
    <3>1. Later(ms) \in SUBSET (DOMAIN ms)
      BY DEF Later
    <3> QED
      BY <2>2, <3>1, FS_Subset, FS_CardinalityType
  <2>5. Cardinality(R) = Cardinality(Later(ms)) + 1
    BY <2>3, <2>4, FS_AddElement
  <2>6. Cardinality(R) <= max
    BY <1>2, <2>4, <2>5
  <2>7. u \notin System(ms)
    BY <2>1 DEF System
  <2> QED
    BY <2>1, <2>6, <2>7 DEF Windowed, u
<1> QED
  BY <1>1, <1>2
-----------------------------------------------------------------------------
(* AdaptiveTrimming.                                                       *)

\* Positions in a list can be put in the order of their age.
LEMMA OldestFirst ==
  ASSUME NEW D, IsFiniteSet(D), D \subseteq Nat
  PROVE  Arranged(D, [i \in D |-> {j \in D : j < i}]) \in Seq(D)
<1> DEFINE ahead == [i \in D |-> {j \in D : j < i}]
<1>1. \A i \in D : ahead[i] \in SUBSET D /\ i \notin ahead[i]
  OBVIOUS
<1>2. \A i, j \in D : i \in ahead[j] => ahead[i] \subseteq ahead[j]
  <2>1. \A i, j, k \in D : k < i /\ i < j => k < j
    OBVIOUS
  <2>2. \A i, j \in D : i \in ahead[j] <=> i < j
    OBVIOUS
  <2>3. \A i \in D : ahead[i] \subseteq D
    OBVIOUS
  <2> HIDE DEF ahead
  <2> QED
    BY <2>1, <2>2, <2>3
<1>3. \A i, j \in D : i = j \/ i \in ahead[j] \/ j \in ahead[i]
  OBVIOUS
<1> HIDE DEF ahead
<1>4. Arranged(D, ahead) \in Seq(D)
  BY <1>1, <1>2, <1>3, ArrangedOrders
<1> QED
  BY <1>4 DEF ahead

\* What AdaptiveTrimming does to a history.
LEMMA AdaptiveTrims ==
  ASSUME NEW ms, IsHistory(ms), NEW config, config.maxHistoryMessages \in Nat
  PROVE  LET c == AdaptiveTrimming(ms, config)
             held == Users(ms) # {} /\ Cardinality(Later(ms)) < config.maxHistoryMessages
         IN \/ c = Untouched(ms)
            \/ \E lean, kept : /\ Trims(ms, lean, kept, c)
                               /\ held => KeepsUser(ms, lean, kept)
                               /\ Frugal(ms, config.stopWords, c)
<1> DEFINE c == AdaptiveTrimming(ms, config)
           u == Max(Users(ms))
           held == Users(ms) # {} /\ Cardinality(Later(ms)) < config.maxHistoryMessages
           original == TotalTokens(ms)
           window == Windowed(ms, config.maxHistoryMessages)
           eligible == window \ (System(ms) \cup LastUser(ms, window))
           lean == LeanAt(ms, eligible, config.stopWords)
           target == (3 * original) \div 4
           oldest == Arranged(eligible, [i \in eligible |-> {j \in eligible : j < i}])
           removed == Taken(lean, window, oldest, target, 1)
           kept == window \ ToSet(removed)
           outcome(final, cut) ==
             IF final = <<>> THEN Untouched(ms)
             ELSE [messages |-> final, original |-> original, final |-> TotalTokens(final),
                   compressed |-> TRUE, target |-> target, removed |-> cut]
           Good == \E l, k : /\ Trims(ms, l, k, c) /\ (held => KeepsUser(ms, l, k))
                             /\ Frugal(ms, config.stopWords, c)
<1> SUFFICES c = Untouched(ms) \/ Good
  OBVIOUS
<1>1. /\ System(ms) \subseteq window /\ window \in SUBSET (DOMAIN ms)
      /\ held => u \in window
  BY WindowHolds
<1>2. /\ DOMAIN ms = 1..Len(ms) /\ Len(ms) \in Nat \ {0} /\ ms \in Seq(Range(ms))
      /\ IsFiniteSet(DOMAIN ms) /\ DOMAIN ms \subseteq Nat
      /\ \A i \in DOMAIN ms : Tokens(ms[i]) \in Nat /\ Spoken(ms[i])
  BY HistoryProperties
<1>3. held => LastUser(ms, window) = {u} /\ u \in DOMAIN ms
  BY <1>1, LastUserIs
<1>4. Shortened(ms, lean)
  <2> DEFINE some == {i \in eligible : config.stopWords}
             other == [i \in DOMAIN ms |-> IF i \in some THEN WithoutStopWords(ms[i]) ELSE ms[i]]
  <2>1. Shortened(ms, other)
    <3>1. some \cap System(ms) = {}
      OBVIOUS
    <3> HIDE DEF some
    <3> QED
      BY <3>1, LeanIsShortened
  <2>2. lean = other
    BY DEF LeanAt
  <2> QED
    BY <2>1, <2>2, Zenon
<1>5. Shortened(ms, ms)
  BY SameIsShortened
<1>6. ASSUME NEW l, Shortened(ms, l), NEW k \in SUBSET (DOMAIN ms), k # {}
      PROVE  ElementsAt(l, k) # <<>>
  <2>1. l \in Seq(Range(l)) /\ DOMAIN l = 1..Len(l) /\ DOMAIN l = DOMAIN ms
    BY <1>6, HistoryProperties DEF Shortened
  <2>2. PICK i : i \in (1..Len(l)) \cap k
    BY <1>6, <2>1
  <2> QED
    BY <2>1, <2>2, ElementsContain
<1>7. original \in Nat /\ target \in Int
  <2>1. DOMAIN ms \in SUBSET (DOMAIN ms)
    OBVIOUS
  <2>2. original \in Nat
    BY <1>5, <2>1, TokensAreMonotone DEF TotalTokens, Shortened
  <2> HIDE DEF original
  <2> QED
    BY <2>2
<1>8. /\ held => KeepsUser(ms, ms, window) /\ KeepsUser(ms, lean, window)
      /\ held => u \notin eligible /\ lean[u] = ms[u]
  <2>1. held => u \in window /\ u \in LastUser(ms, window) /\ u \in DOMAIN ms
    BY <1>1, <1>3
  <2> HIDE DEF window, held
  <2>2. held => u \notin eligible /\ lean[u] = ms[u]
    BY <2>1 DEF LeanAt
  <2> QED
    BY <2>1, <2>2 DEF KeepsUser
<1>9. /\ oldest \in Seq(eligible) /\ eligible \in SUBSET window
      /\ eligible \cap System(ms) = {}
  <2>1. eligible \in SUBSET window /\ eligible \cap System(ms) = {}
    OBVIOUS
  <2> HIDE DEF eligible
  <2>2. IsFiniteSet(eligible) /\ eligible \subseteq Nat
    BY <1>1, <1>2, <2>1, FS_Subset
  <2> QED
    BY <2>1, <2>2, OldestFirst
<1>10. \/ c = Untouched(ms)
       \/ c = [outcome(ElementsAt(ms, window), <<>>) EXCEPT
                 !.compressed = window # {} /\ window # DOMAIN ms]
       \/ c = outcome(ElementsAt(lean, window), <<>>)
       \/ ~(TokensAt(lean, window) <= target)
            /\ c = outcome(NeverEmpty(ElementsAt(lean, kept), ms), removed)
  BY Zenon DEF AdaptiveTrimming
<1> HIDE DEF c, window, eligible, lean, oldest, target, held, u
<1>11. CASE c = [outcome(ElementsAt(ms, window), <<>>) EXCEPT
                   !.compressed = window # {} /\ window # DOMAIN ms]
  <2> DEFINE final == ElementsAt(ms, window)
  <2>1. CASE final = <<>>
    <3>1. window = {}
      BY <1>1, <1>5, <1>6, <2>1
    <3>2. c = [Untouched(ms) EXCEPT !.compressed = FALSE]
      BY <1>11, <2>1, <3>1
    <3>3. c = Untouched(ms)
      BY <3>2 DEF Untouched
    <3> QED
      BY <3>3
  <2>2. CASE final # <<>>
    <3>1. c.messages = final /\ c.original = original /\ c.final = TotalTokens(final)
          /\ c.removed = <<>> /\ DOMAIN c = Fields
      BY <1>11, <2>2 DEF Fields
    <3>2. Trims(ms, ms, window, c)
      BY <1>1, <1>5, <3>1, Zenon DEF Trims
    <3>3. Frugal(ms, config.stopWords, c)
      BY <3>1 DEF Frugal
    <3>4. Good
      BY <1>8, <3>2, <3>3
    <3> QED
      BY <3>4
  <2> QED
    BY <2>1, <2>2
<1>12. CASE c = outcome(ElementsAt(lean, window), <<>>)
  <2> DEFINE final == ElementsAt(lean, window)
  <2>1. CASE final = <<>>
    <3>1. c = Untouched(ms)
      BY <1>12, <2>1
    <3> QED
      BY <3>1
  <2>2. CASE final # <<>>
    <3>1. c.messages = final /\ c.original = original /\ c.final = TotalTokens(final)
          /\ c.removed = <<>> /\ DOMAIN c = Fields
      BY <1>12, <2>2 DEF Fields
    <3>2. Trims(ms, lean, window, c)
      BY <1>1, <1>4, <3>1, Zenon DEF Trims
    <3>3. Frugal(ms, config.stopWords, c)
      BY <3>1 DEF Frugal
    <3>4. Good
      BY <1>8, <3>2, <3>3
    <3> QED
      BY <3>4
  <2> QED
    BY <2>1, <2>2
<1>13. CASE ~(TokensAt(lean, window) <= target)
              /\ c = outcome(NeverEmpty(ElementsAt(lean, kept), ms), removed)
  <2> DEFINE M == Range(lean)
             one == <<Last(ms)>>
             final == NeverEmpty(ElementsAt(lean, kept), ms)
  <2>1. /\ lean \in Seq(M) /\ DOMAIN lean = DOMAIN ms /\ IsHistory(lean)
        /\ \A m \in M : Tokens(m) \in Nat
    BY <1>4, HistoryProperties DEF Shortened
  <2>2. oldest \in Seq(window) /\ window \in SUBSET (DOMAIN lean)
    BY <1>1, <1>9, <2>1, SeqMonotonic
  <2>3. /\ TokensAt(lean, window) \in Nat
        /\ \A T \in SUBSET window : TokensAt(lean, T) \in Nat
    BY <1>1, <1>4, TokensAreMonotone DEF Shortened, IsHistory
  <2>4. TokensAt(lean, window) > target
    BY <1>7, <1>13, <2>3
  <2> DEFINE least == 1
  <2>5. least \in {0, 1} /\ (least = 1 => TokensAt(lean, window) > target)
    BY <2>4
  <2>6. removed = Taken(lean, window, oldest, target, least)
    OBVIOUS
  <2> HIDE DEF M, least, removed
  <2>7. /\ removed \in Seq(window) /\ ToSet(removed) \subseteq ToSet(oldest)
        /\ removed # <<>> =>
             /\ Len(removed) \in 1..Len(removed)
             /\ TokensAt(lean, window \ ToSet(removed)) + Tokens(lean[Last(removed)]) > target
    BY <1>7, <2>1, <2>2, <2>5, <2>6, TakenIsFrugal
  <2>8. ToSet(removed) \in SUBSET eligible
    <3>1. DOMAIN oldest = 1..Len(oldest) /\ \A k \in 1..Len(oldest) : oldest[k] \in eligible
      BY <1>9, LenProperties, ElementOfSeq
    <3> QED
      BY <2>7, <3>1 DEF ToSet
  <2>9. kept \in SUBSET window /\ kept \in SUBSET (DOMAIN ms) /\ System(ms) \subseteq kept
    BY <1>1, <1>9, <2>8
  <2>10. held => KeepsUser(ms, lean, kept)
    <3>1. held => u \notin ToSet(removed)
      BY <1>8, <2>8
    <3> QED
      BY <1>8, <3>1 DEF KeepsUser, u
  <2>11. TotalTokens(ElementsAt(lean, kept)) = TokensAt(lean, kept)
    <3>1. kept \cap DOMAIN lean = kept
      BY <2>1, <2>9
    <3> HIDE DEF kept
    <3>2. TotalTokens(ElementsAt(lean, kept)) = TokensAt(lean, kept \cap DOMAIN lean)
      BY <2>1, TokensOfElements
    <3> QED
      BY <3>1, <3>2
  <2> HIDE DEF kept
  <2>12. \/ ElementsAt(lean, kept) # <<>> /\ final = ElementsAt(lean, kept)
         \/ kept = {} /\ final = one
    <3>1. ElementsAt(lean, kept) = <<>> => kept = {}
      BY <1>4, <1>6, <2>9
    <3>2. ms # <<>>
      BY DEF IsHistory
    <3> QED
      BY <3>1, <3>2 DEF NeverEmpty
  <2>13. final # <<>>
    BY <2>12, SMTT(30)
  <2>14. TotalTokens(final) \in Nat /\ TotalTokens(final) >= TokensAt(lean, kept)
    <3>1. CASE final = ElementsAt(lean, kept)
      <4>1. TokensAt(lean, kept) \in Nat
        BY <2>3, <2>9
      <4> QED
        BY <2>11, <3>1, <4>1
    <3>2. CASE kept = {} /\ final = one
      <4>1. TokensAt(lean, kept) = 0
        BY <3>2, SumOfNone DEF TokensAt
      <4>2. Spoken(Last(ms)) /\ Tokens(Last(ms)) \in Nat
        BY <1>2 DEF Last
      <4>3. TotalTokens(one) = Tokens(Last(ms))
        BY <4>2, TokensOfOne
      <4> QED
        BY <3>2, <4>1, <4>2, <4>3
    <3> QED
      BY <2>12, <3>1, <3>2
  <2>15. c.messages = final /\ c.original = original /\ c.final = TotalTokens(final)
         /\ c.removed = removed /\ c.target = target /\ DOMAIN c = Fields
    BY <1>13, <2>13 DEF Fields
  <2>16. Trims(ms, lean, kept, c)
    BY <1>4, <2>9, <2>12, <2>15, Zenon DEF Trims
  <2>17. Frugal(ms, config.stopWords, c)
    <3>1. ASSUME removed # <<>>
          PROVE  LET last == Last(removed)
                 IN /\ last \in DOMAIN ms
                    /\ TotalTokens(final) + Tokens(IF config.stopWords THEN WithoutStopWords(ms[last])
                                                                       ELSE ms[last]) > target
      <4> DEFINE last == Last(removed)
      <4>1. last \in eligible /\ last \in DOMAIN ms
        <5>1. DOMAIN removed = 1..Len(removed) /\ Len(removed) \in 1..Len(removed)
          BY <2>7, <3>1, LenProperties
        <5>2. last \in ToSet(removed)
          BY <5>1 DEF ToSet, Last
        <5> QED
          BY <1>1, <1>9, <2>8, <5>2
      <4>2. lean[last] = IF config.stopWords THEN WithoutStopWords(ms[last]) ELSE ms[last]
        BY <4>1 DEF lean, LeanAt
      <4>3. TokensAt(lean, kept) + Tokens(lean[last]) > target
        BY <2>7, <3>1 DEF kept
      <4>4. Tokens(lean[last]) \in Nat /\ TokensAt(lean, kept) \in Nat
        <5>1. \A i \in DOMAIN lean : Tokens(lean[i]) \in Nat
          BY <2>1, HistoryProperties
        <5> QED
          BY <2>1, <2>3, <2>9, <4>1, <5>1
      <4> HIDE DEF last, final
      <4>5. TotalTokens(final) + Tokens(lean[last]) > target
        BY <1>7, <2>14, <4>3, <4>4
      <4> QED
        BY <4>1, <4>2, <4>5 DEF last
    <3> QED
      BY <2>15, <3>1 DEF Frugal
  <2>18. Good
    BY <2>10, <2>16, <2>17
  <2> QED
    BY <2>18
<1> QED
  BY <1>10, <1>11, <1>12, <1>13
-----------------------------------------------------------------------------
(* SemanticGuardedTrimming.                                                *)

\* A score is an integer.
LEMMA ScoreIsInt ==
  ASSUME NEW m, Spoken(m), NEW isLastUser \in BOOLEAN, NEW terms, IsList(terms)
  PROVE  Score(m, isLastUser, terms) \in Int
<1> DEFINE all == {"numbers", "routes", "dates", "auxiliary", "padding"}
           marked == m.content.markers
           technical == m.content.technical
           found == {k \in DOMAIN terms : terms[k] \in ToSet(m.content.words)}
           worth == SumFunctionOnSet(Worth, m.content.features)
           common == Cardinality(found)
<1>1. marked \in Nat /\ technical \in Nat /\ m.content.features \in SUBSET all
  BY DEF Spoken, IsMessage
<1>2. worth \in Int
  <2>1. IsFiniteSet(all)
    <3>1. IsFiniteSet({"numbers"} \cup {"routes"})
      BY FS_Singleton, FS_Union
    <3>2. IsFiniteSet({"numbers"} \cup {"routes"} \cup {"dates"})
      BY <3>1, FS_Singleton, FS_Union
    <3>3. IsFiniteSet({"numbers"} \cup {"routes"} \cup {"dates"} \cup {"auxiliary"})
      BY <3>2, FS_Singleton, FS_Union
    <3>4. IsFiniteSet({"numbers"} \cup {"routes"} \cup {"dates"} \cup {"auxiliary"} \cup {"padding"})
      BY <3>3, FS_Singleton, FS_Union
    <3>5. all = {"numbers"} \cup {"routes"} \cup {"dates"} \cup {"auxiliary"} \cup {"padding"}
      OBVIOUS
    <3> QED
      BY <3>4, <3>5
  <2>2. \A x \in all : Worth[x] \in Int
    BY DEF Worth
  <2> HIDE DEF all
  <2>3. IsFiniteSet(m.content.features) /\ \A x \in m.content.features : Worth[x] \in Int
    BY <1>1, <2>1, <2>2, FS_Subset
  <2> QED
    BY <2>3, SumIsInt
<1>3. common \in Nat
  <2>1. DOMAIN terms = 1..Len(terms) /\ Len(terms) \in Nat
    BY LenProperties DEF IsList
  <2>2. IsFiniteSet(1..Len(terms)) /\ found \in SUBSET (1..Len(terms))
    BY <2>1, FS_Interval
  <2> HIDE DEF found
  <2> QED
    BY <2>2, FS_Subset, FS_CardinalityType
<1> DEFINE system == IF m.role = "system" THEN 100 ELSE 0
           asked == IF isLastUser THEN 100 ELSE 0
           short == IF m.role = "assistant" /\ m.content.chars < 30 THEN 20 ELSE 0
<1>4. system \in Int /\ asked \in Int /\ short \in Int
  OBVIOUS
<1>5. Score(m, isLastUser, terms) =
        system + asked + 80 * marked + worth + 20 * common + 15 * technical - short
  BY DEF Score
<1> HIDE DEF system, asked, short, marked, technical, worth, common
<1> QED
  BY <1>1, <1>2, <1>3, <1>4, <1>5

\* The long words of the last message of the user are a list.
LEMMA TermsAreList ==
  ASSUME NEW ms, IsHistory(ms)
  PROVE  IsList(QueryTerms(ms))
<1>1. CASE LastUser(ms, DOMAIN ms) = {}
  <2>1. <<>> \in Seq({})
    OBVIOUS
  <2> QED
    BY <1>1, <2>1, SeqIsList DEF QueryTerms
<1>2. CASE LastUser(ms, DOMAIN ms) # {}
  <2> DEFINE i == CHOOSE i \in LastUser(ms, DOMAIN ms) : TRUE
  <2>1. i \in DOMAIN ms
    BY <1>2 DEF LastUser
  <2>2. Spoken(ms[i])
    BY <2>1, HistoryProperties
  <2>3. QueryTerms(ms) = ms[i].content.words
    BY <1>2 DEF QueryTerms
  <2> QED
    BY <2>2, <2>3 DEF Spoken, IsMessage
<1> QED
  BY <1>1, <1>2

\* Positions can be put in the order of their scores.
LEMMA WorstFirst ==
  ASSUME NEW D, IsFiniteSet(D), D \subseteq Nat, NEW score, \A i \in D : score[i] \in Int
  PROVE  Arranged(D, [i \in D |-> {j \in D : score[j] < score[i]
                                               \/ (score[j] = score[i] /\ j < i)}]) \in Seq(D)
<1> DEFINE ahead == [i \in D |-> {j \in D : score[j] < score[i]
                                             \/ (score[j] = score[i] /\ j < i)}]
<1>1. \A i, j \in D : j \in ahead[i] <=> score[j] < score[i] \/ (score[j] = score[i] /\ j < i)
  OBVIOUS
<1>2. \A i \in D : ahead[i] \in SUBSET D
  OBVIOUS
<1> HIDE DEF ahead
<1>3. \A i \in D : i \notin ahead[i]
  <2>1. \A i \in D : ~(score[i] < score[i]) /\ ~(i < i)
    OBVIOUS
  <2> QED
    BY <1>1, <2>1
<1>4. \A i, j \in D : i \in ahead[j] => ahead[i] \subseteq ahead[j]
  <2>1. ASSUME NEW i \in D, NEW j \in D, i \in ahead[j], NEW k \in ahead[i] PROVE k \in ahead[j]
    <3>1. k \in D
      BY <1>2, <2>1
    <3>2. score[i] \in Int /\ score[j] \in Int /\ score[k] \in Int /\ i \in Nat /\ j \in Nat /\ k \in Nat
      BY <3>1
    <3>3. /\ score[i] < score[j] \/ (score[i] = score[j] /\ i < j)
          /\ score[k] < score[i] \/ (score[k] = score[i] /\ k < i)
      BY <1>1, <2>1, <3>1
    <3>4. score[k] < score[j] \/ (score[k] = score[j] /\ k < j)
      BY <3>2, <3>3
    <3> QED
      BY <1>1, <3>1, <3>4
  <2> QED
    BY <2>1
<1>5. \A i, j \in D : i = j \/ i \in ahead[j] \/ j \in ahead[i]
  <2>1. \A i, j \in D : \/ i = j
                        \/ score[i] < score[j] \/ (score[i] = score[j] /\ i < j)
                        \/ score[j] < score[i] \/ (score[j] = score[i] /\ j < i)
    OBVIOUS
  <2> QED
    BY <1>1, <2>1
<1>6. Arranged(D, ahead) \in Seq(D)
  BY <1>2, <1>3, <1>4, <1>5, ArrangedOrders
<1> QED
  BY <1>6 DEF ahead

\* What SemanticGuardedTrimming does to a history.
LEMMA SemanticTrims ==
  ASSUME NEW ms, IsHistory(ms), NEW config, config.targetTokenRatio \in Nat,
         config.minFinalTokens \in Nat
  PROVE  LET c == SemanticGuardedTrimming(ms, config)
         IN \/ c = Untouched(ms)
            \/ \E lean, kept : /\ Trims(ms, lean, kept, c)
                               /\ Users(ms) # {} => KeepsUser(ms, lean, kept)
                               /\ Frugal(ms, FALSE, c)
<1> DEFINE c == SemanticGuardedTrimming(ms, config)
           u == Max(Users(ms))
           original == TotalTokens(ms)
           target == Max({(original * config.targetTokenRatio) \div 100, config.minFinalTokens})
           guarded == Protected(ms, config)
           score == [i \in DOMAIN ms |->
                       Score(ms[i], i \in LastUser(ms, DOMAIN ms), QueryTerms(ms))]
           free == DOMAIN ms \ guarded
           worse == [i \in free |->
                       {j \in free : score[j] < score[i] \/ (score[j] = score[i] /\ j < i)}]
           removable == Arranged(free, worse)
           removed == IF TokensAt(ms, guarded) >= target THEN removable
                      ELSE Taken(ms, DOMAIN ms, removable, target, 0)
           kept == DOMAIN ms \ ToSet(removed)
           final == ElementsAt(ms, kept)
           Good == \E l, k : /\ Trims(ms, l, k, c) /\ (Users(ms) # {} => KeepsUser(ms, l, k))
                             /\ Frugal(ms, FALSE, c)
<1> SUFFICES c = Untouched(ms) \/ Good
  OBVIOUS
<1>1. /\ System(ms) \subseteq guarded /\ guarded \in SUBSET (DOMAIN ms)
      /\ Users(ms) # {} => u \in guarded
  <2>1. LastUser(ms, DOMAIN ms) \subseteq guarded /\ System(ms) \subseteq guarded
        /\ guarded \in SUBSET (DOMAIN ms)
    BY DEF Protected, System, LastUser
  <2>2. Users(ms) # {} => LastUser(ms, DOMAIN ms) = {u}
    BY LastUserIs
  <2> QED
    BY <2>1, <2>2
<1>2. /\ DOMAIN ms = 1..Len(ms) /\ Len(ms) \in Nat \ {0} /\ ms \in Seq(Range(ms))
      /\ IsFiniteSet(DOMAIN ms) /\ DOMAIN ms \subseteq Nat
      /\ \A i \in DOMAIN ms : Tokens(ms[i]) \in Nat /\ Tokens(ms[i]) >= 1 /\ Spoken(ms[i])
      /\ \A m \in Range(ms) : Tokens(m) \in Nat
  BY HistoryProperties
<1>3. Shortened(ms, ms)
  BY SameIsShortened
<1>4. \A S \in SUBSET (DOMAIN ms) : \A T \in SUBSET S :
        TokensAt(ms, T) \in Nat /\ TokensAt(ms, S) \in Nat /\ TokensAt(ms, T) <= TokensAt(ms, S)
  BY <1>3, TokensAreMonotone DEF Shortened
<1>5. original \in Nat /\ target \in Int
  <2>1. DOMAIN ms \in SUBSET (DOMAIN ms)
    OBVIOUS
  <2>2. original \in Nat
    BY <1>4, <2>1 DEF TotalTokens
  <2> HIDE DEF original
  <2> DEFINE share == (original * config.targetTokenRatio) \div 100
             both == {share, config.minFinalTokens}
  <2>3. share \in Int
    <3>1. original * config.targetTokenRatio \in Int
      BY <2>2
    <3> QED
      BY <3>1
  <2>4. both \subseteq Int /\ both # {} /\ IsFiniteSet(both)
    <3>1. IsFiniteSet({share} \cup {config.minFinalTokens})
      BY FS_Singleton, FS_Union
    <3>2. both = {share} \cup {config.minFinalTokens}
      OBVIOUS
    <3> HIDE DEF share
    <3> QED
      BY <2>3, <3>1, <3>2
  <2> HIDE DEF both
  <2>5. Max(both) \in Int
    BY <2>4, MaxIsGreatest
  <2> QED
    BY <2>2, <2>5 DEF both
<1>6. /\ free \in SUBSET (DOMAIN ms) /\ free \cap guarded = {} /\ removable \in Seq(free)
  <2>1. \A i \in DOMAIN ms : score[i] \in Int
    <3>1. ASSUME NEW i \in DOMAIN ms PROVE score[i] \in Int
      <4> DEFINE asked == i \in LastUser(ms, DOMAIN ms)
                 terms == QueryTerms(ms)
      <4>1. Spoken(ms[i]) /\ asked \in BOOLEAN /\ IsList(terms)
        BY <1>2, TermsAreList
      <4>2. score[i] = Score(ms[i], asked, terms)
        OBVIOUS
      <4> HIDE DEF asked, terms, score
      <4> QED
        BY <4>1, <4>2, ScoreIsInt
    <3> QED
      BY <3>1
  <2>2. free \in SUBSET (DOMAIN ms) /\ free \cap guarded = {}
    OBVIOUS
  <2> HIDE DEF free, score
  <2>3. IsFiniteSet(free) /\ free \subseteq Nat /\ \A i \in free : score[i] \in Int
    BY <1>2, <2>1, <2>2, FS_Subset
  <2>4. removable \in Seq(free)
    BY <2>3, WorstFirst
  <2> QED
    BY <2>2, <2>4
<1>7. \/ c = Untouched(ms)
      \/ c = [messages |-> final, original |-> original, final |-> TotalTokens(final),
              compressed |-> TRUE, target |-> target, removed |-> removed]
  BY Zenon DEF SemanticGuardedTrimming
<1> HIDE DEF c, u, original, target, guarded, score, free, worse, removable
<1>8. ToSet(removable) \subseteq free /\ removable \in Seq(DOMAIN ms)
  <2>1. DOMAIN removable = 1..Len(removable) /\ \A k \in 1..Len(removable) : removable[k] \in free
    BY <1>6, LenProperties, ElementOfSeq
  <2>2. removable \in Seq(DOMAIN ms)
    BY <1>6, SeqMonotonic
  <2> QED
    BY <2>1, <2>2 DEF ToSet
<1>9. /\ removed \in Seq(DOMAIN ms) /\ ToSet(removed) \subseteq free
      /\ removed # <<>> =>
           /\ Last(removed) \in DOMAIN ms
           /\ TokensAt(ms, kept) + Tokens(ms[Last(removed)]) > target
  <2>1. ASSUME NEW r \in Seq(DOMAIN ms), r # <<>>
        PROVE  Last(r) \in DOMAIN ms
    <3>1. Len(r) \in Nat \ {0}
      BY <2>1, EmptySeq
    <3>2. Len(r) \in 1..Len(r)
      BY <3>1
    <3> QED
      BY <3>2, ElementOfSeq DEF Last
  <2>2. CASE TokensAt(ms, guarded) >= target
    <3>1. removed = removable
      BY <2>2
    <3>2. guarded \in SUBSET kept /\ kept \in SUBSET (DOMAIN ms)
      BY <1>1, <1>6, <1>8, <3>1
    <3>3. TokensAt(ms, guarded) \in Nat /\ TokensAt(ms, kept) \in Nat
          /\ TokensAt(ms, guarded) <= TokensAt(ms, kept)
      BY <1>4, <3>2
    <3> HIDE DEF kept
    <3>4. ASSUME removed # <<>>
          PROVE  /\ Last(removed) \in DOMAIN ms
                 /\ TokensAt(ms, kept) + Tokens(ms[Last(removed)]) > target
      <4>1. Last(removed) \in DOMAIN ms
        BY <1>8, <2>1, <3>1, <3>4
      <4>2. Tokens(ms[Last(removed)]) \in Nat /\ Tokens(ms[Last(removed)]) >= 1
        BY <1>2, <4>1
      <4> HIDE DEF removed
      <4> QED
        BY <1>5, <2>2, <3>3, <4>1, <4>2
    <3> QED
      BY <1>8, <3>1, <3>4
  <2>3. CASE ~(TokensAt(ms, guarded) >= target)
    <3> DEFINE M == Range(ms)
               least == 0
               all == DOMAIN ms
    <3>1. removed = Taken(ms, all, removable, target, least)
      BY <2>3
    <3>2. /\ \A m \in M : Tokens(m) \in Nat
          /\ ms \in Seq(M) /\ all \in SUBSET (DOMAIN ms) /\ removable \in Seq(all)
          /\ least \in {0, 1} /\ (least = 1 => TokensAt(ms, all) > target)
      BY <1>2, <1>8
    <3> HIDE DEF M, least, all, removed
    <3>3. /\ removed \in Seq(all) /\ ToSet(removed) \subseteq ToSet(removable)
          /\ removed # <<>> =>
               /\ Len(removed) \in 1..Len(removed)
               /\ TokensAt(ms, all \ ToSet(removed)) + Tokens(ms[Last(removed)]) > target
      BY <1>5, <3>1, <3>2, TakenIsFrugal
    <3> QED
      BY <1>8, <2>1, <3>3 DEF all
  <2> QED
    BY <2>2, <2>3
<1> HIDE DEF removed
<1>10. /\ kept \in SUBSET (DOMAIN ms) /\ System(ms) \subseteq kept
       /\ Users(ms) # {} => u \in kept
  <2>1. guarded \subseteq kept /\ kept \in SUBSET (DOMAIN ms)
    BY <1>1, <1>6, <1>9
  <2> QED
    BY <1>1, <2>1
<1>11. TotalTokens(final) = TokensAt(ms, kept)
  <2>1. kept \cap DOMAIN ms = kept
    BY <1>10
  <2> HIDE DEF kept
  <2>2. TotalTokens(ElementsAt(ms, kept)) = TokensAt(ms, kept \cap DOMAIN ms)
    BY <1>2, TokensOfElements
  <2> QED
    BY <2>1, <2>2
<1>12. CASE c = [messages |-> final, original |-> original, final |-> TotalTokens(final),
                 compressed |-> TRUE, target |-> target, removed |-> removed]
  <2>1. c.messages = final /\ c.original = original /\ c.final = TotalTokens(final)
        /\ c.removed = removed /\ c.target = target /\ DOMAIN c = Fields
    BY <1>12 DEF Fields
  <2>2. Trims(ms, ms, kept, c)
    BY <1>3, <1>10, <2>1, Zenon DEF Trims, original
  <2>3. Users(ms) # {} => KeepsUser(ms, ms, kept)
    BY <1>10 DEF KeepsUser, u
  <2>4. Frugal(ms, FALSE, c)
    <3> HIDE DEF kept, final
    <3> QED
      BY <1>9, <1>11, <2>1 DEF Frugal
  <2>5. Good
    BY <2>2, <2>3, <2>4
  <2> QED
    BY <2>5
<1> QED
  BY <1>7, <1>12
-----------------------------------------------------------------------------
(* Without stop words.                                                     *)

\* A history of plain messages.
LEMMA PlainIsHistory ==
  ASSUME NEW ms, IsHistory(ms)
  PROVE  LET plain == [i \in DOMAIN ms |-> Plain(ms[i])]
         IN /\ IsHistory(plain) /\ DOMAIN plain = DOMAIN ms
            /\ \A i \in DOMAIN ms : /\ plain[i].role = ms[i].role
                                    /\ plain[i].content = ms[i].content
            /\ Users(plain) = Users(ms) /\ Later(plain) = Later(ms) /\ System(plain) = System(ms)
            /\ TotalTokens(plain) \in Nat
<1> DEFINE plain == [i \in DOMAIN ms |-> Plain(ms[i])]
<1>1. DOMAIN ms = 1..Len(ms) /\ Len(ms) \in Nat \ {0} /\ \A i \in DOMAIN ms : Spoken(ms[i])
  BY HistoryProperties
<1>2. DOMAIN plain = DOMAIN ms /\ \A i \in DOMAIN ms : plain[i] = Plain(ms[i])
  OBVIOUS
<1> HIDE DEF plain
<1>3. \A i \in DOMAIN ms : /\ Spoken(plain[i]) /\ plain[i].role = ms[i].role
                           /\ plain[i].content = ms[i].content
  <2>1. ASSUME NEW i \in DOMAIN ms
        PROVE  /\ Spoken(plain[i]) /\ plain[i].role = ms[i].role
               /\ plain[i].content = ms[i].content
    <3>1. Spoken(ms[i]) /\ plain[i] = Plain(ms[i])
      BY <1>1, <1>2
    <3> QED
      BY <3>1, PlainIsSame
  <2> QED
    BY <2>1
<1>4. IsList(plain) /\ Len(plain) = Len(ms)
  <2>1. plain = [i \in 1..Len(ms) |-> plain[i]]
    <3>1. plain = [i \in 1..Len(ms) |-> Plain(ms[i])]
      BY <1>1 DEF plain
    <3> QED
      BY <3>1
  <2>2. plain \in [1..Len(ms) -> Range(plain)]
    BY <1>1, <1>2, <2>1 DEF Range
  <2> QED
    BY <1>1, <2>2 DEF IsList
<1>5. IsHistory(plain)
  <2>1. plain # <<>>
    BY <1>1, <1>4
  <2>2. \A m \in Range(plain) : Spoken(m)
    BY <1>2, <1>3 DEF Range
  <2> QED
    BY <1>4, <2>1, <2>2 DEF IsHistory
<1>6. Users(plain) = Users(ms) /\ System(plain) = System(ms)
  BY <1>2, <1>3 DEF Users, System
<1>7. Later(plain) = Later(ms)
  BY <1>2, <1>3, <1>6, Zenon DEF Later
<1>8. TotalTokens(plain) \in Nat
  <2>1. Shortened(plain, plain) /\ DOMAIN plain \in SUBSET (DOMAIN plain)
    BY <1>5, SameIsShortened
  <2> QED
    BY <1>5, <2>1, TokensAreMonotone DEF TotalTokens, Shortened
<1> QED
  BY <1>2, <1>3, <1>5, <1>6, <1>7, <1>8 DEF plain

\* A context that was trimmed is no longer than it was.
LEMMA TrimsShorter ==
  ASSUME NEW ms, IsHistory(ms), NEW lean, NEW kept, NEW c, Trims(ms, lean, kept, c)
  PROVE  c.final <= c.original
<1>1. /\ Shortened(ms, lean) /\ kept \in SUBSET (DOMAIN ms)
      /\ c.messages = ElementsAt(lean, kept) \/ (kept = {} /\ c.messages = <<Last(ms)>>)
      /\ c.original = TotalTokens(ms) /\ c.final = TotalTokens(c.messages)
  BY DEF Trims
<1>2. /\ IsHistory(lean) /\ DOMAIN lean = DOMAIN ms
      /\ \A i \in DOMAIN ms : Tokens(lean[i]) <= Tokens(ms[i])
  BY <1>1 DEF Shortened
<1>3. CASE c.messages = ElementsAt(lean, kept)
  <2>1. lean \in Seq(Range(lean)) /\ \A m \in Range(lean) : Tokens(m) \in Nat
    BY <1>2, HistoryProperties
  <2>2. TotalTokens(ElementsAt(lean, kept)) = TokensAt(lean, kept \cap DOMAIN lean)
    BY <2>1, TokensOfElements
  <2>3. kept \cap DOMAIN lean = kept
    BY <1>1, <1>2
  <2>4. DOMAIN ms \in SUBSET (DOMAIN ms)
    OBVIOUS
  <2>5. TokensAt(lean, kept) <= TokensAt(ms, DOMAIN ms)
    BY <1>1, <1>2, <2>4, TokensAreMonotone
  <2>6. c.final = TokensAt(lean, kept) /\ c.original = TokensAt(ms, DOMAIN ms)
    BY <1>1, <1>3, <2>2, <2>3, Zenon DEF TotalTokens
  <2> QED
    BY <2>5, <2>6
<1>4. CASE c.messages = <<Last(ms)>>
  <2> DEFINE last == Len(ms)
             tokens == [i \in DOMAIN ms |-> Tokens(ms[i])]
             rest == DOMAIN ms \ {last}
  <2>1. /\ last \in DOMAIN ms /\ Spoken(ms[last]) /\ IsFiniteSet(DOMAIN ms)
        /\ \A i \in DOMAIN ms : tokens[i] \in Nat
        /\ \A i \in DOMAIN ms : tokens[i] \in Int
    <3>1. /\ DOMAIN ms = 1..Len(ms) /\ Len(ms) \in Nat \ {0} /\ IsFiniteSet(DOMAIN ms)
          /\ \A i \in DOMAIN ms : Spoken(ms[i]) /\ Tokens(ms[i]) \in Nat
      BY HistoryProperties
    <3> QED
      BY <3>1
  <2>2. tokens[last] = Tokens(ms[last])
    BY <2>1
  <2>3. rest \cup {last} = DOMAIN ms /\ last \notin rest /\ rest \in SUBSET (DOMAIN ms)
    BY <2>1
  <2> HIDE DEF rest, tokens, last
  <2>4. IsFiniteSet(rest)
    BY <2>1, <2>3, FS_Subset
  <2>5. SumFunctionOnSet(tokens, rest \cup {last}) = tokens[last] + SumFunctionOnSet(tokens, rest)
    BY <2>1, <2>3, <2>4, SumAdds
  <2>6. SumFunctionOnSet(tokens, rest) \in Nat
    BY <2>1, <2>3, SumOfSubset
  <2>7. tokens[last] \in Nat
    BY <2>1
  <2>8. TotalTokens(<<Last(ms)>>) = tokens[last]
    BY <2>1, <2>2, TokensOfOne DEF Last, last
  <2>9. TotalTokens(ms) = SumFunctionOnSet(tokens, DOMAIN ms)
    BY DEF TotalTokens, TokensAt, tokens
  <2>10. SumFunctionOnSet(tokens, DOMAIN ms) = tokens[last] + SumFunctionOnSet(tokens, rest)
    BY <2>3, <2>5, Zenon
  <2>11. c.final = tokens[last] /\ c.original = tokens[last] + SumFunctionOnSet(tokens, rest)
    BY <1>1, <1>4, <2>8, <2>9, <2>10, Zenon
  <2> QED
    BY <2>6, <2>7, <2>11
<1> QED
  BY <1>1, <1>3, <1>4
-----------------------------------------------------------------------------
(* compact_request.                                                        *)

\* The settings of a compactor.
IsConfig(config) ==
  /\ config.tokenThreshold \in Nat /\ config.maxHistoryMessages \in Nat
  /\ config.targetTokenRatio \in Nat /\ config.minFinalTokens \in Nat

\* Whether the strategy is SemanticGuardedTrimming.
Semantic(config) == config.strategy = "semantic_guarded_trimming"

\* Either strategy leaves a history as it is, or trims it: the last message of the
\* user stays unless it is out of the window of AdaptiveTrimming.
LEMMA StrategyTrims ==
  ASSUME NEW ms, IsHistory(ms), NEW config, IsConfig(config)
  PROVE  LET c == IF Semantic(config) THEN SemanticGuardedTrimming(ms, config)
                                      ELSE AdaptiveTrimming(ms, config)
             held == /\ Users(ms) # {}
                     /\ Semantic(config) \/ Cardinality(Later(ms)) < config.maxHistoryMessages
         IN \/ c = Untouched(ms)
            \/ \E lean, kept : /\ Trims(ms, lean, kept, c)
                               /\ held => KeepsUser(ms, lean, kept)
                               /\ Frugal(ms, config.stopWords /\ ~Semantic(config), c)
<1>1. CASE Semantic(config)
  <2> DEFINE c == SemanticGuardedTrimming(ms, config)
  <2>1. \/ c = Untouched(ms)
        \/ \E lean, kept : /\ Trims(ms, lean, kept, c)
                           /\ Users(ms) # {} => KeepsUser(ms, lean, kept)
                           /\ Frugal(ms, FALSE, c)
    BY SemanticTrims DEF IsConfig
  <2>2. Frugal(ms, FALSE, c) => Frugal(ms, config.stopWords /\ ~Semantic(config), c)
    BY <1>1, Zenon DEF Frugal
  <2> HIDE DEF c
  <2>3. \/ c = Untouched(ms)
        \/ \E lean, kept : /\ Trims(ms, lean, kept, c)
                           /\ Users(ms) # {} => KeepsUser(ms, lean, kept)
                           /\ Frugal(ms, config.stopWords /\ ~Semantic(config), c)
    BY <2>1, <2>2, Zenon
  <2> QED
    BY <1>1, <2>3, Zenon DEF c
<1>2. CASE ~Semantic(config)
  <2> DEFINE c == AdaptiveTrimming(ms, config)
             held == Users(ms) # {} /\ Cardinality(Later(ms)) < config.maxHistoryMessages
  <2>1. \/ c = Untouched(ms)
        \/ \E lean, kept : /\ Trims(ms, lean, kept, c)
                           /\ held => KeepsUser(ms, lean, kept)
                           /\ Frugal(ms, config.stopWords, c)
    BY AdaptiveTrims DEF IsConfig
  <2>2. Frugal(ms, config.stopWords, c) => Frugal(ms, config.stopWords /\ ~Semantic(config), c)
    BY <1>2, Zenon DEF Frugal
  <2> HIDE DEF c
  <2>3. \/ c = Untouched(ms)
        \/ \E lean, kept : /\ Trims(ms, lean, kept, c)
                           /\ held => KeepsUser(ms, lean, kept)
                           /\ Frugal(ms, config.stopWords /\ ~Semantic(config), c)
    BY <2>1, <2>2, Zenon
  <2> QED
    BY <1>2, <2>3, Zenon DEF c
<1> QED
  BY <1>1, <1>2

\* The messages of a request, as the compactor sees them.
PlainOf(ms) == [i \in DOMAIN ms |-> Plain(ms[i])]

\* What the handler makes of it: the messages are those of the request, or those
\* that a strategy kept; the rest of the outcome is the strategy's.
LEMMA CompactTrims ==
  ASSUME NEW ms, IsHistory(ms), NEW config, IsConfig(config)
  PROVE  LET c == Compact(ms, config)
             plain == PlainOf(ms)
             held == /\ Users(ms) # {}
                     /\ Semantic(config) \/ Cardinality(Later(ms)) < config.maxHistoryMessages
         IN /\ \/ c.messages = ms
               \/ \E lean, kept : /\ Trims(plain, lean, kept, c)
                                  /\ held => KeepsUser(plain, lean, kept)
            /\ c.final <= c.original
            /\ Frugal(plain, config.stopWords /\ ~Semantic(config), c)
<1> DEFINE c == Compact(ms, config)
           plain == PlainOf(ms)
           leave == config.stopWords /\ ~Semantic(config)
           r == IF Semantic(config) THEN SemanticGuardedTrimming(plain, config)
                                    ELSE AdaptiveTrimming(plain, config)
           held == /\ Users(ms) # {}
                   /\ Semantic(config) \/ Cardinality(Later(ms)) < config.maxHistoryMessages
<1>1. c = IF r.compressed THEN r ELSE [r EXCEPT !.messages = ms]
  BY Zenon DEF Compact, Semantic, PlainOf
<1>2. /\ IsHistory(plain) /\ Users(plain) = Users(ms) /\ Later(plain) = Later(ms)
      /\ TotalTokens(plain) \in Nat
  BY PlainIsHistory DEF PlainOf
<1> HIDE DEF plain
<1>3. \/ r = Untouched(plain)
      \/ \E lean, kept : /\ Trims(plain, lean, kept, r)
                         /\ held => KeepsUser(plain, lean, kept)
                         /\ Frugal(plain, leave, r)
  <2> DEFINE held2 == /\ Users(plain) # {}
                      /\ Semantic(config) \/ Cardinality(Later(plain)) < config.maxHistoryMessages
  <2>1. \/ r = Untouched(plain)
        \/ \E lean, kept : /\ Trims(plain, lean, kept, r)
                           /\ held2 => KeepsUser(plain, lean, kept)
                           /\ Frugal(plain, leave, r)
    BY <1>2, StrategyTrims, Zenon
  <2>2. held <=> held2
    BY <1>2, Zenon
  <2> HIDE DEF held, held2, r, leave
  <2> QED
    BY <2>1, <2>2, Zenon
<1> HIDE DEF r, c, held, leave
<1>4. DOMAIN r = Fields /\ r.final <= r.original /\ Frugal(plain, leave, r)
  <2>1. CASE r = Untouched(plain)
    <3>1. /\ DOMAIN r = Fields /\ r.removed = <<>>
          /\ r.final = TotalTokens(plain) /\ r.original = TotalTokens(plain)
      BY <2>1 DEF Untouched, Fields
    <3> QED
      BY <1>2, <3>1 DEF Frugal
  <2>2. CASE \E lean, kept : Trims(plain, lean, kept, r) /\ Frugal(plain, leave, r)
    <3>1. PICK lean, kept : Trims(plain, lean, kept, r) /\ Frugal(plain, leave, r)
      BY <2>2
    <3>2. r.final <= r.original
      BY <1>2, <3>1, TrimsShorter
    <3> QED
      BY <3>1, <3>2 DEF Trims
  <2> QED
    BY <1>3, <2>1, <2>2
<1>5. CASE r.compressed
  <2>1. c = r
    BY <1>1, <1>5
  <2>2. r # Untouched(plain)
    BY <1>5 DEF Untouched
  <2> QED
    BY <1>3, <1>4, <2>1, <2>2 DEF c, held, plain, leave
<1>6. CASE ~r.compressed
  <2>1. c = [r EXCEPT !.messages = ms]
    BY <1>1, <1>6
  <2>2. c.messages = ms /\ c.final = r.final /\ c.original = r.original
        /\ c.removed = r.removed /\ c.target = r.target
    BY <1>4, <2>1 DEF Fields
  <2>3. Frugal(plain, leave, c)
    BY <1>4, <2>2 DEF Frugal
  <2> QED
    BY <1>4, <2>2, <2>3 DEF c, plain, leave
<1> QED
  BY <1>5, <1>6
=============================================================================
