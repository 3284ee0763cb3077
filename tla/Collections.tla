---------------------------- MODULE Collections ----------------------------
(***************************************************************************)
(* Facts about finite sets, sums over them, and sequences that the proofs  *)
(* of several components rest on.  The theorems of the library that state  *)
(* induction have an operator as a parameter; here it is stated for sets,  *)
(* so that a lemma inducts over the set of the values it holds of.         *)
(***************************************************************************)
EXTENDS Sublists, FiniteSetTheorems, SequenceTheorems, TLAPS

\* A nonempty finite set of integers has a least and a greatest element: the
\* least initial segment, the least final segment, by inclusion.
LEMMA LeastExists ==
  ASSUME NEW T, IsFiniteSet(T), T \subseteq Int, T # {}
  PROVE  \E x \in T : \A y \in T : x <= y
<1> DEFINE below(x) == {y \in T : y <= x}
           segments == {below(x) : x \in T}
<1>1. segments \subseteq SUBSET T /\ segments # {}
  OBVIOUS
<1>2. IsWellFoundedOn(StrictSubsetOrdering(T), SUBSET T)
  BY FS_StrictSubsetOrderingWellFounded, FS_FiniteSubsetsOfFinite
<1>3. PICK m \in segments : \A d \in segments : ~(<<d, m>> \in StrictSubsetOrdering(T))
  <2> HIDE DEF segments
  <2> QED
    BY <1>1, <1>2, WFMin
<1>4. PICK x \in T : m = below(x)
  OBVIOUS
<1>5. ASSUME NEW y \in T, y < x PROVE FALSE
  <2>00. x \in Int /\ y \in Int /\ T \subseteq Int
    OBVIOUS
  <2>0. x \in m /\ x \notin below(y) /\ \A z \in below(y) : z \in m
    BY <1>4, <1>5, <2>00
  <2>1. below(y) \subseteq m /\ below(y) # m
    BY <2>0, Zenon
  <2>2. below(y) \in segments
    OBVIOUS
  <2>3. <<below(y), m>> \in StrictSubsetOrdering(T)
    BY <1>1, <2>1, <2>2 DEF StrictSubsetOrdering
  <2> QED
    BY <1>3, <2>2, <2>3
<1> QED
  BY <1>5

\* ... and a greatest one.
LEMMA GreatestExists ==
  ASSUME NEW T, IsFiniteSet(T), T \subseteq Int, T # {}
  PROVE  \E x \in T : \A y \in T : x >= y
<1> DEFINE above(x) == {y \in T : y >= x}
           segments == {above(x) : x \in T}
<1>1. segments \subseteq SUBSET T /\ segments # {}
  OBVIOUS
<1>2. IsWellFoundedOn(StrictSubsetOrdering(T), SUBSET T)
  BY FS_StrictSubsetOrderingWellFounded, FS_FiniteSubsetsOfFinite
<1>3. PICK m \in segments : \A d \in segments : ~(<<d, m>> \in StrictSubsetOrdering(T))
  <2> HIDE DEF segments
  <2> QED
    BY <1>1, <1>2, WFMin
<1>4. PICK x \in T : m = above(x)
  OBVIOUS
<1>5. ASSUME NEW y \in T, y > x PROVE FALSE
  <2>00. x \in Int /\ y \in Int /\ T \subseteq Int
    OBVIOUS
  <2>0. x \in m /\ x \notin above(y) /\ \A z \in above(y) : z \in m
    BY <1>4, <1>5, <2>00
  <2>1. above(y) \subseteq m /\ above(y) # m
    BY <2>0, Zenon
  <2>2. above(y) \in segments
    OBVIOUS
  <2>3. <<above(y), m>> \in StrictSubsetOrdering(T)
    BY <1>1, <2>1, <2>2 DEF StrictSubsetOrdering
  <2> QED
    BY <1>3, <2>2, <2>3
<1> QED
  BY <1>5

\* What a function makes of a finite set is finite.
LEMMA ImageIsFinite ==
  ASSUME NEW S, IsFiniteSet(S), NEW f
  PROVE  IsFiniteSet({f[x] : x \in S})
<1> DEFINE T == {f[x] : x \in S}
           g == [x \in S |-> f[x]]
<1>1. g \in Surjection(S, T)
  BY DEF Surjection
<1>2. \E h : h \in Surjection(S, T)
  BY <1>1
<1> QED
  BY <1>2, FS_Surjection

\* Max is the greatest element of a finite set of integers ...
LEMMA MaxIsGreatest ==
  ASSUME NEW T, IsFiniteSet(T), T \subseteq Int, T # {}
  PROVE  Max(T) \in T /\ \A y \in T : Max(T) >= y
BY GreatestExists DEF Max

\* ... and Min the least.
LEMMA MinIsLeast ==
  ASSUME NEW T, IsFiniteSet(T), T \subseteq Int, T # {}
  PROVE  Min(T) \in T /\ \A y \in T : Min(T) <= y
BY LeastExists DEF Min
-----------------------------------------------------------------------------
(* Induction, and what the fold SumFunctionOnSet computes.                 *)

\* A nonempty set of naturals has a least element, hence what holds at 0 and is
\* passed on by each natural to the next holds of all.
LEMMA Induction ==
  ASSUME NEW T, 0 \in T, \A n \in Nat : n \in T => n + 1 \in T
  PROVE  \A n \in Nat : n \in T
<1>1. SUFFICES ASSUME NEW n \in Nat, n \notin T PROVE FALSE
  OBVIOUS
<1> DEFINE missing == {m \in 0..n : m \notin T}
<1>2. IsFiniteSet(missing) /\ missing \subseteq Int /\ missing # {}
  <2>1. IsFiniteSet(0..n)
    BY FS_Interval
  <2> QED
    BY <1>1, <2>1, FS_Subset
<1>3. PICK m \in missing : \A k \in missing : m <= k
  BY <1>2, LeastExists
<1>4. m - 1 \in Nat /\ m - 1 \in T
  BY <1>3
<1> QED
  BY <1>3, <1>4

\* What a fold takes from a set first, and what it computes: the sum of f over
\* each set in D, D being closed under taking.
Pick(s) == CHOOSE x \in s : TRUE
Adds(it, f, D) ==
  it = [s \in D |-> IF s = {} THEN 0 ELSE f[Pick(s)] + it[s \ {Pick(s)}]]

\* What is taken from a set is an element of it.
LEMMA PickBelongs ==
  ASSUME NEW s, s # {}
  PROVE  Pick(s) \in s
BY DEF Pick

\* A sum is computed by taking one element after the other: by induction on the
\* size, there is a function that does so for each subset of a finite set.
LEMMA SumUnfolds ==
  ASSUME NEW f, NEW S, IsFiniteSet(S)
  PROVE  \E it : Adds(it, f, SUBSET S) /\ SumFunctionOnSet(f, S) = it[S]
<1> DEFINE D == [n \in Nat |-> {s \in SUBSET S : Cardinality(s) <= n}]
           P == {n \in Nat : \E it : Adds(it, f, D[n])}
<1>0. \A s \in SUBSET S : IsFiniteSet(s) /\ Cardinality(s) \in Nat
  BY FS_Subset, FS_CardinalityType
<1>1. 0 \in P
  <2> DEFINE it == [s \in D[0] |-> 0]
  <2>1. \A s \in D[0] : s = {}
    BY <1>0, FS_EmptySet
  <2>2. Adds(it, f, D[0])
    BY <2>1 DEF Adds
  <2> QED
    BY <2>2
<1>2. ASSUME NEW n \in P PROVE n + 1 \in P
  <2>1. PICK it : Adds(it, f, D[n])
    BY <1>2
  <2>2. n \in Nat
    BY <1>2
  <2> DEFINE Dn == D[n]
             Dm == D[n + 1]
             more == [s \in Dm |-> IF s = {} THEN 0 ELSE f[Pick(s)] + it[s \ {Pick(s)}]]
  <2>3. \A s \in Dm : s # {} => s \ {Pick(s)} \in Dn
    <3>1. ASSUME NEW s \in Dm, s # {} PROVE s \ {Pick(s)} \in Dn
      <4>1. Pick(s) \in s
        BY <3>1, PickBelongs
      <4>2. Cardinality(s \ {Pick(s)}) = Cardinality(s) - 1
        BY <1>0, <4>1, FS_RemoveElement
      <4> QED
        BY <1>0, <4>2, <2>2
    <3> QED
      BY <3>1
  <2>4. Dn \subseteq Dm
    BY <1>0, <2>2
  <2>5. it = [s \in Dn |-> IF s = {} THEN 0 ELSE f[Pick(s)] + it[s \ {Pick(s)}]]
    BY <2>1 DEF Adds
  <2> HIDE DEF Dn, Dm
  <2>6. \A s \in Dn : more[s] = it[s]
    BY <2>4, <2>5
  <2>7. more = [s \in Dm |-> IF s = {} THEN 0 ELSE f[Pick(s)] + more[s \ {Pick(s)}]]
    BY <2>3, <2>6
  <2>8. \E any : Adds(any, f, Dm)
    BY <2>7 DEF Adds
  <2> USE DEF Dm
  <2> HIDE DEF D
  <2> QED
    BY <2>8, <2>2
<1> HIDE DEF P
<1>3. \A n \in Nat : n \in P
  BY <1>1, <1>2, Induction
<1> USE DEF P
<1>4. Cardinality(S) \in Nat /\ D[Cardinality(S)] = SUBSET S
  BY <1>0, FS_Subset
<1>5. \E it : Adds(it, f, SUBSET S)
  BY <1>3, <1>4
<1>6. SumFunctionOnSet(f, S) = (CHOOSE it : Adds(it, f, SUBSET S))[S]
  BY DEF SumFunctionOnSet, FoldFunctionOnSet, MapThenFoldSet, Adds, Pick
<1> QED
  BY <1>5, <1>6

\* A set of n + 1 elements has n when one of them is removed.
LEMMA OneLess ==
  ASSUME NEW S, IsFiniteSet(S), NEW n \in Nat, Cardinality(S) = n + 1, NEW x \in S
  PROVE  IsFiniteSet(S \ {x}) /\ Cardinality(S \ {x}) = n
<1>1. IsFiniteSet(S \ {x}) /\ Cardinality(S \ {x}) = Cardinality(S) - 1
  BY FS_RemoveElement
<1> QED
  BY <1>1

\* Induction over the subsets of a finite set.
LEMMA SetInduction ==
  ASSUME NEW S, IsFiniteSet(S), NEW Q, {} \in Q,
         \A T \in SUBSET S : \A x \in S \ T : T \in Q => T \cup {x} \in Q
  PROVE  \A T \in SUBSET S : T \in Q
<1> DEFINE P == {n \in Nat : \A T \in SUBSET S : Cardinality(T) = n => T \in Q}
<1>1. \A T \in SUBSET S : IsFiniteSet(T) /\ Cardinality(T) \in Nat
  BY FS_Subset, FS_CardinalityType
<1>2. 0 \in P
  BY <1>1, FS_EmptySet
<1>3. ASSUME NEW n \in P PROVE n + 1 \in P
  <2>1. ASSUME NEW T \in SUBSET S, Cardinality(T) = n + 1 PROVE T \in Q
    <3>0. n \in Nat /\ T # {}
      BY <1>3, <2>1, FS_EmptySet
    <3>1. PICK x \in T : TRUE
      BY <3>0
    <3>2. Cardinality(T \ {x}) = n
      BY <1>1, <1>3, <2>1, <3>1, FS_RemoveElement
    <3>3. T \ {x} \in SUBSET S /\ x \in S \ (T \ {x}) /\ T = (T \ {x}) \cup {x}
      BY <2>1, <3>1
    <3>4. T \ {x} \in Q
      BY <1>3, <3>2, <3>3
    <3> QED
      BY <3>3, <3>4
  <2> QED
    BY <1>3, <2>1
<1> HIDE DEF P
<1>4. \A n \in Nat : n \in P
  BY <1>2, <1>3, Induction
<1> QED
  BY <1>1, <1>4 DEF P

\* Whichever set such a function is made for, it gives a subset the same sum.
LEMMA SumsAgree ==
  ASSUME NEW f, NEW A, NEW B, NEW it, NEW jt, IsFiniteSet(A),
         Adds(it, f, SUBSET A), Adds(jt, f, SUBSET B)
  PROVE  \A s \in (SUBSET A) \cap (SUBSET B) : it[s] = jt[s]
<1> DEFINE P == {n \in Nat : \A s \in (SUBSET A) \cap (SUBSET B) :
                               Cardinality(s) = n => it[s] = jt[s]}
<1>1. \A s \in SUBSET A : IsFiniteSet(s) /\ Cardinality(s) \in Nat
  BY FS_Subset, FS_CardinalityType
<1>2. it[{}] = 0 /\ jt[{}] = 0
  BY DEF Adds
<1>3. 0 \in P
  BY <1>1, <1>2, FS_EmptySet
<1>4. ASSUME NEW n \in P PROVE n + 1 \in P
  <2>1. ASSUME NEW s \in (SUBSET A) \cap (SUBSET B), Cardinality(s) = n + 1 PROVE it[s] = jt[s]
    <3> DEFINE r == s \ {Pick(s)}
    <3>0. n \in Nat /\ s # {} /\ IsFiniteSet(s)
      BY <1>1, <1>4, <2>1, FS_EmptySet
    <3>1. s # {} /\ Pick(s) \in s
      BY <3>0, PickBelongs
    <3>2. r \in (SUBSET A) \cap (SUBSET B) /\ Cardinality(r) = n
      BY <2>1, <3>0, <3>1, OneLess
    <3>3. it[s] = f[Pick(s)] + it[r] /\ jt[s] = f[Pick(s)] + jt[r]
      BY <2>1, <3>1 DEF Adds
    <3> QED
      BY <1>4, <3>2, <3>3
  <2> QED
    BY <1>4, <2>1
<1> HIDE DEF P
<1>5. \A n \in Nat : n \in P
  BY <1>3, <1>4, Induction
<1> QED
  BY <1>1, <1>5 DEF P

\* The empty sum.
LEMMA SumOfNone ==
  ASSUME NEW f
  PROVE  SumFunctionOnSet(f, {}) = 0
<1>1. PICK it : Adds(it, f, SUBSET {}) /\ SumFunctionOnSet(f, {}) = it[{}]
  BY SumUnfolds, FS_EmptySet
<1>2. {} \in SUBSET {}
  OBVIOUS
<1> QED
  BY <1>1, <1>2 DEF Adds

\* A sum is the element that is taken first, and the sum of the others.
LEMMA SumPicks ==
  ASSUME NEW f, NEW S, IsFiniteSet(S), S # {}
  PROVE  SumFunctionOnSet(f, S) = f[Pick(S)] + SumFunctionOnSet(f, S \ {Pick(S)})
<1> DEFINE R == S \ {Pick(S)}
<1>1. IsFiniteSet(R)
  BY FS_RemoveElement
<1>2. PICK it : Adds(it, f, SUBSET S) /\ SumFunctionOnSet(f, S) = it[S]
  BY SumUnfolds
<1>3. PICK jt : Adds(jt, f, SUBSET R) /\ SumFunctionOnSet(f, R) = jt[R]
  BY <1>1, SumUnfolds
<1>4. it[R] = jt[R]
  <2>1. R \in (SUBSET S) \cap (SUBSET R)
    OBVIOUS
  <2> HIDE DEF R
  <2> QED
    BY <1>2, <1>3, <2>1, SumsAgree
<1>5. it[S] = f[Pick(S)] + it[R]
  BY <1>2 DEF Adds
<1> QED
  BY <1>2, <1>3, <1>4, <1>5

\* A sum of integers is an integer.
LEMMA SumIsInt ==
  ASSUME NEW f, NEW S, IsFiniteSet(S), \A x \in S : f[x] \in Int
  PROVE  SumFunctionOnSet(f, S) \in Int
<1> DEFINE P == {n \in Nat : \A T \in SUBSET S :
                               Cardinality(T) = n => SumFunctionOnSet(f, T) \in Int}
<1>1. \A s \in SUBSET S : IsFiniteSet(s) /\ Cardinality(s) \in Nat
  BY FS_Subset, FS_CardinalityType
<1>2. 0 \in P
  BY <1>1, SumOfNone, FS_EmptySet
<1>3. ASSUME NEW n \in P PROVE n + 1 \in P
  <2>1. ASSUME NEW T \in SUBSET S, Cardinality(T) = n + 1 PROVE SumFunctionOnSet(f, T) \in Int
    <3>1. T # {} /\ Pick(T) \in T
      BY <1>3, <2>1, FS_EmptySet, PickBelongs
    <3>2. T \ {Pick(T)} \in SUBSET S /\ Cardinality(T \ {Pick(T)}) = n
      BY <1>1, <1>3, <2>1, <3>1, FS_RemoveElement
    <3> QED
      BY <1>1, <1>3, <3>1, <3>2, SumPicks
  <2> QED
    BY <1>3, <2>1
<1> HIDE DEF P
<1>4. \A n \in Nat : n \in P
  BY <1>2, <1>3, Induction
<1> QED
  BY <1>1, <1>4 DEF P

\* The order in which a fold takes the elements does not matter.
LEMMA SumAdds ==
  ASSUME NEW f, NEW S, IsFiniteSet(S), NEW x, x \notin S,
         \A y \in S \cup {x} : f[y] \in Int
  PROVE  SumFunctionOnSet(f, S \cup {x}) = f[x] + SumFunctionOnSet(f, S)
<1> DEFINE sum(T) == SumFunctionOnSet(f, T)
           P == {n \in Nat : \A T \in SUBSET S : \A y \in (S \cup {x}) \ T :
                  Cardinality(T) = n => sum(T \cup {y}) = f[y] + sum(T)}
<1>0. \A T \in SUBSET S : IsFiniteSet(T) /\ Cardinality(T) \in Nat
  BY FS_Subset, FS_CardinalityType
<1>1. \A T \in SUBSET S : sum(T) \in Int
  BY <1>0, SumIsInt
<1>2. \A y : IsFiniteSet({y}) /\ {y} # {} /\ Pick({y}) = y /\ sum({y}) = f[y] + sum({})
  <2>1. ASSUME NEW y PROVE IsFiniteSet({y}) /\ {y} # {} /\ Pick({y}) = y
    BY FS_Singleton, PickBelongs
  <2>2. ASSUME NEW y PROVE sum({y}) = f[y] + sum({})
    <3>1. {y} \ {y} = {}
      OBVIOUS
    <3> QED
      BY <2>1, <3>1, SumPicks, ZenonT(90)
  <2> QED
    BY <2>1, <2>2
<1> HIDE DEF sum
<1>3. 0 \in P
  <2>1. ASSUME NEW T \in SUBSET S, NEW y \in (S \cup {x}) \ T, Cardinality(T) = 0
        PROVE  sum(T \cup {y}) = f[y] + sum(T)
    <3>1. T = {} /\ T \cup {y} = {y}
      BY <1>0, <2>1, FS_EmptySet
    <3> QED
      BY <1>2, <3>1
  <2> QED
    BY <2>1
<1>4. ASSUME NEW n \in P PROVE n + 1 \in P
  <2>1. ASSUME NEW T \in SUBSET S, NEW y \in (S \cup {x}) \ T, Cardinality(T) = n + 1
        PROVE  sum(T \cup {y}) = f[y] + sum(T)
    <3> DEFINE U == T \cup {y}
               p == Pick(U)
               R == T \ {p}
    <3>0. n \in Nat /\ IsFiniteSet(T) /\ U # {}
      BY <1>0, <1>4, <2>1
    <3>1. IsFiniteSet(U) /\ U # {} /\ p \in U
      BY <3>0, PickBelongs, FS_AddElement
    <3>2. sum(U) = f[p] + sum(U \ {p})
      BY <3>1, SumPicks DEF sum
    <3>3. CASE p = y
      <4>1. U \ {p} = T
        BY <3>3
      <4> QED
        BY <3>2, <3>3, <4>1
    <3>4. CASE p # y
      <4>0. p \in T /\ R \in SUBSET S
        BY <2>1, <3>1, <3>4
      <4>1. p \in T /\ R \in SUBSET S /\ Cardinality(R) = n
        BY <2>1, <3>0, <4>0, OneLess
      <4>2. U \ {p} = R \cup {y} /\ T = R \cup {p} /\ y \in (S \cup {x}) \ R
            /\ p \in (S \cup {x}) \ R
        BY <3>4, <4>1
      <4>3. sum(R \cup {y}) = f[y] + sum(R) /\ sum(R \cup {p}) = f[p] + sum(R)
        BY <1>4, <4>1, <4>2
      <4>4. sum(R) \in Int /\ f[y] \in Int /\ f[p] \in Int
        BY <1>1, <4>1, <4>2
      <4> HIDE DEF U, p, R
      <4> QED
        BY <3>2, <4>2, <4>3, <4>4 DEF U
    <3> QED
      BY <3>3, <3>4
  <2> QED
    BY <1>4, <2>1
<1> HIDE DEF P
<1>5. \A n \in Nat : n \in P
  BY <1>3, <1>4, Induction
<1>6. Cardinality(S) \in P
  BY <1>0, <1>5
<1> QED
  BY <1>6 DEF P, sum

\* A sum of naturals is a natural.
LEMMA SumIsNat ==
  ASSUME NEW f, NEW S, IsFiniteSet(S), \A x \in S : f[x] \in Nat
  PROVE  SumFunctionOnSet(f, S) \in Nat
<1> DEFINE Q == {T \in SUBSET S : SumFunctionOnSet(f, T) \in Nat}
<1>1. {} \in Q
  BY SumOfNone
<1>2. ASSUME NEW T \in SUBSET S, NEW x \in S \ T, T \in Q PROVE T \cup {x} \in Q
  <2>1. SumFunctionOnSet(f, T \cup {x}) = f[x] + SumFunctionOnSet(f, T)
    BY SumAdds, FS_Subset
  <2> QED
    BY <1>2, <2>1
<1> HIDE DEF Q
<1>3. S \in Q
  BY <1>1, <1>2, SetInduction
<1> QED
  BY <1>3 DEF Q

\* The sum over two sets that are apart is the sum of their sums.
LEMMA SumOfUnion ==
  ASSUME NEW f, NEW S, IsFiniteSet(S), NEW R, IsFiniteSet(R), R \cap S = {},
         \A x \in R \cup S : f[x] \in Int
  PROVE  SumFunctionOnSet(f, R \cup S) = SumFunctionOnSet(f, R) + SumFunctionOnSet(f, S)
<1> DEFINE sum(T) == SumFunctionOnSet(f, T)
           Q == {T \in SUBSET S : sum(R \cup T) = sum(R) + sum(T)}
<1>0. \A T \in SUBSET S : IsFiniteSet(T) /\ IsFiniteSet(R \cup T) /\ sum(T) \in Int
  BY FS_Subset, FS_Union, SumIsInt
<1>1. {} \in Q
  <2>1. R \cup {} = R /\ sum({}) = 0 /\ sum(R) \in Int
    BY SumOfNone, SumIsInt
  <2> QED
    BY <2>1
<1>2. ASSUME NEW T \in SUBSET S, NEW x \in S \ T, T \in Q PROVE T \cup {x} \in Q
  <2>1. sum(T \cup {x}) = f[x] + sum(T)
    BY <1>0, SumAdds
  <2>2. sum((R \cup T) \cup {x}) = f[x] + sum(R \cup T)
    BY <1>0, SumAdds
  <2>3. (R \cup T) \cup {x} = R \cup (T \cup {x}) /\ T \cup {x} \in SUBSET S
    OBVIOUS
  <2>4. sum(R) \in Int /\ sum(T) \in Int /\ f[x] \in Int
    BY <1>0, SumIsInt
  <2> HIDE DEF sum
  <2>5. sum(R \cup T) = sum(R) + sum(T)
    BY <1>2
  <2>6. sum(R \cup (T \cup {x})) = sum((R \cup T) \cup {x})
    BY <2>3, Zenon
  <2>7. sum(R \cup (T \cup {x})) = sum(R) + sum(T \cup {x})
    BY <2>1, <2>2, <2>4, <2>5, <2>6
  <2> QED
    BY <2>3, <2>7
<1> HIDE DEF Q
<1>3. S \in Q
  BY <1>1, <1>2, SetInduction
<1> QED
  BY <1>3 DEF Q

\* Functions that agree on a set have the same sum over it.
LEMMA SumOfSame ==
  ASSUME NEW f, NEW g, NEW S, IsFiniteSet(S), \A x \in S : f[x] \in Int /\ f[x] = g[x]
  PROVE  SumFunctionOnSet(f, S) = SumFunctionOnSet(g, S)
<1> DEFINE Q == {T \in SUBSET S : SumFunctionOnSet(f, T) = SumFunctionOnSet(g, T)}
<1>1. {} \in Q
  BY SumOfNone
<1>2. ASSUME NEW T \in SUBSET S, NEW x \in S \ T, T \in Q PROVE T \cup {x} \in Q
  <2>1. IsFiniteSet(T)
    BY FS_Subset
  <2>2. SumFunctionOnSet(f, T \cup {x}) = f[x] + SumFunctionOnSet(f, T)
    BY <2>1, SumAdds
  <2>3. SumFunctionOnSet(g, T \cup {x}) = g[x] + SumFunctionOnSet(g, T)
    BY <2>1, SumAdds
  <2> QED
    BY <1>2, <2>2, <2>3
<1> HIDE DEF Q
<1>3. S \in Q
  BY <1>1, <1>2, SetInduction
<1> QED
  BY <1>3 DEF Q

\* A function that is nowhere greater has no greater sum.
LEMMA SumIsMonotone ==
  ASSUME NEW f, NEW g, NEW S, IsFiniteSet(S),
         \A x \in S : f[x] \in Int /\ g[x] \in Int /\ f[x] <= g[x]
  PROVE  SumFunctionOnSet(f, S) <= SumFunctionOnSet(g, S)
<1> DEFINE Q == {T \in SUBSET S : SumFunctionOnSet(f, T) <= SumFunctionOnSet(g, T)}
<1>1. {} \in Q
  BY SumOfNone
<1>2. ASSUME NEW T \in SUBSET S, NEW x \in S \ T, T \in Q PROVE T \cup {x} \in Q
  <2>1. IsFiniteSet(T) /\ SumFunctionOnSet(f, T) \in Int /\ SumFunctionOnSet(g, T) \in Int
    BY FS_Subset, SumIsInt
  <2>2. SumFunctionOnSet(f, T \cup {x}) = f[x] + SumFunctionOnSet(f, T)
    BY <2>1, SumAdds
  <2>3. SumFunctionOnSet(g, T \cup {x}) = g[x] + SumFunctionOnSet(g, T)
    BY <2>1, SumAdds
  <2>4. f[x] \in Int /\ g[x] \in Int /\ f[x] <= g[x]
    BY <1>2
  <2>5. SumFunctionOnSet(f, T) <= SumFunctionOnSet(g, T)
    BY <1>2
  <2>6. SumFunctionOnSet(f, T \cup {x}) <= SumFunctionOnSet(g, T \cup {x})
    BY <2>1, <2>2, <2>3, <2>4, <2>5
  <2> QED
    BY <1>2, <2>6
<1> HIDE DEF Q
<1>3. S \in Q
  BY <1>1, <1>2, SetInduction
<1> QED
  BY <1>3 DEF Q

\* Leaving elements out makes a sum of naturals no greater.
LEMMA SumOfSubset ==
  ASSUME NEW f, NEW S, IsFiniteSet(S), NEW T \in SUBSET S, \A x \in S : f[x] \in Nat
  PROVE  SumFunctionOnSet(f, T) \in Nat /\ SumFunctionOnSet(f, T) <= SumFunctionOnSet(f, S)
<1>1. IsFiniteSet(T) /\ IsFiniteSet(S \ T) /\ T \cup (S \ T) = S /\ T \cap (S \ T) = {}
  BY FS_Subset
<1>2. SumFunctionOnSet(f, T) \in Nat /\ SumFunctionOnSet(f, S \ T) \in Nat
  BY <1>1, SumIsNat
<1>3. SumFunctionOnSet(f, T \cup (S \ T)) = SumFunctionOnSet(f, S \ T) + SumFunctionOnSet(f, T)
  <2>1. (S \ T) \cup T = T \cup (S \ T)
    OBVIOUS
  <2>2. SumFunctionOnSet(f, (S \ T) \cup T) = SumFunctionOnSet(f, S \ T) + SumFunctionOnSet(f, T)
    BY <1>1, SumOfUnion
  <2> QED
    BY <2>1, <2>2, Zenon
<1>4. SumFunctionOnSet(f, S) = SumFunctionOnSet(f, S \ T) + SumFunctionOnSet(f, T)
  BY <1>1, <1>3, Zenon
<1> QED
  BY <1>2, <1>4

\* Adding one at one place adds one to the sum.
LEMMA SumIncrement ==
  ASSUME NEW S, IsFiniteSet(S), NEW f \in [S -> Nat], NEW i \in S
  PROVE  SumFunction([f EXCEPT ![i] = @ + 1]) = SumFunction(f) + 1
<1> DEFINE g == [f EXCEPT ![i] = @ + 1]
           R == S \ {i}
<1>1. IsFiniteSet(R) /\ R \cup {i} = S /\ i \notin R
  BY FS_RemoveElement
<1>2. DOMAIN g = S /\ DOMAIN f = S /\ g[i] = f[i] + 1 /\ \A x \in R : g[x] = f[x]
  OBVIOUS
<1>3. \A x \in S : g[x] \in Int /\ f[x] \in Int
  OBVIOUS
<1> HIDE DEF g, R
<1>4. SumFunctionOnSet(f, R) = SumFunctionOnSet(g, R) /\ SumFunctionOnSet(f, R) \in Int
  BY <1>1, <1>2, <1>3, SumOfSame, SumIsInt
<1>5. SumFunctionOnSet(f, R \cup {i}) = f[i] + SumFunctionOnSet(f, R)
  BY <1>1, <1>3, SumAdds
<1>6. SumFunctionOnSet(g, R \cup {i}) = g[i] + SumFunctionOnSet(g, R)
  BY <1>1, <1>3, SumAdds
<1>7. SumFunctionOnSet(g, R \cup {i}) = SumFunctionOnSet(f, R \cup {i}) + 1
  BY <1>2, <1>3, <1>4, <1>5, <1>6
<1>8. SumFunctionOnSet(g, S) = SumFunctionOnSet(f, S) + 1
  BY <1>1, <1>7, Zenon
<1> QED
  BY <1>2, <1>8 DEF SumFunction, g
-----------------------------------------------------------------------------
(* Sequences: induction, and what FlattenSeq and ElementsAt compute.       *)

\* Three lists in a row, grouped either way.
LEMMA Regroup ==
  \A X, a, b, c :
    a \in Seq(X) /\ b \in Seq(X) /\ c \in Seq(X) => (a \o b) \o c = a \o (b \o c)
BY ConcatAssociative

\* Induction over the sequences of a set.
LEMMA SeqInduction ==
  ASSUME NEW X, NEW Q, <<>> \in Q,
         \A s \in Seq(X) : \A x \in X : s \in Q => Append(s, x) \in Q
  PROVE  \A s \in Seq(X) : s \in Q
<1> DEFINE P == {n \in Nat : \A s \in Seq(X) : Len(s) = n => s \in Q}
<1>1. 0 \in P
  OBVIOUS
<1>2. ASSUME NEW n \in P PROVE n + 1 \in P
  <2>1. ASSUME NEW s \in Seq(X), Len(s) = n + 1 PROVE s \in Q
    <3>0. n \in Nat /\ s # <<>>
      BY <1>2, <2>1
    <3>1. PICK r \in Seq(X), x \in X : s = Append(r, x)
      BY <3>0, SequenceEmptyOrAppend
    <3>2. Len(r) = n
      BY <2>1, <3>0, <3>1
    <3> QED
      BY <1>2, <3>1, <3>2
  <2> QED
    BY <1>2, <2>1
<1> HIDE DEF P
<1>3. \A n \in Nat : n \in P
  BY <1>1, <1>2, Induction
<1> QED
  BY <1>3 DEF P

\* What FlattenSeq computes on its way: the first i sequences in one.
Flattens(f, ss) == f = [i \in 1..Len(ss) |-> IF i = 1 THEN ss[i] ELSE f[i - 1] \o ss[i]]

\* There is such a function, and it gives sequences.
LEMMA FlatteningExists ==
  ASSUME NEW X, NEW ss \in Seq(Seq(X))
  PROVE  \E f \in [1..Len(ss) -> Seq(X)] : Flattens(f, ss)
<1> DEFINE Upto == [n \in Nat |-> {i \in 1..Len(ss) : i <= n}]
           P == {n \in Nat : \E f \in [Upto[n] -> Seq(X)] :
                  f = [i \in Upto[n] |-> IF i = 1 THEN ss[i] ELSE f[i - 1] \o ss[i]]}
<1>1. 0 \in P
  <2> DEFINE f == [i \in Upto[0] |-> <<>>]
  <2>1. Upto[0] = {}
    OBVIOUS
  <2>2. f \in [Upto[0] -> Seq(X)]
        /\ f = [i \in Upto[0] |-> IF i = 1 THEN ss[i] ELSE f[i - 1] \o ss[i]]
    BY <2>1
  <2> QED
    BY <2>2
<1>2. ASSUME NEW n \in P PROVE n + 1 \in P
  <2>0. n \in Nat
    BY <1>2
  <2>1. PICK f \in [Upto[n] -> Seq(X)] :
                f = [i \in Upto[n] |-> IF i = 1 THEN ss[i] ELSE f[i - 1] \o ss[i]]
    BY <1>2
  <2> DEFINE U == Upto[n]
             V == Upto[n + 1]
             g == [i \in V |-> IF i = 1 THEN ss[i] ELSE f[i - 1] \o ss[i]]
  <2>2. U \subseteq V /\ \A i \in V : i \in Nat /\ (i # 1 => i - 1 \in U) /\ ss[i] \in Seq(X)
    BY <2>0
  <2>3. f \in [U -> Seq(X)] /\ f = [i \in U |-> IF i = 1 THEN ss[i] ELSE f[i - 1] \o ss[i]]
    BY <2>1
  <2> HIDE DEF U, V
  <2>4. \A i \in U : g[i] = f[i]
    BY <2>2, <2>3
  <2>5. g \in [V -> Seq(X)]
    <3>1. ASSUME NEW i \in V PROVE (IF i = 1 THEN ss[i] ELSE f[i - 1] \o ss[i]) \in Seq(X)
      <4>1. i # 1 => f[i - 1] \in Seq(X)
        BY <2>2, <2>3
      <4> QED
        BY <2>2, <4>1, ConcatProperties
    <3> QED
      BY <3>1
  <2>6. g = [i \in V |-> IF i = 1 THEN ss[i] ELSE g[i - 1] \o ss[i]]
    BY <2>2, <2>4
  <2>7. \E h \in [V -> Seq(X)] : h = [i \in V |-> IF i = 1 THEN ss[i] ELSE h[i - 1] \o ss[i]]
    BY <2>5, <2>6
  <2>8. \E h \in [Upto[n + 1] -> Seq(X)] :
          h = [i \in Upto[n + 1] |-> IF i = 1 THEN ss[i] ELSE h[i - 1] \o ss[i]]
    BY <2>7 DEF V
  <2> HIDE DEF Upto
  <2>9. n + 1 \in Nat
    BY <2>0
  <2> QED
    BY <2>8, <2>9
<1>3. \A n \in Nat : n \in P
  <2> HIDE DEF P
  <2> QED
    BY <1>1, <1>2, Induction
<1>4. Len(ss) \in Nat /\ Upto[Len(ss)] = 1..Len(ss)
  <2>1. Len(ss) \in Nat
    BY LenProperties
  <2> QED
    BY <2>1
<1>5. Len(ss) \in P
  <2> HIDE DEF P
  <2> QED
    BY <1>3, <1>4
<1> QED
  <2>1. \E f \in [Upto[Len(ss)] -> Seq(X)] :
          f = [i \in Upto[Len(ss)] |-> IF i = 1 THEN ss[i] ELSE f[i - 1] \o ss[i]]
    BY <1>5
  <2> HIDE DEF Upto
  <2> QED
    BY <1>4, <2>1 DEF Flattens

\* ... and FlattenSeq is its last value.
LEMMA FlattenUnfolds ==
  ASSUME NEW X, NEW ss \in Seq(Seq(X)), ss # <<>>
  PROVE  \E f \in [1..Len(ss) -> Seq(X)] : Flattens(f, ss) /\ FlattenSeq(ss) = f[Len(ss)]
<1>1. PICK f \in [1..Len(ss) -> Seq(X)] : Flattens(f, ss)
  BY FlatteningExists
<1> DEFINE g == CHOOSE h : Flattens(h, ss)
<1>2. Flattens(g, ss)
  BY <1>1
<1>3. FlattenSeq(ss) = g[Len(ss)]
  BY DEF FlattenSeq, Flattens
<1> HIDE DEF g
<1> DEFINE P == {n \in Nat : \A i \in 1..Len(ss) : i <= n => g[i] = f[i]}
<1>4. 0 \in P
  OBVIOUS
<1>5. ASSUME NEW n \in P PROVE n + 1 \in P
  <2>0. n \in Nat
    BY <1>5
  <2>1. ASSUME NEW i \in 1..Len(ss), i <= n + 1 PROVE g[i] = f[i]
    <3>1. i # 1 => i - 1 \in 1..Len(ss) /\ i - 1 <= n
      BY <2>0, <2>1
    <3>2. i # 1 => g[i - 1] = f[i - 1]
      BY <1>5, <3>1
    <3>3. g[i] = IF i = 1 THEN ss[i] ELSE g[i - 1] \o ss[i]
      BY <1>2 DEF Flattens
    <3>4. f[i] = IF i = 1 THEN ss[i] ELSE f[i - 1] \o ss[i]
      BY <1>1 DEF Flattens
    <3> QED
      BY <3>2, <3>3, <3>4
  <2> QED
    BY <2>0, <2>1
<1>6. \A n \in Nat : n \in P
  <2> HIDE DEF P
  <2> QED
    BY <1>4, <1>5, Induction
<1>7. Len(ss) \in Nat /\ Len(ss) \in 1..Len(ss)
  BY EmptySeq
<1>8. Len(ss) \in P
  BY <1>6, <1>7
<1>9. g[Len(ss)] = f[Len(ss)]
  BY <1>7, <1>8
<1> QED
  BY <1>1, <1>3, <1>9

\* Flattening nothing.
LEMMA FlattenNone == FlattenSeq(<<>>) = <<>>
BY DEF FlattenSeq

\* Sequences of elements of a set, flattened, are one.
LEMMA FlattenIsSeq ==
  ASSUME NEW X, NEW ss \in Seq(Seq(X))
  PROVE  FlattenSeq(ss) \in Seq(X)
<1>1. CASE ss = <<>>
  <2>1. FlattenSeq(ss) = <<>>
    BY <1>1, FlattenNone
  <2> QED
    BY <2>1
<1>2. CASE ss # <<>>
  <2>1. PICK f \in [1..Len(ss) -> Seq(X)] : FlattenSeq(ss) = f[Len(ss)]
    BY <1>2, FlattenUnfolds
  <2>2. Len(ss) \in 1..Len(ss)
    BY <1>2
  <2> QED
    BY <2>1, <2>2
<1> QED
  BY <1>1, <1>2

\* One sequence more is one more at the end.
LEMMA FlattenAppend ==
  ASSUME NEW X, NEW ss \in Seq(Seq(X)), NEW s \in Seq(X)
  PROVE  FlattenSeq(Append(ss, s)) = FlattenSeq(ss) \o s
<1> DEFINE tt == Append(ss, s)
           n == Len(ss)
<1>1. /\ tt \in Seq(Seq(X)) /\ tt # <<>> /\ Len(tt) = n + 1 /\ n \in Nat
      /\ tt[n + 1] = s /\ \A i \in 1..n : tt[i] = ss[i]
  BY AppendProperties, LenProperties
<1> HIDE DEF tt
<1>2. PICK g \in [1..(n + 1) -> Seq(X)] : Flattens(g, tt) /\ FlattenSeq(tt) = g[n + 1]
  BY <1>1, FlattenUnfolds
<1>3. \A i \in 1..(n + 1) : g[i] = IF i = 1 THEN tt[i] ELSE g[i - 1] \o tt[i]
  BY <1>1, <1>2 DEF Flattens
<1>4. CASE ss = <<>>
  BY <1>1, <1>2, <1>3, <1>4, FlattenNone DEF tt
<1>5. CASE ss # <<>>
  <2>1. PICK f \in [1..n -> Seq(X)] : Flattens(f, ss) /\ FlattenSeq(ss) = f[n]
    BY <1>5, FlattenUnfolds
  <2>2. \A i \in 1..n : f[i] = IF i = 1 THEN ss[i] ELSE f[i - 1] \o ss[i]
    BY <2>1 DEF Flattens
  <2> DEFINE P == {m \in Nat : \A i \in 1..n : i <= m => g[i] = f[i]}
  <2>3. 0 \in P
    OBVIOUS
  <2>4. ASSUME NEW m \in P PROVE m + 1 \in P
    <3>0. m \in Nat
      BY <2>4
    <3>1. ASSUME NEW i \in 1..n, i <= m + 1 PROVE g[i] = f[i]
      <4>1. i # 1 => i - 1 \in 1..n /\ i - 1 <= m
        BY <3>0, <3>1
      <4>2. i # 1 => g[i - 1] = f[i - 1]
        BY <2>4, <4>1
      <4> QED
        <5>0. n \in Nat /\ i \in 1..n
          BY <1>1, <3>1
        <5>1. i \in 1..(n + 1)
          BY <5>0
        <5>2. g[i] = IF i = 1 THEN tt[i] ELSE g[i - 1] \o tt[i]
          BY <1>3, <5>1
        <5>3. f[i] = IF i = 1 THEN ss[i] ELSE f[i - 1] \o ss[i]
          BY <2>2, <3>1
        <5>4. tt[i] = ss[i]
          BY <1>1, <3>1
        <5> QED
          BY <4>2, <5>2, <5>3, <5>4
    <3> QED
      BY <3>0, <3>1
  <2>5. \A m \in Nat : m \in P
    <3> HIDE DEF P
    <3> QED
      BY <2>3, <2>4, Induction
  <2>6. n \in 1..n
    BY <1>5, EmptySeq
  <2>7. n \in P
    <3> HIDE DEF P
    <3> QED
      BY <1>1, <2>5
  <2>8. g[n] = f[n]
    BY <2>6, <2>7
  <2>9. g[n + 1] = g[n] \o tt[n + 1]
    <3>1. n + 1 \in 1..(n + 1) /\ n + 1 # 1 /\ (n + 1) - 1 = n
      BY <1>1, <2>6
    <3> QED
      BY <1>3, <3>1
  <2> QED
    BY <1>1, <1>2, <2>1, <2>8, <2>9 DEF tt
<1> QED
  BY <1>4, <1>5 DEF tt

\* Flattening goes piece by piece.
LEMMA FlattenConcat ==
  ASSUME NEW X, NEW ss \in Seq(Seq(X)), NEW tt \in Seq(Seq(X))
  PROVE  FlattenSeq(ss \o tt) = FlattenSeq(ss) \o FlattenSeq(tt)
<1> DEFINE Q == {t \in Seq(Seq(X)) : FlattenSeq(ss \o t) = FlattenSeq(ss) \o FlattenSeq(t)}
<1>1. <<>> \in Q
  <2>1. ss \o <<>> = ss /\ FlattenSeq(ss) \o <<>> = FlattenSeq(ss)
    BY FlattenIsSeq, ConcatEmptySeq
  <2>2. <<>> \in Seq(Seq(X))
    OBVIOUS
  <2>3. FlattenSeq(ss \o <<>>) = FlattenSeq(ss) \o FlattenSeq(<<>>)
    BY <2>1, FlattenNone
  <2> QED
    BY <2>2, <2>3
<1>2. ASSUME NEW t \in Seq(Seq(X)), NEW x \in Seq(X), t \in Q PROVE Append(t, x) \in Q
  <2>1. ss \o t \in Seq(Seq(X)) /\ ss \o Append(t, x) = Append(ss \o t, x)
    OBVIOUS
  <2>2. FlattenSeq(ss \o Append(t, x)) = FlattenSeq(ss \o t) \o x
    BY <2>1, FlattenAppend
  <2>3. FlattenSeq(Append(t, x)) = FlattenSeq(t) \o x
    BY FlattenAppend
  <2>4. FlattenSeq(ss \o t) = FlattenSeq(ss) \o FlattenSeq(t)
    BY <1>2
  <2>5. /\ FlattenSeq(ss) \in Seq(X) /\ FlattenSeq(t) \in Seq(X)
    BY FlattenIsSeq
  <2>6. (FlattenSeq(ss) \o FlattenSeq(t)) \o x = FlattenSeq(ss) \o (FlattenSeq(t) \o x)
    <3>1. x \in Seq(X)
      OBVIOUS
    <3> QED
      BY <2>5, <3>1, Regroup
  <2>7. FlattenSeq(ss \o Append(t, x)) = FlattenSeq(ss) \o FlattenSeq(Append(t, x))
    BY <2>2, <2>3, <2>4, <2>6, Zenon
  <2> QED
    BY <2>7
<1> HIDE DEF Q
<1>3. tt \in Q
  BY <1>1, <1>2, SeqInduction
<1> QED
  BY <1>3 DEF Q

\* One sequence, flattened, is that sequence.
LEMMA FlattenOne ==
  ASSUME NEW X, NEW s \in Seq(X)
  PROVE  FlattenSeq(<<s>>) = s
<1>1. <<>> \in Seq(Seq(X)) /\ Append(<<>>, s) = <<s>> /\ <<>> \o s = s
  BY ConcatEmptySeq
<1> QED
  BY <1>1, FlattenAppend, FlattenNone

\* What ElementsAt flattens are sequences of the elements it keeps.
LEMMA PiecesAreSeqs ==
  ASSUME NEW X, NEW s \in Seq(X), NEW positions, NEW Y,
         \A i \in 1..Len(s) : i \in positions => s[i] \in Y
  PROVE  [i \in DOMAIN s |-> IF i \in positions THEN <<s[i]>> ELSE <<>>] \in Seq(Seq(Y))
<1>1. DOMAIN s = 1..Len(s) /\ Len(s) \in Nat
  BY LenProperties
<1>2. ASSUME NEW i \in 1..Len(s)
      PROVE  (IF i \in positions THEN <<s[i]>> ELSE <<>>) \in Seq(Y)
  <2>1. i \in positions => <<s[i]>> \in Seq(Y)
    OBVIOUS
  <2> QED
    BY <2>1
<1> QED
  BY <1>1, <1>2

\* What ElementsAt keeps is a sequence of them ...
LEMMA ElementsAreKept ==
  ASSUME NEW X, NEW s \in Seq(X), NEW positions, NEW Y,
         \A i \in 1..Len(s) : i \in positions => s[i] \in Y
  PROVE  ElementsAt(s, positions) \in Seq(Y)
BY PiecesAreSeqs, FlattenIsSeq DEF ElementsAt

\* ... hence of elements of the sequence it is taken from.
LEMMA ElementsIsSeq ==
  ASSUME NEW X, NEW s \in Seq(X), NEW positions
  PROVE  ElementsAt(s, positions) \in Seq(X)
BY ElementsAreKept, ElementOfSeq

\* There is nothing to keep of nothing.
LEMMA ElementsOfNone ==
  ASSUME NEW positions
  PROVE  ElementsAt(<<>>, positions) = <<>>
BY FlattenNone DEF ElementsAt

\* The elements of a longer sequence: the last is there if its position is.
LEMMA ElementsAppend ==
  ASSUME NEW X, NEW s \in Seq(X), NEW x \in X, NEW positions
  PROVE  ElementsAt(Append(s, x), positions) =
           IF Len(s) + 1 \in positions THEN Append(ElementsAt(s, positions), x)
                                       ELSE ElementsAt(s, positions)
<1> DEFINE pieces == [i \in DOMAIN s |-> IF i \in positions THEN <<s[i]>> ELSE <<>>]
           t == Append(s, x)
           last == IF Len(s) + 1 \in positions THEN <<x>> ELSE <<>>
           more == [i \in DOMAIN t |-> IF i \in positions THEN <<t[i]>> ELSE <<>>]
<1>1. /\ DOMAIN s = 1..Len(s) /\ Len(s) \in Nat
      /\ t \in Seq(X) /\ DOMAIN t = 1..(Len(s) + 1) /\ t[Len(s) + 1] = x
      /\ \A i \in 1..Len(s) : t[i] = s[i]
  BY LenProperties, AppendProperties
<1>2. pieces \in Seq(Seq(X)) /\ more \in Seq(Seq(X)) /\ last \in Seq(X)
  <2>1. pieces \in Seq(Seq(X)) /\ more \in Seq(Seq(X))
    BY <1>1, PiecesAreSeqs
  <2>2. <<x>> \in Seq(X) /\ <<>> \in Seq(X)
    OBVIOUS
  <2> QED
    BY <2>1, <2>2
<1>3. more = Append(pieces, last)
  <2>1. Len(pieces) = Len(s) /\ Len(more) = Len(s) + 1
    BY <1>1
  <2>2. ASSUME NEW i \in 1..(Len(s) + 1) PROVE more[i] = Append(pieces, last)[i]
    <3>1. CASE i \in 1..Len(s)
      BY <1>1, <1>2, <2>1, <3>1, AppendProperties
    <3>2. CASE i = Len(s) + 1
      BY <1>1, <1>2, <2>1, <3>2, AppendProperties
    <3> QED
      BY <1>1, <3>1, <3>2
  <2>3. Append(pieces, last) \in Seq(Seq(X)) /\ Len(Append(pieces, last)) = Len(s) + 1
    BY <1>2, <2>1, AppendProperties
  <2> HIDE DEF pieces, more, last, t
  <2> QED
    BY <1>2, <2>1, <2>2, <2>3, SeqEqual
<1>4. FlattenSeq(more) = FlattenSeq(pieces) \o last
  <2> HIDE DEF pieces, more, last
  <2> QED
    BY <1>2, <1>3, FlattenAppend
<1>5. ElementsAt(t, positions) = ElementsAt(s, positions) \o last
  BY <1>4 DEF ElementsAt
<1>6. ElementsAt(s, positions) \in Seq(X)
  BY ElementsIsSeq
<1>7. /\ ElementsAt(s, positions) \o <<x>> = Append(ElementsAt(s, positions), x)
      /\ ElementsAt(s, positions) \o <<>> = ElementsAt(s, positions)
  BY <1>6, AppendIsConcat, ConcatEmptySeq
<1> QED
  BY <1>5, <1>7

\* ... and of two sequences in one.
LEMMA ElementsConcat ==
  ASSUME NEW X, NEW s \in Seq(X), NEW t \in Seq(X), NEW p, NEW q, NEW r,
         \A i \in 1..Len(s) : i \in r <=> i \in p,
         \A i \in 1..Len(t) : Len(s) + i \in r <=> i \in q
  PROVE  ElementsAt(s \o t, r) = ElementsAt(s, p) \o ElementsAt(t, q)
<1> DEFINE a == [i \in DOMAIN s |-> IF i \in p THEN <<s[i]>> ELSE <<>>]
           b == [i \in DOMAIN t |-> IF i \in q THEN <<t[i]>> ELSE <<>>]
           u == s \o t
           c == [i \in DOMAIN u |-> IF i \in r THEN <<u[i]>> ELSE <<>>]
           m == Len(s)
           n == Len(t)
<1>1. /\ DOMAIN s = 1..m /\ DOMAIN t = 1..n /\ m \in Nat /\ n \in Nat
      /\ u \in Seq(X) /\ DOMAIN u = 1..(m + n)
      /\ \A i \in 1..(m + n) : u[i] = IF i <= m THEN s[i] ELSE t[i - m]
  BY LenProperties, ConcatProperties
<1>2. a \in Seq(Seq(X)) /\ b \in Seq(Seq(X)) /\ c \in Seq(Seq(X))
  BY <1>1, PiecesAreSeqs
<1>3. c = a \o b
  <2>1. Len(a) = m /\ Len(b) = n /\ Len(c) = m + n
    BY <1>1
  <2>2. /\ a \o b \in Seq(Seq(X)) /\ Len(a \o b) = m + n
        /\ \A i \in 1..(m + n) : (a \o b)[i] = IF i <= m THEN a[i] ELSE b[i - m]
    <3> HIDE DEF a, b, m, n
    <3>1. a \in Seq(Seq(X)) /\ b \in Seq(Seq(X))
      BY <1>2
    <3>2. /\ a \o b \in Seq(Seq(X)) /\ Len(a \o b) = Len(a) + Len(b)
          /\ \A i \in 1..(Len(a) + Len(b)) :
               (a \o b)[i] = IF i <= Len(a) THEN a[i] ELSE b[i - Len(a)]
      BY <3>1, ConcatProperties
    <3> QED
      BY <2>1, <3>2
  <2>3. ASSUME NEW i \in 1..(m + n) PROVE c[i] = (a \o b)[i]
    <3>1. c[i] = IF i \in r THEN <<u[i]>> ELSE <<>>
      BY <1>1
    <3>2. CASE i <= m
      <4>1. i \in 1..m
        BY <1>1, <3>2
      <4>2. a[i] = IF i \in p THEN <<s[i]>> ELSE <<>>
        BY <1>1, <4>1
      <4> QED
        BY <1>1, <2>2, <3>1, <3>2, <4>1, <4>2
    <3>3. CASE ~(i <= m)
      <4>1. i - m \in 1..n /\ m + (i - m) = i
        BY <1>1, <3>3
      <4>2. b[i - m] = IF i - m \in q THEN <<t[i - m]>> ELSE <<>>
        BY <1>1, <4>1
      <4>3. i \in r <=> i - m \in q
        BY <4>1
      <4> QED
        BY <1>1, <2>2, <3>1, <3>3, <4>2, <4>3
    <3> QED
      BY <3>2, <3>3
  <2> HIDE DEF a, b, c, m, n, u
  <2> QED
    BY <1>2, <2>1, <2>2, <2>3, SeqEqual
<1>4. FlattenSeq(c) = FlattenSeq(a) \o FlattenSeq(b)
  <2> HIDE DEF a, b, c
  <2> QED
    BY <1>2, <1>3, FlattenConcat
<1> QED
  BY <1>4 DEF ElementsAt

\* Everything is kept of a sequence whose positions are all kept ...
LEMMA ElementsOfAll ==
  ASSUME NEW X, NEW s \in Seq(X), NEW positions, 1..Len(s) \subseteq positions
  PROVE  ElementsAt(s, positions) = s
<1> DEFINE Q == {r \in Seq(X) : 1..Len(r) \subseteq positions => ElementsAt(r, positions) = r}
<1>1. <<>> \in Q
  BY ElementsOfNone
<1>2. ASSUME NEW r \in Seq(X), NEW x \in X, r \in Q PROVE Append(r, x) \in Q
  <2>1. ASSUME 1..Len(Append(r, x)) \subseteq positions
        PROVE  ElementsAt(Append(r, x), positions) = Append(r, x)
    <3>1. Len(Append(r, x)) = Len(r) + 1 /\ Len(r) \in Nat
      BY AppendProperties, LenProperties
    <3>2. 1..Len(r) \subseteq positions /\ Len(r) + 1 \in positions
      BY <2>1, <3>1
    <3>3. ElementsAt(r, positions) = r
      BY <1>2, <3>2
    <3> QED
      BY <3>2, <3>3, ElementsAppend
  <2>2. Append(r, x) \in Seq(X)
    BY AppendProperties
  <2> QED
    BY <2>1, <2>2
<1> HIDE DEF Q
<1>3. s \in Q
  BY <1>1, <1>2, SeqInduction
<1> QED
  BY <1>3 DEF Q

\* ... and nothing if none is.
LEMMA ElementsOfNobody ==
  ASSUME NEW X, NEW s \in Seq(X), NEW positions, (1..Len(s)) \cap positions = {}
  PROVE  ElementsAt(s, positions) = <<>>
<1>1. \A i \in 1..Len(s) : i \in positions => s[i] \in {}
  OBVIOUS
<1>2. ElementsAt(s, positions) \in Seq({})
  BY <1>1, ElementsAreKept
<1>3. \A t \in Seq({}) : t = <<>>
  OBVIOUS
<1> QED
  BY <1>2, <1>3

\* A sequence of elements of any set is a list.
LEMMA SeqIsList ==
  ASSUME NEW X, NEW s \in Seq(X)
  PROVE  IsList(s)
BY SeqOfRange DEF IsList

\* Two lists make one.
LEMMA ListsConcat ==
  ASSUME NEW s, IsList(s), NEW t, IsList(t)
  PROVE  IsList(s \o t) /\ Range(s \o t) = Range(s) \cup Range(t)
<1> DEFINE X == Range(s) \cup Range(t)
<1>1. s \in Seq(X)
  <2>1. s \in Seq(Range(s)) /\ Range(s) \subseteq X
    BY DEF IsList
  <2> HIDE DEF X
  <2> QED
    BY <2>1, SeqMonotonic
<1>2. t \in Seq(X)
  <2>1. t \in Seq(Range(t)) /\ Range(t) \subseteq X
    BY DEF IsList
  <2> HIDE DEF X
  <2> QED
    BY <2>1, SeqMonotonic
<1> HIDE DEF X
<1>3. s \o t \in Seq(X)
  BY <1>1, <1>2, ConcatProperties
<1>4. Range(s \o t) = Range(s) \cup Range(t)
  BY <1>1, <1>2, RangeConcatenation
<1> QED
  BY <1>3, <1>4, SeqIsList

\* A sequence of one.
LEMMA OneIsSeq ==
  ASSUME NEW x
  PROVE  <<x>> \in Seq({x}) /\ Len(<<x>>) = 1 /\ Range(<<x>>) = {x} /\ IsList(<<x>>)
<1>1. <<x>> \in Seq({x}) /\ Len(<<x>>) = 1
  OBVIOUS
<1>2. Range(<<x>>) = {<<x>>[i] : i \in 1..1}
  BY <1>1, RangeEquality
<1>3. Range(<<x>>) = {x}
  BY <1>2
<1> QED
  BY <1>1, <1>3, SeqIsList

\* Whatever is at one of the positions is kept.
LEMMA ElementsContain ==
  ASSUME NEW X, NEW s \in Seq(X), NEW positions, NEW i \in (1..Len(s)) \cap positions
  PROVE  /\ s[i] \in Range(ElementsAt(s, positions))
         /\ ElementsAt(s, positions) # <<>>
<1> DEFINE Q == {r \in Seq(X) : \A k \in 1..Len(r) :
                                  k \in positions => r[k] \in Range(ElementsAt(r, positions))}
<1>1. <<>> \in Q
  OBVIOUS
<1>2. ASSUME NEW r \in Seq(X), NEW x \in X, r \in Q PROVE Append(r, x) \in Q
  <2> DEFINE t == Append(r, x)
             e == ElementsAt(r, positions)
             u == ElementsAt(t, positions)
  <2>1. /\ t \in Seq(X) /\ Len(t) = Len(r) + 1 /\ Len(r) \in Nat
        /\ \A k \in 1..Len(r) : t[k] = r[k]
        /\ t[Len(r) + 1] = x
    BY AppendProperties, LenProperties
  <2>2. e \in Seq(X)
    BY ElementsIsSeq
  <2>3. u = IF Len(r) + 1 \in positions THEN Append(e, x) ELSE e
    BY ElementsAppend
  <2> HIDE DEF t, e, u
  <2>4. Range(Append(e, x)) = Range(e) \cup {x}
    <3>1. IsList(e) /\ IsList(<<x>>) /\ Range(<<x>>) = {x}
      BY <2>2, SeqIsList, OneIsSeq
    <3>2. Range(e \o <<x>>) = Range(e) \cup {x}
      BY <3>1, ListsConcat
    <3> QED
      BY <2>2, <3>2, AppendIsConcat
  <2>5. Range(e) \subseteq Range(u) /\ (Len(r) + 1 \in positions => x \in Range(u))
    BY <2>3, <2>4
  <2>6. ASSUME NEW k \in 1..Len(t), k \in positions PROVE t[k] \in Range(u)
    <3>1. CASE k \in 1..Len(r)
      <4>1. r[k] \in Range(e)
        BY <1>2, <2>6, <3>1 DEF e
      <4> QED
        BY <2>1, <2>5, <3>1, <4>1
    <3>2. CASE k = Len(r) + 1
      BY <2>1, <2>5, <2>6, <3>2
    <3> QED
      BY <2>1, <3>1, <3>2
  <2> QED
    BY <2>1, <2>6 DEF t, u
<1> HIDE DEF Q
<1>3. s \in Q
  BY <1>1, <1>2, SeqInduction
<1>4. s[i] \in Range(ElementsAt(s, positions))
  BY <1>3 DEF Q
<1>5. Range(<<>>) = {}
  BY DEF Range
<1> QED
  BY <1>4, <1>5
=============================================================================
