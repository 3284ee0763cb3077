------------------------------ MODULE Sublists ------------------------------
(***************************************************************************)
(* What a filter keeps of a list.  It is written with FlattenSeq, which    *)
(* has a definition that proofs can unfold; SelectSeq is built in.         *)
(***************************************************************************)
EXTENDS Integers, SequencesExt

IsList(s) == s \in Seq(Range(s))

\* The elements of a sequence at some positions, in their order.
ElementsAt(s, positions) ==
  FlattenSeq([i \in DOMAIN s |-> IF i \in positions THEN <<s[i]>> ELSE <<>>])
=============================================================================
