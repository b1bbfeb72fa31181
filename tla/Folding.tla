------------------------------- MODULE Folding -------------------------------
(***************************************************************************)
(* A fold over a sequence from the left.  It is FoldLeft of SequencesExt,  *)
(* written over the prefixes of the sequence instead of the subsets of its *)
(* domain: diff texts are long.                                            *)
(***************************************************************************)
EXTENDS Integers, Sequences

Folded(op(_, _), start, s) ==
  LET upTo[i \in 0..Len(s)] == IF i = 0 THEN start ELSE op(upTo[i - 1], s[i])
  IN upTo[Len(s)]
=============================================================================
