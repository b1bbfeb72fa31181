------------------------------- MODULE Picking -------------------------------
(***************************************************************************)
(* The loops of the code that go over a slice and keep some of what they   *)
(* see: `for ... { if cond { out = append(out, x) } }`.  What is kept is   *)
(* named by its positions, so that a condition may look at what came       *)
(* before.                                                                 *)
(***************************************************************************)
EXTENDS Integers, Sequences, FiniteSets

\* The elements of a sequence at some of its positions, in their order.
Picked(s, at) ==
  [k \in 1..Cardinality(at) |-> s[CHOOSE i \in at : Cardinality({j \in at : j <= i}) = k]]
=============================================================================
