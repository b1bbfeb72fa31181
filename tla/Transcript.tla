----------------------------- MODULE Transcript -----------------------------
(***************************************************************************)
(* What one review conversation promises, whatever the compression does.   *)
(*                                                                         *)
(* The messages of a conversation are numbered 1, 2, 3, ... in the order   *)
(* they are written.  The model that reads the conversation sees some of   *)
(* them through a digest (the <previous_review_summary> blocks appended to *)
(* the user prompt) and the others word for word.  A conversation may only *)
(* grow at its end, and a compression may only move the oldest verbatim    *)
(* messages into the digest.                                               *)
(***************************************************************************)
EXTENDS Integers, Sequences

CONSTANT MaxBatch    \* most messages one step writes

VARIABLES written,   \* how many messages the conversation has had so far
          digested,  \* the messages a summary stands for
          verbatim   \* the messages still sent word for word, oldest first

tvars == <<written, digested, verbatim>>

TInit ==
  /\ written = 0
  /\ digested = {}
  /\ verbatim = << >>

Write(n) ==
  /\ written' = written + n
  /\ verbatim' = verbatim \o [i \in 1..n |-> written + i]
  /\ UNCHANGED digested

Digest(e) ==
  /\ digested' = digested \cup {verbatim[i] : i \in 1..e}
  /\ verbatim' = SubSeq(verbatim, e + 1, Len(verbatim))
  /\ UNCHANGED written

TNext ==
  \/ \E n \in 1..MaxBatch : Write(n)
  \/ \E e \in 1..Len(verbatim) : Digest(e)

TSpec == TInit /\ [][TNext]_tvars

\* How much of the conversation the digest covers.
Cut == written - Len(verbatim)

\* Every message the conversation ever had is either digested or verbatim,
\* never both and never neither; the digest covers a prefix of the
\* conversation and the verbatim part is the rest, in the order written.
NothingLost ==
  /\ Cut >= 0
  /\ digested = 1..Cut
  /\ \A i \in 1..Len(verbatim) : verbatim[i] = Cut + i
=============================================================================
