---------------------------- MODULE MCPrReview ------------------------------
(***************************************************************************)
(* Small pull requests for PrReview: two files, a few comments that agree  *)
(* or differ in place, fingerprint, wording, source and severity.          *)
(***************************************************************************)
EXTENDS PrReview

CONSTANTS a, b, k1, k2, t1, t2

Note(path, code, text, scanner, critical) ==
  [path |-> path, line |-> 1, code |-> code, text |-> text,
   scanner |-> scanner, critical |-> critical]

bug == Note(a, k1, t1, FALSE, FALSE)
reworded == Note(a, k1, t2, FALSE, FALSE)
worse == Note(a, k2, t2, FALSE, TRUE)
other == Note(b, k1, t1, FALSE, FALSE)
leak == Note(a, k2, t1, TRUE, FALSE)

SmallSet == {bug, reworded, other}
WithScanner == {bug, leak, other}
WithSeverity == {bug, worse, other}
=============================================================================
