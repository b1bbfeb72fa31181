---------------------------- MODULE MCReviewRun -----------------------------
(***************************************************************************)
(* A pull request of four paths for ReviewRun: one reviewed, one edited or *)
(* only renamed, one vendored and one the selector drops; two scanners.    *)
(***************************************************************************)
EXTENDS ReviewRun

CONSTANTS code, moved, vendor, doc, leaks, rules

Found(path, line, by, raw, sev) ==
  [path |-> path, line |-> line, by |-> by, raw |-> raw, sev |-> sev, suggestion |-> FALSE]

MCOrder == <<code, moved, vendor, doc>>
MCPushes == {[touched |-> {}, renamed |-> {}],
             [touched |-> {moved, doc}, renamed |-> {}],
             [touched |-> {code, moved, vendor}, renamed |-> {moved}]}
MCReports ==
  (leaks :> {{}, {Found(code, 0, leaks, 3, 4), Found(vendor, 1, leaks, 3, 4)}})
  @@ (rules :> {{}, {Found(code, 1, rules, 2, 2)}})
MCNotes == (code :> {{}, {Found(code, 2, "model", 2, 3), Found(code, 0, "model", 4, 4)}})
        @@ (moved :> {{}, {Found(moved, 1, "model", 3, 3)}}) @@ (vendor :> {{}})
MCProposals == {[type |-> "fix", risk |-> "risk/medium", domains |-> {"api"}],
                [type |-> "", risk |-> "", domains |-> {"api"}],
                [type |-> "docs", risk |-> "risk/none", domains |-> {"risk/low"}]}
MCSuggestions == [enabled |-> TRUE, blocking |-> FALSE]
=============================================================================
