----------------------------- MODULE MCIndexRun -----------------------------
(***************************************************************************)
(* Instances of IndexRun: the function-valued constants.                   *)
(***************************************************************************)
EXTENDS IndexRun

\* The first path is alone in its directory, the others share one.
MCDirOf == [f \in 1..NumFiles |-> IF f = 1 THEN "cmd" ELSE "internal"]
MCDirs == {"cmd", "internal"}
=============================================================================
