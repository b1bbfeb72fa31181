------------------------------ MODULE PrReview ------------------------------
(***************************************************************************)
(* Successive reviews of one pull request: `sacr review --format github`   *)
(* from the moment the findings of a run are known (cmd/sacr/review_cmd.go *)
(* step 11) to its exit code.                                              *)
(*                                                                         *)
(* A run reconciles its fresh comments with the findings file of the pull  *)
(* request (cmd/sacr/carryover.go, internal/findings), saves the result,   *)
(* deletes every review comment sacr left on the pull request and posts    *)
(* its own in batches (cmd/sacr/emit.go, internal/gh).  The findings file  *)
(* and the comments on GitHub are the only state that outlives a run, they *)
(* are written one after the other, and every call may fail, be repeated   *)
(* by the HTTP retry transport or be the last one of a killed process.     *)
(***************************************************************************)
EXTENDS Picking, SequencesExt

CONSTANTS
  RunCount,       \* runs are 1..RunCount, in the order they start
  Comments,       \* what a review may report
  Paths,          \* the reviewable files of the pull request
  MayStop,        \* files whose conversation may end before task_done
  Overlapping,    \* a run may start while an earlier one is active
  StoreSurvives,  \* the findings file outlives the runner
  ReviewBatch,    \* reviewBatchSize
  MaxFresh,       \* bound: comments one review reports
  MaxOutdated,    \* bound: outdated comments in one listing
  MaxFaults,      \* bound: failed, repeated or interrupted calls
  NoText          \* the content of a placeholder comment

ASSUME BoundsAssumption ==
  /\ RunCount \in Nat \ {0} /\ ReviewBatch \in Nat \ {0}
  /\ MaxFresh \in Nat /\ MaxOutdated \in Nat /\ MaxFaults \in Nat
ASSUME SwitchAssumption == Overlapping \in BOOLEAN /\ StoreSurvives \in BOOLEAN
ASSUME PathsAssumption == MayStop \subseteq Paths
\* Before takes the wording of the older comments from Comments; filterResolved
\* has dropped what was reported without a line.
ASSUME CommentsAssumption ==
  /\ Comments # {}
  /\ \A c \in Comments : c.scanner \in BOOLEAN /\ c.line \in Nat \ {0}

VARIABLES
  stage,    \* where each run is
  touched,  \* changedPathsFromDiffs(kept)
  cut,      \* the touched files whose conversation stopped early
  report,   \* the findings of the run: fresh, then reconciled
  listed,   \* the review comments listed for the carry-over
  batch,    \* the comments to post
  doomed,   \* listed comments still to be deleted
  posted,   \* comments of the batch submitted so far
  exit,     \* how the run ended
  store,    \* the findings file
  saved,    \* the runs that wrote the findings file
  surface,  \* the review comments on the pull request
  faults,   \* calls that went wrong so far
  clean     \* no call of this run went wrong

vars == <<stage, touched, cut, report, listed, batch, doomed, posted, exit,
          store, saved, surface, faults, clean>>
input == <<touched, cut>>
output == <<batch, doomed, posted, exit>>
file == <<store, saved>>

Runs == 1..RunCount
Ended == {"done", "failed", "crashed"}
Active(r) == stage[r] \notin Ended \cup {"idle"}

\* A comment stands for its path, its line range, what else its fingerprint
\* sees of it (category and normalised code) and its wording.
Fingerprint(c) == <<c.path, c.line, c.code>>
Finding(c) == [fp |-> Fingerprint(c), comment |-> c]
Fingerprints(findings) == {f.fp : f \in ToSet(findings)}

\* A comment on the pull request: by a person ("human"), by sacr with its
\* fingerprint marker ("marked"), or by a release that wrote none ("legacy").
OnPR(id, mark, c) ==
  [id |-> id, mark |-> mark, fp |-> Fingerprint(c),
   path |-> c.path, line |-> c.line, text |-> c.text]
Before ==
  {OnPR(<<0, 1, 1>>, "human", CHOOSE c \in Comments : TRUE),
   OnPR(<<0, 2, 1>>, "legacy", CHOOSE c \in Comments : TRUE)}
Ours(items) == {i \in items : i.mark # "human"}
Marked(items) == {i \in items : i.mark = "marked"}

TypeOK ==
  /\ stage \in [Runs -> Ended \cup {"idle", "reviewed", "listed", "loaded",
                                    "emitting", "posting"}]
  /\ \A r \in Runs : cut[r] \subseteq touched[r] /\ touched[r] \subseteq Paths
  /\ \A r \in Runs : doomed[r] \subseteq Ours(doomed[r]) /\ posted[r] \in 0..Len(batch[r])
  /\ exit \in [Runs -> {"none", "clean", "blocked", "error"}]
  /\ saved \subseteq Runs
  /\ faults \in 0..MaxFaults
  /\ clean \in [Runs -> BOOLEAN]

-----------------------------------------------------------------------------
(* Pure parts *)

\* Reconcile: all fresh findings, then the previous ones that were not found
\* again and whose file this run did not touch.
Reconcile(previous, fresh, paths) ==
  fresh \o Picked(previous, {i \in DOMAIN previous :
                              /\ previous[i].fp \notin Fingerprints(fresh)
                              /\ previous[i].comment.path \notin paths})

\* ListReviewComments: GitHub gives no line for a comment whose line has left
\* the diff (an outdated one), which GetLine reads as 0.
Listing(outdated) ==
  {IF i \in outdated THEN [i EXCEPT !.line = 0] ELSE i : i \in surface}

\* findingsFromPRComments: start and end are the line that was listed.
Placeholder(i) == [path |-> i.path, line |-> i.line, code |-> NoText,
                   text |-> NoText, scanner |-> FALSE, critical |-> FALSE]
Recovered(items) ==
  LET found == SetToSeq(Marked(items))
  IN [k \in DOMAIN found |-> [fp |-> found[k].fp, comment |-> Placeholder(found[k])]]

\* dedupeCommentsByLocation: the first comment of a location wins.
Location(f) == <<f.comment.path, f.comment.line, f.comment.scanner>>
Deduped(findings) ==
  Picked(findings, {i \in DOMAIN findings :
                      \A j \in 1..(i - 1) : Location(findings[j]) # Location(findings[i])})

\* It compacts in place, in the array its caller goes on reading.
AfterEmit(findings) ==
  LET out == Deduped(findings) IN
    out \o SubSeq(findings, Len(out) + 1, Len(findings))

\* What emitGithub posts: scanner findings go to SARIF, and what has no line
\* is skipped.
Inlined(f) == ~f.comment.scanner /\ f.comment.line # 0
Inline(findings) ==
  LET out == Deduped(findings) IN Picked(out, {i \in DOMAIN out : Inlined(out[i])})

HasCritical(findings) == \E f \in ToSet(findings) : f.comment.critical
ExitOf(findings) == IF HasCritical(AfterEmit(findings)) THEN "blocked" ELSE "clean"

\* The marker holds the fingerprint recomputed from the comment.
Item(r, i, copy) == OnPR(<<r, i, copy>>, "marked", batch[r][i].comment)
Items(r, from, to, copies) == {Item(r, i, k) : i \in from..to, k \in 1..copies}

-----------------------------------------------------------------------------
(* Steps and faults *)

Go(r, from, to) == stage[r] = from /\ stage' = [stage EXCEPT ![r] = to]
Exit(r, how) == exit' = [exit EXCEPT ![r] = how]
Sound == UNCHANGED <<faults, clean>>
Fault(r) ==
  /\ faults < MaxFaults
  /\ faults' = faults + 1
  /\ clean' = [clean EXCEPT ![r] = FALSE]

-----------------------------------------------------------------------------
(* One run *)

Init ==
  /\ stage = [r \in Runs |-> "idle"]
  /\ touched = [r \in Runs |-> {}] /\ cut = touched
  /\ report = [r \in Runs |-> << >>] /\ batch = report
  /\ listed = [r \in Runs |-> {}] /\ doomed = listed
  /\ posted = [r \in Runs |-> 0]
  /\ exit = [r \in Runs |-> "none"]
  /\ store = << >> /\ saved = {}
  /\ surface = Before
  /\ faults = 0
  /\ clean = [r \in Runs |-> TRUE]

\* A new commit starts a run; a new runner may come without a findings file.
Begin(r) ==
  /\ r > 1 => IF Overlapping THEN stage[r - 1] # "idle" ELSE stage[r - 1] \in Ended
  /\ IF StoreSurvives THEN UNCHANGED file ELSE store' = << >> /\ saved' = {}
  /\ UNCHANGED <<listed, batch, doomed, posted, surface>>

\* The review loop over the kept files.  What it reports lies in them; a
\* conversation that stops early counts like one that ran to its end.
Review(r) ==
  /\ Go(r, "idle", "reviewed") /\ Begin(r)
  /\ \E paths \in (SUBSET Paths) \ {{}} :
       /\ touched' = [touched EXCEPT ![r] = paths]
       /\ \E stopped \in SUBSET (paths \cap MayStop) : cut' = [cut EXCEPT ![r] = stopped]
       /\ \E n \in 0..MaxFresh :
            \E fresh \in [1..n -> {c \in Comments : c.path \in paths}] :
              report' = [report EXCEPT ![r] = [k \in 1..n |-> Finding(fresh[k])]]
  /\ UNCHANGED exit /\ Sound

\* A conversation returned an error: the run ends there.
ReviewFails(r) ==
  /\ Go(r, "idle", "failed") /\ Begin(r)
  /\ Exit(r, "error") /\ Fault(r)
  /\ UNCHANGED <<input, report>>

\* emitNoReviewableChanges leaves the review comments alone.
NothingToReview(r) ==
  /\ Go(r, "idle", "done") /\ Begin(r)
  /\ Exit(r, "clean") /\ Sound
  /\ UNCHANGED <<input, report>>

\* Which comments are outdated is up to the commits pushed since.
ListForCarryover(r) ==
  /\ Go(r, "reviewed", "listed")
  /\ \/ /\ \E outdated \in {s \in SUBSET Marked(surface) : Cardinality(s) <= MaxOutdated} :
             listed' = [listed EXCEPT ![r] = Listing(outdated)]
        /\ Sound
     \/ UNCHANGED listed /\ Fault(r)
  /\ UNCHANGED <<input, report, output, file, surface>>

\* Mutant of Previous: without a findings file nothing is known.
Previous_NoRecovery(r) == store

\* An empty findings file is treated like a missing one.
Previous(r) == IF store = << >> THEN Recovered(listed[r]) ELSE store

\* Mutant of LoadFindings: after an unreadable file the run still saves.
LoadFindings_SavesAnyway(r) ==
  /\ Go(r, "listed", "loaded")
  /\ \/ report' = [report EXCEPT ![r] = Reconcile(Previous(r), @, touched[r])] /\ Sound
     \/ UNCHANGED report /\ Fault(r)
  /\ UNCHANGED <<input, listed, output, file, surface>>

\* runCarryover up to Reconcile; an unreadable file skips the carry-over.
LoadFindings(r) ==
  /\ \/ /\ Go(r, "listed", "loaded") /\ Sound
        /\ report' = [report EXCEPT ![r] = Reconcile(Previous(r), @, touched[r])]
     \/ Go(r, "listed", "emitting") /\ UNCHANGED report /\ Fault(r)
  /\ UNCHANGED <<input, listed, output, file, surface>>

\* Mutant of SaveFindings: the file grows by the stream instead of becoming it.
SaveFindings_Appends(r) ==
  /\ Go(r, "loaded", "emitting")
  /\ \/ store' = store \o report[r] /\ saved' = saved \cup {r} /\ Sound
     \/ UNCHANGED file /\ Fault(r)
  /\ UNCHANGED <<input, report, listed, output, surface>>

SaveFindings(r) ==
  /\ Go(r, "loaded", "emitting")
  /\ \/ store' = report[r] /\ saved' = saved \cup {r} /\ Sound
     \/ UNCHANGED file /\ Fault(r)
  /\ UNCHANGED <<input, report, listed, output, surface>>

\* Mutant of StartEmit: only comments whose fingerprint is stale are deleted.
StartEmit_KeepsSame(r) ==
  /\ Go(r, "emitting", "posting")
  /\ batch' = [batch EXCEPT ![r] = Inline(report[r])]
  /\ \/ /\ doomed' = [doomed EXCEPT ![r] =
             {i \in Ours(surface) : i.mark = "legacy" \/ i.fp \notin Fingerprints(batch'[r])}]
        /\ Sound
     \/ UNCHANGED doomed /\ Fault(r)
  /\ UNCHANGED <<input, report, listed, posted, exit, file, surface>>

\* Mutant of StartEmit: comments of people are deleted too.
StartEmit_TakesAll(r) ==
  /\ Go(r, "emitting", "posting")
  /\ batch' = [batch EXCEPT ![r] = Inline(report[r])]
  /\ \/ doomed' = [doomed EXCEPT ![r] = surface] /\ Sound
     \/ UNCHANGED doomed /\ Fault(r)
  /\ UNCHANGED <<input, report, listed, posted, exit, file, surface>>

\* The batch is built and every comment of sacr is listed for deletion.
StartEmit(r) ==
  /\ Go(r, "emitting", "posting")
  /\ batch' = [batch EXCEPT ![r] = Inline(report[r])]
  /\ \/ doomed' = [doomed EXCEPT ![r] = Ours(surface)] /\ Sound
     \/ UNCHANGED doomed /\ Fault(r)
  /\ UNCHANGED <<input, report, listed, posted, exit, file, surface>>

DeleteOne(r) ==
  /\ stage[r] = "posting"
  /\ \E i \in doomed[r] :
       /\ doomed' = [doomed EXCEPT ![r] = @ \ {i}]
       /\ \/ surface' = surface \ {i} /\ Sound
          \/ UNCHANGED surface /\ Fault(r)
  /\ UNCHANGED <<stage, input, report, listed, batch, posted, exit, file>>

ChunkEnd(r) == IF posted[r] + ReviewBatch > Len(batch[r]) THEN Len(batch[r])
               ELSE posted[r] + ReviewBatch

\* PostReview: accepted once; accepted, but the answer was lost and the retry
\* transport repeated it; or given up, with or without having taken effect.
PostChunk(r) ==
  /\ stage[r] = "posting" /\ doomed[r] = {} /\ posted[r] < Len(batch[r])
  /\ \/ /\ posted' = [posted EXCEPT ![r] = ChunkEnd(r)]
        /\ \/ surface' = surface \cup Items(r, posted[r] + 1, ChunkEnd(r), 1) /\ Sound
           \/ surface' = surface \cup Items(r, posted[r] + 1, ChunkEnd(r), 2) /\ Fault(r)
        /\ UNCHANGED <<stage, exit>>
     \/ /\ Go(r, "posting", "failed") /\ Exit(r, "error") /\ Fault(r)
        /\ surface' \in {surface, surface \cup Items(r, posted[r] + 1, ChunkEnd(r), 1)}
        /\ UNCHANGED posted
  /\ UNCHANGED <<input, report, listed, batch, doomed, file>>

Finish(r) ==
  /\ doomed[r] = {} /\ posted[r] = Len(batch[r])
  /\ Go(r, "posting", "done") /\ Exit(r, ExitOf(report[r])) /\ Sound
  /\ UNCHANGED <<input, report, listed, batch, doomed, posted, file, surface>>

\* The process is killed, or the context is cancelled.
Crash(r) ==
  /\ Active(r)
  /\ stage' = [stage EXCEPT ![r] = "crashed"] /\ Fault(r)
  /\ UNCHANGED <<input, report, listed, output, file, surface>>

Step(r) ==
  \/ Review(r) \/ ReviewFails(r) \/ NothingToReview(r)
  \/ ListForCarryover(r) \/ LoadFindings(r) \/ SaveFindings(r)
  \/ StartEmit(r) \/ DeleteOne(r) \/ PostChunk(r) \/ Finish(r) \/ Crash(r)

Next == \E r \in Runs : Step(r)

Spec == Init /\ [][Next]_vars

-----------------------------------------------------------------------------
(* Properties *)

Posted(r) == stage[r] = "done" /\ clean[r] /\ touched[r] # {}
Idle(r) == stage[r] = "idle"
UntouchedSince(q, r, path) == \A m \in (q + 1)..r : path \notin touched[m]

\* After a run whose own calls all succeeded, the comments of sacr on the pull
\* request are exactly that run's batch, each once, whatever earlier runs left
\* there: partial batches, repeated ones, comments of runs that were killed.
SoleSource ==
  \A r \in Runs :
    Posted(r) /\ (\A m \in Runs : m > r => Idle(m)) /\ (\A m \in Runs : ~Active(m)) =>
      Ours(surface) = Items(r, 1, Len(batch[r]), 1)

\* A finding some run wrote to the findings file is posted again, unchanged,
\* by every later faultless run as long as its file stays untouched, however
\* many runs failed in between and wherever they failed.
NothingForgotten ==
  \A r \in Runs : Posted(r) =>
    \A q \in saved : q < r =>
      \A f \in ToSet(Inline(report[q])) :
        UntouchedSince(q, r, f.comment.path) =>
          \E g \in ToSet(batch[r]) : g.comment = f.comment

\* What a faultless run found fixed stays off the pull request until its file
\* is touched again, even if later runs fail.
NoResurrection ==
  \A r \in Runs : \A q \in {q \in Runs : q < r /\ Posted(q)} :
    \A f \in ToSet(batch[r]) :
      UntouchedSince(q, r, f.comment.path) =>
        \E g \in ToSet(report[q]) : Location(g) = Location(f)

\* A run on a fresh runner, without any findings file, still leaves a comment
\* of sacr at every place of an untouched file where GitHub listed one with its
\* line.  One that has become outdated is lost: StaleWasResolved below.
PlaceKept ==
  \A r \in Runs : Posted(r) /\ (\A m \in Runs : m > r => Idle(m)) =>
    \A i \in Marked(listed[r]) :
      i.path \notin touched[r] /\ i.line # 0 =>
        \E j \in Marked(surface) : j.path = i.path /\ j.line = i.line

-----------------------------------------------------------------------------
(* Claims of comments and documents that the runs refute *)

\* cmd/sacr/emit.go:314-320: the fresh batch is the sole source of truth, so
\* no two comments of sacr share a place.
NoTwoCopies ==
  \A i, j \in Marked(surface) : i.path = j.path /\ i.line = j.line => i = j

\* internal/findings/types.go:22: a finding of an untouched file is carried
\* unchanged, so none is posted without its text.
CarriedUnchanged == \A i \in Marked(surface) : i.text # NoText

\* internal/findings/carryover.go:15: a finding of an untouched file is carried
\* forward; cmd/sacr/emit.go:301-303: what is deleted for good was resolved.
StaleWasResolved ==
  \A r \in Runs : Posted(r) /\ (\A m \in Runs : m > r => Idle(m)) =>
    \A i \in Marked(listed[r]) :
      i.path \notin touched[r] => \E j \in Marked(surface) : j.path = i.path

\* internal/findings/carryover.go:19-21: what was resolved does not come back.
ResolvedStaysGone ==
  \A r \in Runs : \A q \in {q \in saved : q < r} :
    \A f \in ToSet(batch[r]) :
      UntouchedSince(q, r, f.comment.path) =>
        \E g \in ToSet(report[q]) : Location(g) = Location(f)

\* internal/findings/carryover.go:19-21: a finding is dropped because it has
\* been fixed, so its file was reviewed to the end.
DroppedWasReviewed ==
  [][\A r \in Runs : stage[r] = "listed" /\ stage'[r] = "loaded" =>
       \A f \in ToSet(Previous(r)) :
         f.fp \notin Fingerprints(report'[r]) => f.comment.path \notin cut[r]]_vars

\* docs/ARCHITECTURE.md:104: the findings file is keyed by the fingerprint.
KeyedByFingerprint == Cardinality(Fingerprints(store)) = Len(store)

\* cmd/sacr/emit.go:623-624: the exit code is 3 when any comment is critical.
CriticalBlocks ==
  \A r \in Runs : Posted(r) => (exit[r] = "blocked" <=> HasCritical(report[r]))
=============================================================================
