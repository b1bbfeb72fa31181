----------------------------- MODULE ReviewRun ------------------------------
(***************************************************************************)
(* The pipeline of `sacr review --format github` (cmd/sacr/review_cmd.go), *)
(* run after run on one pull request, and what it leaves on the pull       *)
(* request beside the review comments: one summary comment, the labels,    *)
(* a SARIF upload (cmd/sacr/description.go, emit.go, internal/gh).         *)
(*                                                                         *)
(* Some stages are fatal and some are best-effort: scanners, the two cheap *)
(* agents, the carry-over, the SARIF upload, the summary and the labels    *)
(* may fail and the run goes on.  The findings file, the summary comments  *)
(* and the labels outlive a run.  People write comments and set labels at  *)
(* any time.  The conversation about a file is AgentLoop, a model call is  *)
(* ModelCalls and the review comments are PrReview.                        *)
(***************************************************************************)
EXTENDS Picking, SequencesExt

CONSTANTS
  RunCount,       \* bound: runs are 1..RunCount
  Order,          \* the paths a change may touch, in the order of the diff
  Pushes,         \* bound: what a push may change, [touched, renamed]: a renamed
                  \* path is touched, and its content is what it was
  Source,         \* paths the selector keeps
  Vendored,       \* kept paths under vendor/ and the like
  Scanners,       \* the adapters
  Reports,        \* the reports each adapter may give, about the whole tree
  Notes,          \* the sets of comments the model may make on a path
  Proposals,      \* the labels the labeler may propose, [type, risk, domains]
  OtherRisk,      \* labels under risk/ that are no level
  MinSeverity,    \* --min-severity
  Suggestions,    \* .sacr/config.yaml: [enabled, blocking]
  UploadSarif,    \* SACR_UPLOAD_SARIF
  WaitSarif,      \* --wait-sarif
  UploadTimeout,  \* seconds an upload may take
  WaitTimeout,    \* seconds to wait for its processing
  Attempts,       \* retryMaxAttempts
  LongestDelay,   \* the cap of Retry-After, in seconds
  MaxFaults,      \* bound: calls that fail, are repeated or interrupted
  MaxEdits        \* bound: what people do to the pull request

ASSUME PipelineAssumption ==
  /\ RunCount \in Nat \ {0} /\ MinSeverity \in 1..4 /\ Attempts \in Nat \ {0}
  /\ \A p \in Pushes : p.renamed \subseteq p.touched /\ p.touched \subseteq ToSet(Order)
  /\ Source \subseteq ToSet(Order)
  /\ Suggestions \in [enabled : BOOLEAN, blocking : BOOLEAN]
  /\ Order \in Seq(ToSet(Order))

\* Severities are ranks: 0 SUPPRESS, 1 LOW, 2 MEDIUM, 3 HIGH, 4 CRITICAL.
\* A finding has a place, an origin, the label its producer gave it (raw) and
\* the severity the policy gives it (sev).
Findings(origins) ==
  [path : ToSet(Order), line : Int, by : origins, raw : 0..4, sev : 0..4, suggestion : BOOLEAN]

ASSUME FindingsAssumption ==
  /\ \A s \in Scanners : \A found \in Reports[s] :
       found \subseteq Findings({s}) /\ IsFiniteSet(found)
  /\ \A p \in Source : \A found \in Notes[p] :
       found \subseteq Findings({"model"}) /\ IsFiniteSet(found)
  /\ "model" \notin Scanners

VARIABLES
  run,       \* the current run, or the last one
  stage,     \* where it is
  change,    \* the paths of its diff
  renamed,   \* those that are pure renames
  adapter,   \* the scanner adapters
  cheap,     \* the cheap agents at work, and what the labeler proposed
  todo,      \* kept paths whose conversation is still to come
  reviewed,  \* paths whose conversation came to an end
  notes,     \* the comment collector
  reported,  \* what the adapters of this run said about its paths
  scored,    \* findings of this run that passed the scoring policy
  output,    \* the comments of the run after the carry-over
  known,     \* the findings file
  issue,     \* the conversation of the pull request
  labels,    \* the labels of the pull request
  doomed,    \* what is still to be removed from either
  attempt,   \* HTTP attempts of the call in progress
  clock,     \* seconds since the SARIF stage began its current wait
  exit,      \* exit code of the run, 0, 1 or 3; -1 while it runs
  faults, edits,
  sound      \* no later call of this run went wrong, and no person interfered

diff == <<change, renamed>>
scan == <<adapter, cheap, reported>>
loop == <<todo, reviewed, notes>>
found == <<scored, output, known>>
page == <<issue, labels, doomed>>
wire == <<attempt, clock>>
tally == <<faults, edits, sound>>
vars == <<run, stage, diff, scan, loop, found, page, wire, exit, tally>>

Risk == <<"risk/low", "risk/medium", "risk/high", "risk/critical">>
RiskLabels == ToSet(Risk) \cup OtherRisk
TypeLabels ==
  {"feat", "fix", "refactor", "docs", "test", "chore", "perf", "ci", "security"}
RankOf(tag) == IF \E k \in 1..4 : Risk[k] = tag THEN CHOOSE k \in 1..4 : Risk[k] = tag ELSE 0
Nothing == [type |-> "", risk |-> "", domains |-> {}]

\* A proposal is whatever JSON the labeler answered: nothing checks it against
\* the schema of its prompt.  Texts are taken trimmed and in lower case, as the
\* code compares them; the ownership hints count among the domains.
ASSUME ProposalsAssumption ==
  /\ \A l \in Proposals : l = [type |-> l.type, risk |-> l.risk, domains |-> l.domains]
  /\ OtherRisk \cap (ToSet(Risk) \cup {""}) = {}

FromScanner(f) == f.by \in Scanners
Place(f) == <<f.path, f.line, FromScanner(f)>>
Summaries == {i \in issue : i.marked}
Own(r) == {i \in issue : i.by = r}

-----------------------------------------------------------------------------
(* Pure parts *)

\* scannerFindingToComment: a finding without a line goes to line 1.
Lifted(f) == [f EXCEPT !.line = IF @ < 1 THEN 1 ELSE @]

\* filterScannerFindingsToPaths
InScope(findings) == {f \in findings : f.path \in change \cap Source /\ f.path \notin Vendored}

\* filterResolved, then filterByScore.
Survives(f) == f.line # 0 /\ f.sev # 0 /\ f.sev >= MinSeverity

\* The findings file keeps what was not found again in paths left alone.
Carried ==
  Picked(known, {i \in DOMAIN known : /\ known[i].path \notin change \cap Source
                                      /\ \A g \in ToSet(output) : Place(g) # Place(known[i])})

\* dedupeCommentsByLocation: the first comment of a place wins.
Deduped(findings) ==
  Picked(findings, {i \in DOMAIN findings :
                      \A j \in 1..(i - 1) : Place(findings[j]) # Place(findings[i])})

\* The caller's array after the in-place deduplication.
AfterEmit(findings) ==
  LET out == Deduped(findings) IN out \o SubSeq(findings, Len(out) + 1, Len(findings))

\* exitCodeForComments: a finding of this run blocks by its score, a carried
\* one by its raw label; suggestions do not block unless configured to.
Blocks(f) == /\ IF f \in scored THEN f.sev = 4 ELSE f.raw = 4
             /\ f.suggestion => Suggestions.enabled /\ Suggestions.blocking
ExitCode == IF \E f \in ToSet(AfterEmit(output)) : Blocks(f) THEN 3 ELSE 0

\* scoreCountsFromMap and the scanner comments that emitGithub collects.
ScannerRows == {f \in ToSet(Deduped(output)) : FromScanner(f)}

\* Mutant of Evidence: only the scores count.
Evidence_ScoresOnly ==
  IF \E f \in scored : f.sev = 4 THEN 4 ELSE IF \E f \in scored : f.sev = 3 THEN 3 ELSE 0

\* escalateRiskFromFindings: the scores and the raw labels of the scanners.
Evidence ==
  IF \/ \E f \in scored : f.sev = 4
     \/ \E f \in ScannerRows : f.raw = 4 THEN 4
  ELSE IF \/ \E f \in scored : f.sev = 3
          \/ \E f \in ScannerRows : f.raw = 3 THEN 3
  ELSE 0
Escalated(l) == IF Evidence > RankOf(l.risk) THEN [l EXCEPT !.risk = Risk[Evidence]] ELSE l

LabelSet(l) == ({l.type, l.risk} \cup l.domains) \ {""}

\* staleExclusiveLabels: a type goes only when the run brings one.
StaleExclusive(fresh) ==
  {e \in labels \ fresh : \/ e \in RiskLabels
                          \/ e \in TypeLabels /\ fresh \cap TypeLabels # {}}

\* labelForNonReviewablePaths, or what the labeler said, escalated.
Stub == change \cap Source = {}
Fresh == IF Stub THEN {IF change = {} THEN "chore" ELSE "docs", "risk/low"}
         ELSE LabelSet(Escalated(cheap.labels))

\* RenderSummary: the verdict counts the scores, the table lists the scanners.
Body(r, copy) == [by |-> r, copy |-> copy, marked |-> TRUE,
                  verdict |-> \E f \in scored : f.sev = 4, rows |-> ScannerRows]

\* A person's comment; one that quotes a summary holds the marker too.
Human(copy, quotes) == [by |-> 0, copy |-> copy, marked |-> quotes,
                        verdict |-> FALSE, rows |-> {}]

-----------------------------------------------------------------------------
(* Steps and faults *)

Go(from, to) == stage = from /\ stage' = to
Fault == faults < MaxFaults /\ faults' = faults + 1 /\ UNCHANGED edits
Calm == UNCHANGED tally
Harm == Fault /\ sound' = FALSE
Kept == Picked(Order, {i \in DOMAIN Order : Order[i] \in change \cap Source})

\* The run is over: runReview returns, main picks the exit code.
End(code) == stage' = "idle" /\ exit' = code

-----------------------------------------------------------------------------
(* One run *)

Init ==
  /\ run = 0 /\ stage = "idle" /\ change = {} /\ renamed = {}
  /\ adapter = [s \in Scanners |-> "idle"]
  /\ cheap = [labels |-> Nothing, left |-> {}]
  /\ todo = << >> /\ reviewed = {} /\ notes = << >> /\ reported = {}
  /\ scored = {} /\ output = << >> /\ known = << >>
  /\ issue = {Human(1, FALSE)}
  /\ labels = {"needs-design"}
  /\ doomed = {} /\ attempt = 0 /\ clock = 0
  /\ exit = 0 /\ faults = 0 /\ edits = 0 /\ sound = TRUE

\* A push.  An empty diff, or one without a kept file, gets a stub comment.
Begin ==
  /\ stage = "idle" /\ run < RunCount
  /\ run' = run + 1 /\ exit' = -1
  /\ \E p \in Pushes : change' = p.touched /\ renamed' = p.renamed
  /\ stage' = IF change' \cap Source = {} THEN "clean" ELSE "setup"
  /\ adapter' = [s \in Scanners |-> "idle"]
  /\ cheap' = [labels |-> Nothing, left |-> {"summarizer", "labeler"}]
  /\ todo' = << >> /\ reviewed' = {} /\ notes' = << >> /\ reported' = {}
  /\ scored' = {} /\ output' = << >> /\ doomed' = {}
  /\ attempt' = 0 /\ clock' = 0 /\ sound' = TRUE
  /\ UNCHANGED <<known, issue, labels, faults, edits>>

\* Policy, diff, selection and model tiers: any failure is fatal.
\* Configuration, index, rules, conventions and context are best-effort and
\* change nothing that is modelled here.
Setup ==
  /\ \/ Go("setup", "scan") /\ Calm /\ UNCHANGED exit
     \/ stage = "setup" /\ End(1) /\ Fault /\ UNCHANGED sound
  /\ UNCHANGED <<run, diff, scan, loop, found, page, wire>>

Collect(findings) ==
  notes' = notes \o SetToSeq(findings) /\ reported' = reported \cup findings

\* Mutant of Adapter: an adapter that fails ends the group and its findings.
Adapter_FailsTheGroup(s) ==
  /\ stage = "scan"
  /\ \/ /\ adapter[s] \in {"idle", "again"} /\ Calm
        /\ adapter' = [adapter EXCEPT ![s] = "done"]
        /\ \E findings \in Reports[s] :
             Collect({Lifted(f) : f \in InScope(findings)})
     \/ /\ adapter[s] = "idle" /\ Fault /\ UNCHANGED <<notes, reported, sound>>
        /\ adapter' = [adapter EXCEPT ![s] = "again"]
     \/ /\ adapter[s] = "again" /\ Calm /\ notes' = << >> /\ UNCHANGED reported
        /\ adapter' = [adapter EXCEPT ![s] = "failed"]
     \/ /\ adapter[s] = "idle" /\ Calm /\ UNCHANGED <<notes, reported>>
        /\ adapter' = [adapter EXCEPT ![s] = "missing"]
  /\ UNCHANGED <<run, stage, diff, cheap, todo, reviewed, found, page, wire, exit>>

\* One adapter: its tool runs at most twice; what fails, is disabled or not
\* installed reports nothing, and the others are not disturbed.
Adapter(s) ==
  /\ stage = "scan"
  /\ \/ /\ adapter[s] \in {"idle", "again"} /\ Calm
        /\ adapter' = [adapter EXCEPT ![s] = "done"]
        /\ \E findings \in Reports[s] :
             Collect({Lifted(f) : f \in InScope(findings)})
     \/ /\ adapter[s] = "idle" /\ Fault /\ UNCHANGED <<notes, reported, sound>>
        /\ adapter' = [adapter EXCEPT ![s] = "again"]
     \/ /\ adapter[s] = "again" /\ Calm /\ UNCHANGED <<notes, reported>>
        /\ adapter' = [adapter EXCEPT ![s] = "failed"]
     \/ /\ adapter[s] = "idle" /\ Calm /\ UNCHANGED <<notes, reported>>
        /\ adapter' = [adapter EXCEPT ![s] = "missing"]
  /\ UNCHANGED <<run, stage, diff, cheap, todo, reviewed, found, page, wire, exit>>

\* Run returns when every adapter has; then both cheap agents start.
Scanned ==
  /\ Go("scan", "describe")
  /\ \A s \in Scanners : adapter[s] \in {"done", "failed", "missing"}
  /\ Calm
  /\ UNCHANGED <<run, diff, scan, loop, found, page, wire, exit>>

\* A call that fails or an answer without a JSON object leaves a zero value.
CheapAgent(a) ==
  /\ stage = "describe" /\ a \in cheap.left
  /\ \/ /\ Calm
        /\ \/ a = "summarizer" /\ cheap' = [cheap EXCEPT !.left = @ \ {a}]
           \/ a = "labeler" /\ \E l \in Proposals :
                cheap' = [cheap EXCEPT !.left = @ \ {a}, !.labels = l]
     \/ Fault /\ UNCHANGED sound /\ cheap' = [cheap EXCEPT !.left = @ \ {a}]
  /\ UNCHANGED <<run, stage, diff, adapter, reported, loop, found, page, wire, exit>>

\* g.Wait; then session, prompts and tools, a failure of which is fatal.
Unprepared ==
  /\ stage = "describe" /\ cheap.left = {} /\ End(1) /\ Fault /\ UNCHANGED sound
  /\ UNCHANGED <<run, diff, scan, loop, found, page, wire>>

\* The loop over the kept files skips the pure renames.
Described ==
  /\ Go("describe", "review") /\ cheap.left = {}
  /\ todo' = Picked(Kept, {i \in DOMAIN Kept : Kept[i] \notin renamed})
  /\ Calm
  /\ UNCHANGED <<run, diff, scan, reviewed, notes, found, page, wire, exit>>

\* Mutant of Converse: a conversation that fails is skipped.
Converse_SkipsFailed ==
  /\ stage = "review" /\ todo # << >>
  /\ todo' = Tail(todo)
  /\ \/ /\ \E c \in Notes[Head(todo)] : notes' = notes \o SetToSeq(c)
        /\ reviewed' = reviewed \cup {Head(todo)}
        /\ Calm
     \/ Fault /\ UNCHANGED <<notes, reviewed, sound>>
  /\ UNCHANGED <<run, stage, diff, scan, found, page, wire, exit>>

\* RunMainTask; its error ends the run, and nothing is posted or saved.
Converse ==
  /\ stage = "review" /\ todo # << >>
  /\ \/ /\ \E c \in Notes[Head(todo)] : notes' = notes \o SetToSeq(c)
        /\ todo' = Tail(todo) /\ reviewed' = reviewed \cup {Head(todo)}
        /\ Calm /\ UNCHANGED <<stage, exit>>
     \/ End(1) /\ Fault /\ UNCHANGED <<loop, sound>>
  /\ UNCHANGED <<run, diff, scan, found, page, wire>>

\* CollectPendingComments, filterResolved, filterByScore.
Score ==
  /\ Go("review", "carry") /\ todo = << >>
  /\ output' = Picked(notes, {i \in DOMAIN notes : Survives(notes[i])})
  /\ scored' = ToSet(output')
  /\ Calm
  /\ UNCHANGED <<run, diff, scan, loop, known, page, wire, exit>>

\* runCarryover: skipped when the findings file cannot be read; a file that
\* cannot be written keeps what it had.
CarryOver ==
  /\ Go("carry", "post")
  /\ \/ output' = output \o Carried /\ known' = output' /\ Calm
     \/ output' = output \o Carried /\ UNCHANGED known /\ Harm
     \/ UNCHANGED <<output, known>> /\ Harm
  /\ UNCHANGED <<run, diff, scan, loop, scored, page, wire, exit>>

\* The review comments (PrReview): a batch that is not accepted is fatal.
PostComments ==
  /\ \/ /\ Calm /\ UNCHANGED exit /\ attempt' = 0 /\ clock' = 0
        /\ Go("post", IF UploadSarif /\ ScannerRows # {} THEN "upload" ELSE "clean")
     \/ stage = "post" /\ End(1) /\ Harm /\ UNCHANGED wire
  /\ UNCHANGED <<run, diff, scan, loop, found, page>>

\* UploadSARIF through the retry transport: an attempt is answered, or it
\* fails and the transport waits for what the server asks, up to its cap.
\* The context of the call ends the wait and the call.
Upload ==
  /\ stage = "upload"
  /\ \/ /\ attempt' = 0 /\ clock' = 0 /\ Calm
        /\ stage' = IF WaitSarif THEN "poll" ELSE "clean"
     \/ /\ attempt' = attempt + 1 /\ (IF attempt = 0 THEN Harm ELSE Calm)
        /\ \E delay \in {0, LongestDelay} :
             IF attempt' = Attempts \/ clock + delay >= UploadTimeout
             THEN clock' = 0 /\ stage' = "clean"
             ELSE clock' = clock + delay /\ UNCHANGED stage
  /\ UNCHANGED <<run, diff, scan, loop, found, page, exit>>

\* Mutant of Poll: the wait has no deadline.
Poll_NoDeadline ==
  /\ stage = "poll"
  /\ \/ clock' = 0 /\ stage' = "clean" /\ Calm
     \/ clock' = 0 /\ stage' = "clean" /\ Harm
     \/ clock' = (clock + 2) % (WaitTimeout + 2) /\ UNCHANGED stage /\ Calm
  /\ UNCHANGED <<run, diff, scan, loop, found, page, attempt, exit>>

\* WaitSARIF: every two seconds, until complete, failed or out of time.
Poll ==
  /\ stage = "poll"
  /\ \/ clock' = 0 /\ stage' = "clean" /\ Calm
     \/ clock' = 0 /\ stage' = "clean" /\ Harm
     \/ clock < WaitTimeout /\ clock' = clock + 2 /\ UNCHANGED stage /\ Calm
     \/ clock >= WaitTimeout /\ clock' = 0 /\ stage' = "clean" /\ Calm
  /\ UNCHANGED <<run, diff, scan, loop, found, page, attempt, exit>>

\* PostSummaryReview and emitNoReviewableChanges: list, delete, post.
ListIssue ==
  /\ Go("clean", "say")
  /\ \/ doomed' = Summaries /\ Calm
     \/ doomed' = {} /\ Harm
  /\ UNCHANGED <<run, diff, scan, loop, found, issue, labels, wire, exit>>

DeleteIssue ==
  /\ stage = "say"
  /\ \E i \in doomed :
       /\ doomed' = doomed \ {i}
       /\ \/ issue' = issue \ {i} /\ Calm
          \/ UNCHANGED issue /\ Harm
  /\ UNCHANGED <<run, stage, diff, scan, loop, found, labels, wire, exit>>

\* Accepted once; accepted, but the answer was lost and the transport repeated
\* it; or given up.  Without its comment a stub run sets no labels.
PostIssue ==
  /\ stage = "say" /\ doomed = {}
  /\ \/ /\ issue' = issue \cup {Body(run, 1)} /\ stage' = "label"
        /\ Calm /\ UNCHANGED exit
     \/ /\ issue' = issue \cup {Body(run, 1), Body(run, 2)} /\ stage' = "label"
        /\ Harm /\ UNCHANGED exit
     \/ /\ issue' \in {issue, issue \cup {Body(run, 1)}} /\ Harm
        /\ IF Stub THEN End(0) ELSE stage' = "label" /\ UNCHANGED exit
  /\ UNCHANGED <<run, diff, scan, loop, found, labels, doomed, wire>>

\* ApplyLabels: nothing to set leaves the labels alone.
ListLabels ==
  /\ Go("label", "tag")
  /\ \/ doomed' = {l \in StaleExclusive(Fresh) : Fresh # {}} /\ Calm
     \/ Fresh # {} /\ doomed' = {} /\ Harm
  /\ UNCHANGED <<run, diff, scan, loop, found, issue, labels, wire, exit>>

RemoveLabel ==
  /\ stage = "tag"
  /\ \E l \in doomed :
       /\ doomed' = doomed \ {l}
       /\ \/ labels' = labels \ {l} /\ Calm
          \/ UNCHANGED labels /\ Harm
  /\ UNCHANGED <<run, stage, diff, scan, loop, found, issue, wire, exit>>

AddLabels ==
  /\ Go("tag", "exit") /\ doomed = {}
  /\ \/ labels' = labels \cup Fresh /\ Calm
     \/ Fresh # {} /\ UNCHANGED labels /\ Harm
  /\ UNCHANGED <<run, diff, scan, loop, found, issue, doomed, wire, exit>>

Finish ==
  /\ stage = "exit" /\ End(IF Stub THEN 0 ELSE ExitCode) /\ Calm
  /\ UNCHANGED <<run, diff, scan, loop, found, page, wire>>

\* The process is killed; the pull request and the findings file stay.
Crash ==
  /\ stage # "idle" /\ End(1) /\ Harm /\ doomed' = {}
  /\ UNCHANGED <<run, diff, scan, loop, found, issue, labels, wire>>

\* People label and comment at any time, and may quote a summary.
Person ==
  /\ edits < MaxEdits /\ edits' = edits + 1 /\ UNCHANGED faults
  /\ sound' = (sound /\ stage = "idle")
  /\ \/ \E l \in {"docs", "risk/low"} :
          labels' \in {labels \cup {l}, labels \ {l}} /\ labels' # labels
          /\ UNCHANGED issue
     \/ /\ issue' = issue \cup {Human(2, TRUE)}
        /\ issue' # issue /\ UNCHANGED labels
  /\ UNCHANGED <<run, stage, diff, scan, loop, found, doomed, wire, exit>>

Stage ==
  \/ Setup \/ (\E s \in Scanners : Adapter(s)) \/ Scanned
  \/ (\E a \in {"summarizer", "labeler"} : CheapAgent(a)) \/ Unprepared \/ Described
  \/ Converse \/ Score \/ CarryOver \/ PostComments \/ Upload \/ Poll
  \/ ListIssue \/ DeleteIssue \/ PostIssue
  \/ ListLabels \/ RemoveLabel \/ AddLabels \/ Finish

Next == Begin \/ Stage \/ Crash \/ Person

Spec == Init /\ [][Next]_vars

\* The upload has a deadline of its own and so has the wait for its processing.
\* No other call to GitHub, git or a scanner has one: nothing is assumed of them.
FairSpec == Spec /\ WF_vars(Upload) /\ WF_vars(Poll)

-----------------------------------------------------------------------------
(* Properties *)

\* A finding leaves the findings file only in a run whose conversation about
\* its file came to an end or whose diff only renames its file, or for another at
\* its place, whatever failed around it.  A pure rename counts as touched though
\* nobody looked at it: ResolvedWasReviewed below.
ResolvedByReview ==
  [][known' # known =>
       \A f \in ToSet(known) \ ToSet(known') :
         \/ f.path \in reviewed \cup renamed
         \/ \E g \in ToSet(known') : Place(g) = Place(f)]_vars

\* What a scanner found in the change and the policy lets through has a row at
\* its place in the summary of the run, even when other scanners, the cheap
\* agents or the SARIF upload failed.
ScannersReach ==
  stage = "label" /\ ~Stub =>
    \A f \in reported : Survives(f) =>
      \A i \in Own(run) : i.marked => \E row \in i.rows : Place(row) = Place(f)

\* After a run nothing interfered with, the only summary is its own; and what a
\* posted finding of a scanner, or a score of the run, shows of the risk has a
\* label at least as high.  No lower label of risk stays or comes in beside it,
\* except one that the labeler put among its other labels.
Extras == {cheap.labels.type} \cup cheap.labels.domains
PageIsCurrent ==
  stage = "exit" /\ sound =>
    /\ Summaries = {Body(run, 1)}
    /\ \A f \in ToSet(Deduped(output)) :
         (FromScanner(f) /\ f.raw > 2) \/ (f \in scored /\ f.sev > 2) =>
           LET shown == IF f \in scored /\ f.sev > 2 THEN f.sev ELSE f.raw IN
             /\ \E tag \in labels : RankOf(tag) >= shown
             /\ \A tag \in (labels \cap RiskLabels) \ Extras : RankOf(tag) >= shown

\* The best-effort upload never holds a run up for good, however often GitHub
\* asks to wait and however slow it is to process what was uploaded.
SarifEnds == (stage \in {"upload", "poll"}) ~> (stage \notin {"upload", "poll"})

-----------------------------------------------------------------------------
(* Claims of comments that the runs refute *)

\* cmd/sacr/description.go:19-21: summaries are replaced "without touching
\* human comments".
HumanCommentsStay == [][\A i \in issue : i.by = 0 => i \in issue']_vars

\* internal/findings/carryover.go:19-20: what is dropped has "been fixed", so its
\* file was reviewed.
ResolvedWasReviewed ==
  [][known' # known =>
       \A f \in ToSet(known) \ ToSet(known') :
         f.path \in reviewed \/ \E g \in ToSet(known') : Place(g) = Place(f)]_vars

\* cmd/sacr/description.go:115-116: exactly one label of the namespace risk/.
OneRiskLabel == stage = "exit" /\ sound => Cardinality(labels \cap RiskLabels) = 1

\* cmd/sacr/emit.go:623-624: the exit code is 3 when a comment is critical.
CriticalBlocksRun ==
  stage = "idle" /\ exit = 0 => \A f \in ToSet(Deduped(output)) : f.sev # 4
=============================================================================
