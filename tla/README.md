# TLA+ models of sacr

`sacr` reviews a pull request: a Go pipeline takes a diff, asks a model about
each file in a conversation with tools, reconciles what comes back with what
earlier runs reported, and posts comments. This directory holds TLA+ models of
the parts of it that keep state across steps, goroutines or runs, the TLC
configurations that check them, and TLAPS proofs about them.

- `PROJECT.json` lists the components, the runs, the line of Go each definition
  stands for, the hazards, the findings and the theorems.
- A module `X.tla` models a component, `X_*.cfg` are its TLC instances, `MCX.tla`
  holds the constants a `.cfg` cannot express, `X_proofs.tla` its theorems.
- Operators named `Action_Something` are mutants: an action with a plausible
  bug. Each checked property has one that it rejects.

Check a run with `tlc -config AgentLoop_turns.cfg AgentLoop` and a proof with
`tlapm AgentLoop_proofs.tla`.

## The system

One process per invocation, several goroutines inside it, and what is on disk
or at GitHub outlives it.

| Part | Source | State it keeps | Operations | Hard behaviour |
|---|---|---|---|---|
| Diff acquisition and selection | `internal/diff`, `selector`, `filter` | none of its own; reads branch, index and working tree | merge base, diff, untracked files, second read of every file, exclusion, selection | several git commands and file reads one after another, while people edit, stage and commit |
| Agent tools | `internal/tool` | none | `file_read`, `file_read_diff`, `code_search`, `file_find`, `code_comment` | they must look at the same tree as the diff under review |
| Comment parsing and placing | `internal/comment`, `internal/diff/resolver.go`, `relocation.go` | the collector's list | parse or repair a call, snap the quoted excerpt to lines | old and new side, blank lines, excerpts of other files, unescaped quotes |
| Conversation loop | `internal/llmloop/loop.go` | round budget, empty-round count, `messages`, comments collected | send the conversation, execute the tool calls of the answer, append, compress, grace round | every mixture of limits, nudges and cancellation must end; requests must fit the window |
| Memory compression | `internal/llmloop/compression.go` | `compressionState.pendingJob`, one goroutine per job | inline compression above 80 % of the window, background compression above 60 %, splice of a late result, cancel | a result made from a snapshot is applied to a conversation that went on |
| Model client | `internal/llm/client.go`, `responses_client.go` | connection state of one call | build a request for one of three wire protocols, await, stream, retry, map the answer, replay it in the next turn | two timers race for a silent server; a body or stream is cut; what is replayed must be accepted |
| Endpoint resolution | `internal/llm/resolver.go`, `tiers.go`, `keycmd.go` | none | five sources in turn for the main and the cheap tier; a credential command | host and credential of the same source; a command that hangs; checks before a prompt |
| Findings | `internal/findings`, `cmd/sacr/carryover.go` | one JSON file per pull request | load, reconcile, save; fall back to markers of comments | file and pull request are written one after the other, a run can die between |
| Comments on the pull request | `cmd/sacr/emit.go`, `internal/gh` | review comments at GitHub | deduplicate, list, delete, post in chunks | a lost answer is retried; part of a batch; two runs at once |
| Scanners | `internal/scanner`, `cmd/sacr/scanners.go` | none | subprocesses side by side, one retry, filter to the change | one missing, failing or slow scanner |
| Summary and labels | `cmd/sacr/description.go`, `summary.go`, `label.go` | one comment and labels at GitHub | two cheap agents, escalate the risk, replace the comment, exchange labels | every call is best-effort; people comment and label in between |
| Review pipeline | `cmd/sacr/review_cmd.go` | none of its own | runs all of the above in order; exit code | which failures are fatal; early returns between two writes |
| Code index | `internal/index`, `cmd/sacr/index_*.go` | SQLite tables `files`, `directories`, `package_manifests` | `IndexRepo`, `IndexDiff`: walk, prune, read, skip by content hash, summarise in batches, upsert, manifests, directories | edits while it runs, one commit per row, crash and resume, bounded channel between producers and a late consumer |
| Session log | `internal/session` | a JSONL file chained by `parentUuid` | open, append (every goroutine), close, resume | late goroutines after close, torn lines |
| GitHub client | `internal/gh/retry.go`, `rate_limit.go` | remaining rate | retry with back-off, throttle | a POST repeated after a lost answer; waits against the caller's time limit |
| Scoring, effort | `internal/scoring`, `effort` | none | pure decisions | boundaries |
| Comment worker pool | `internal/llmloop/pool.go` | semaphore, wait groups | submit, await one key, await all | not used by `cmd/sacr` |
| Context, rules, overlap, SARIF encoding, extraction, configuration | see `PROJECT.json` | caches | read-only or I/O | |

How they interact. `runReview` resolves the model endpoints, takes the diff and
selects files (`Endpoint`, `ReviewInputs`), opens the index store and has
`IndexDiff` fill in changed files it has never seen (`IndexRun`), opens the
session log (`SessionLog`), runs the scanners and the two cheap agents
(`ReviewRun`), and runs one conversation per file (`AgentLoop`; each request of it
is a `ModelCalls`, each `code_comment` a `ReviewInputs!CodeComment`). A
conversation logs its requests and may leave background compressions behind, which
`WaitBackground` joins after the last file but an error return does not. Then it
reads the collected comments, reconciles and saves the findings file, replaces the
comments on the pull request (`PrReview`), uploads SARIF, replaces the summary
comment and the labels, and turns severities into an exit code (`ReviewRun`).
Successive runs, usually on fresh CI machines, meet only in the findings file, the
pull request, the index and a resumed session log.

What makes each part correct:

- Conversation: no message is lost, repeated or moved by any interleaving of
  appends and compressions; tool results stay with the message that asked for
  them; requests fit; the loop and all its jobs end.
- Comments: after a run that worked, the pull request shows exactly its batch;
  nothing known about an untouched file is forgotten; what was fixed stays off.
- Inputs: what is reviewed is exactly the change, each file once, with the content
  and line numbers of its two sides; the tools tell the same; a comment sits on
  the lines it quotes.
- Model client: a silent server costs one timeout; the loop goes on only from an
  answer that was finished; every replayed tool call is answered before the next
  turn; every call returns.
- Endpoint: host and credential come from the same source, both tiers are usable,
  and a credential is asked for once and then used: what makes one useless after
  all is known case by case.
- Pipeline: what a best-effort stage loses is its own; a finding disappears only
  in a run that reviewed its file or found it renamed; the page shows the latest summary and a risk no
  lower than what was found; the SARIF upload never holds a run up for good.
- Index: a summary describes the content its hash names; one undisturbed run
  repairs what earlier ones left; nothing is asked twice; no failure costs a
  row; producers and the consumer never wait for each other.
- Session log: one unbroken chain per run whatever goroutine writes, nothing
  after `session_end`, a request on disk before it is with the model.

## Modules

### Transcript and AgentLoop

`Transcript` is the abstract specification of a conversation: messages are
numbered as they are written; a step writes some at the end or moves some of
the oldest verbatim ones into the digest. `AgentLoop` models `RunMainTask`,
`addNextMessage`, `runGraceRound` and the compression, and implements it
(`ImplementsTranscript`) under

    written <- Len(log)   digested <- messages.sum   verbatim <- messages.tail

Correspondence: `budget` is `toolReqCount`, `empties` `consecutiveEmptyRounds`,
`messages` the Go slice, in which `head` is the token count of the first two
messages (with the summaries `runCompression` appends to the user prompt),
`sum` the messages those summaries stand for and `tail` the rest; `jobs` are
the goroutines of `triggerAsyncCompression`, `pending` is `st.pendingJob`.
`AnswerWithCalls` executes a whole turn: a `task_done` FAILED aborts it at that
call, a DONE lets the rest run. `addNextMessage` is four steps, `ApplyPending`,
`SyncCompress`, `AppendTurn`, `Settle`, since background jobs run between its
critical sections. A turn's sizes, a summary's size, the outcome of each call
and whether a request fails are chosen freely.

`Return` includes the deferred `cancelPendingCompression`. Left out because
nothing in the loop depends on it: token totals, warnings, the text of
messages, the placing of a comment (see ReviewInputs).

### PrReview

Successive runs of `sacr review --format github` on one pull request. `store`
is the findings file, `surface` the review comments at GitHub, of people, of
`sacr`, and of old releases without a marker. A run goes `Review`,
`ListForCarryover`, `LoadFindings`, `SaveFindings`, `StartEmit`, `DeleteOne`*,
`PostChunk`*, `Finish`. Each call may fail in the way the code handles it; a
post may be taken twice (the retry transport repeats a POST whose answer was
lost) or take effect although it was reported failed; a run may be killed
anywhere. `Reconcile`, `Deduped` and `Recovered` are the pure functions of the
same names; `AfterEmit` is what `dedupeCommentsByLocation` leaves in the array
of its caller, which reads it again for the exit code.

The loops of the code that keep some elements of a slice are `Picking!Picked`: what
is kept is named by its positions, so that a condition may look at what came
before (a fingerprint seen twice, a place taken). `ReviewRun` uses it too.

A comment is its path, its range, what else its fingerprint sees, its wording, its
source and whether it is critical. The list of comments is read in one step. In it
GitHub gives no line for an outdated comment, one whose line has left the diff:
`Listing` chooses freely which those are (`MaxOutdated` bounds them for TLC) and
gives them line 0, as `ListReviewComments` reads them. A finding recovered from such
a comment has no line, and `Inline` skips it like `emitGithub`. The SARIF upload,
the summary comment and the labels are in `ReviewRun`.

### IndexRun

Runs of the indexer over a working tree that changes meanwhile. `rows`,
`dirRows`, `pkgRows` are the tables, one action per commit; `worker` are the
batch goroutines of the errgroup, `channel` is `resultCh`, `closed` its close
by the goroutine that waits for the group, `groupGone` the cancellation of
`gctx`. `StartRepo`, `StartDiff`, `StartReview` are `sacr index`, `sacr index
--full`/`--paths` and `indexMissing` of a review. `Launch` is `g.Go`, which blocks
while all slots are taken, and the drain loop starts only after the last
launch. `ModelFails` covers an error of the batch, the request's own deadline,
which the code cannot tell from a cancelled run, and the cancelled group.
`CancelContext`, `Crash` and `Edit` may come at any time.

A content stands for its hash; the symbols, imports and references of a row
are written in its transaction and not told apart. The manifest pass and the
directory pass are one step each: they run in the main goroutine (the directory
batches write through one lock and each directory once). Walk errors and the
unset options `MaxFileBytes` and `ExtraExcludes` are left out, as is the limit
of 30 files per directory prompt. An answer that names a file counts as a summary
even if its text is blank. A lookup of the content-hash guard fails only when the
context is done; a broken database, for which the code summarises the file again, is
left out. One process uses the database.

### SessionLog

The log file as a sequence of records, torn records and newlines. Writers are
the main goroutine and background compressions. `Asks` takes a request number
under the file session's lock, `AppendTaskRecord` mints the uuid, names the
parent and writes under the session's lock; `CountFailure` and `SetError` are
the two halves of `SetError`. `Commit` writes the buffer and the record and
flushes; a failed write leaves any prefix of it, and `bufio` refuses all later
ones (`open` turns FALSE). `Kill` stops the process between two writes or inside one.
`ConversationFails` goes to `Close` without `WaitBackground`, as the error
returns of `runReview` do. `New` on a file that exists appends to it. The model
lets the main task ask on after a failed grace request, which the code does
not; the log cannot tell.

### ReviewInputs, Placing, CommentArgs

`ReviewInputs` is a repository (`history`, `index`, `work`) and one review of it.
The review goes `Start`, then by the flags `MergeBase` and `RangeDiff`, or
`ShowCommit`, or `DiffHead`, `DiffStaged`, `ListOthers` and `ReadOther`*; then
`Parse`, one `Finalize` per file (the second read of its content), `Select`; then
one tool call of the conversation, `ReadFile`, `SearchCode`, `FindFile`, `ReadDiff`
or `CodeComment`. Every git command resolves its references again and every file
is read by itself, so `Move` (a person edits a file, stages or commits) may come
between any two steps, and a command may fail at any of them. Tools change nothing
here, so one call after the last move shows all they can answer.

`Placing` has the diff text and `ParseDiffText`, `ParseHunks`, `ResolveComment`,
`RelocateAcrossFiles` and `ReLocateComment` as functions on it. A line is its text
after a leading `+` or `-`, and that marker, since these two decide how it is
parsed and matched: a removed line `-- /dev/null` looks like a header.
`CommentArgs` has `parseComments` and `repairSerializedComments` on tokens, with the
part of JSON they meet (`Unmarshal`, external). `Folding` is a left fold that TLC
evaluates on long sequences.

git itself (`TreeDiff`, `Renames`, `GitIgnored`) is external: one rename at most is
detected, by equal content, and hunks come from a longest common subsequence with
one line of context (`MCReviewInputs`). Left out: quoted path names, submodules,
symbolic links, merge commits, the limits on the number of search results, user
globs of `internal/filter`.

### ModelCalls

One conversation over one client: the three wire protocols, the streaming chat
client, Bedrock and a Bedrock client that could not be built. `Ask` builds the
body (`AnthropicMessages`, `OpenAIMessages`, `ResponsesItems`, with caps and
thinking); `await` and `body` are before and after the headers. Two timers run:
the context's deadline, which is never retried, and the transport's header
timer, a margin later, whose error the SDK would retry. `RetryOr` is the SDK's
loop, `BodyCut` the single repetition after an unexpected EOF, `Chunk` and
`StreamEnds` the stream with its integrity check. `Continue` appends what
`llmloop` appends: the turn in the provider's own form (`native`) and a result
for each call. The SDKs are external, reduced to what the source relies on.
Left out: cache marks, token usage, the text of errors other than the Bedrock
advice.

### Endpoint

One resolution of both tiers. `file` and `env` are chosen once (`Worlds`); `TrySource`
asks the five sources in their order, each a pure operator with the checks of
`tryProviderConfig`, `tryLegacyLlmConfig`, `trysacrEnv`, `tryProviderEnv`, `tryCCEnv`
and `tryShellRC`; an endpoint without its token goes through the credential
command (`ChildExits`, `ChildTick`, `KeyCmdDone`: a time limit, a left-behind process
that holds the output open, too much output); `Accept` is the completeness check
and the choice of the cheap tier. `typed` remembers for which tiers a command
answered with a key, also after the resolution went on to another source or tier or
failed. A URL is the source that named its host and its
path; a token is its source.

### ReviewRun

The pipeline, run after run: `Setup` (policy, diff, selection, tiers, index store),
`Adapter`* side by side, `Scanned`, the two `CheapAgent`s side by side, `Described`
or `Unprepared` (session, prompts and tools, which fail after the cheap agents),
`Converse`*, `Score`, `CarryOver`, `PostComments`, `Upload` and `Poll` of SARIF,
`ListIssue`, `DeleteIssue`*, `PostIssue`, `ListLabels`, `RemoveLabel`*, `AddLabels`,
`Finish`. A failure ends the run (`End(1)`) exactly where `runReview` returns it,
and is passed over where the code prints a warning. `known` is the findings file,
`issue` the conversation of the pull request, `labels` its labels; they and nothing
else outlive a run. `Person` comments, quotes a summary and sets or removes labels
at any time. A push says which files it touches and which of them it only renames
(`renamed`): those are in the diff and have no conversation. What the scanners, the
conversations and the labeler say comes from the constants `Reports`, `Notes` and
`Proposals`: any finite sets of findings under the names of their origins, and any
reply, since `RunLabeler` decodes it without validation: a risk label may stand
where a type or a domain belongs, and the risk may be no known label. `PrReview` has
the review comments in detail; here posting them is one step that succeeds or ends
the run.

## Runs

All passing runs end with no error in under three minutes on two cores. Deadlock
is not checked (`CHECK_DEADLOCK FALSE`) since conversations, reviews, runs and
sessions end and the bounds on them stop the model; that nothing stops too early
is what the liveness properties say.

| Run | Shows |
|---|---|
| `loop_turns` | Four rounds with a window of 20: inline, background, late, cancelled and failed compressions in every order. `NothingLost`, `SnapshotAligned`, `OwnedOrKilled`, the refinement of `Transcript`. |
| `loop_calls` | Two calls per answer, a first prompt over or under the limit, fairness: `NoOrphanResults` (a cut never splits a round), `RequestFits`, `Terminates`, `JobsDrain`. |
| `pr_persistent` | Three runs, findings file kept, one fault anywhere: `SoleSource`, `NothingForgotten`, `NoResurrection`, `TypeOK`. |
| `pr_ephemeral` | Three runs, each on a fresh machine, one outdated comment in any listing: `PlaceKept`. |
| `index_edits` | Two runs of any kind, three files, one edit, failures, cancellation and crashes anywhere: `SummaryMatchesHash`, `CleanRunIsExact`, `NoChangeIsFree`, `NoSendAfterClose`, `RowsOutliveFailures`. |
| `index_live` | Four files of two sizes, one slot, batches of three, fairness: `SendersNeverBlock`, `RunEnds`. |
| `session_log` | Two runs on one log, one job beside the main goroutine, one fault: `ChainUnbroken`, `EndIsLast`, `EndCountsAll`, `NumbersUnique`, `RequestWitnessed`, `OneLinePerFault`. |
| `model_calls` | Three turns over every client, any server: `SilenceIsNotRetried`, `OnlyFinishedAnswers`, `CallsArePaired`, `CallsReturn`. |
| `llm_endpoint` | Products of configuration files and environments, entries without a host among them, a command of any outcome: `OneSource`, `PromptsAreUsed`. |
| `inputs` | Eight repositories, every combination of flags, one move or one failure anywhere: `ReviewsTheChange`, `PlacedOnExcerpt`, `RepairIsIntact`, `ToolsAgree`. |
| `review_run` | Two pushes, one of which may only rename a file, two scanners, one fault and one act of a person anywhere, fairness of the SARIF upload: `ScannersReach`, `PageIsCurrent`, `ResolvedByReview`, `SarifEnds`. |

One run, `pr_exit_code`, refutes a statement of the source: the in-place
deduplication overwrites a critical comment that the exit code is computed from.
`PROJECT.json` quotes the statement under "findings"; `ReviewRun_claims.cfg` shows
the same for the pipeline as a whole.

### Bounds, and why they are enough

- AgentLoop: rounds (`MaxToolRequestTimes`), messages of one or two sizes and
  windows of 10 or 20 tokens. With 20, soft and warning limits are 12 and 16,
  the prompt 9, and a turn adds 2 to 6: a job can start after the first turn,
  be ready, be applied, be cancelled by an inline compression, and a second one
  started, within four rounds. Longer conversations repeat these. With 10 and
  prompts of 1 and 9, a single turn crosses both limits.
- PrReview: a property over runs `q < r` with one in between needs three; two
  files tell touched from untouched; two comments per run and chunks of one
  give partial batches; one fault, placed anywhere, is followed by faultless
  runs, which is when recovery can be judged. One outdated comment in a listing is
  all it takes to lose a place; `pr_persistent` leaves them out to stay fast (with
  one it passes too, in under five minutes), the theorems cover any number.
- IndexRun: two runs (one that leaves something behind, one that meets it),
  three files with batches of two (one full, one not), two slots; one edit
  between any read and write. The liveness run has as many batches as block:
  one slot, four files, large ones alone in their batch.
- ModelCalls: a timeout of two ticks and a margin of one tell apart all orders of
  the two timers; two retries, so that a retry is itself retried; a stream of two
  pieces may end before, between and after them; the third turn replays a turn
  that followed a replayed one.
- Endpoint: entries over all fields that a check looks at, against a few
  environments, and all environments against a few files: a resolution looks at
  one entry or one block, so more files add nothing. The Bedrock preset with
  another protocol and no URL is among them, with and without a cheap tier on it; it
  is the exception both properties name.
- ReviewInputs: eight repositories with a change in two hunks, a new file, a
  deletion, a rename, a binary file, an ignored file, a staged change taken back,
  and no commit at all. One event of people or of git, at any step, is what a
  two-step read can be torn by. Five-line files have two hunks with one line of
  context. Tools are asked once, for windows inside, across and outside a file.
- ReviewRun: the second run meets what the first left; four paths are one of each
  kind the filters tell apart; the moved file is once edited and once only renamed,
  with findings on it; the replies of the labeler include a risk label among the
  domains and one of no known level; one fault and one act of a person, anywhere.
- SessionLog: two runs, so that one resumes what the other left; two files; one
  job, which with an inline compression gives two writers of the same task;
  `MaxRecords` stops new requests, not answers or the end.

### Fairness

`AgentLoop`: weak fairness of the loop and of each job. Every model request has a
deadline (the client's request timeout, `llm/client.go:519-538` and `907-936`;
five minutes for a background job, `compression.go:305`) and everything else in a
step is local. `ModelCalls` shows that this is so: with nothing but time passing and
an expired timer acted on (weak fairness of `Tick` and `TimerFires`), every call
returns, although the server may be silent for ever. `IndexRun`: weak fairness of
the main goroutine, of the closing goroutine and of each batch: file and store
operations return, a request ends by its timeout. `ReviewRun`: weak fairness of
the SARIF upload, which has 30 seconds (`gh/pr_body.go:84`), and of the wait for its
processing, which has five minutes (`emit.go:433`). No other call to GitHub, git or a
scanner has a limit, so that a whole run ends is not claimed. Nothing is
assumed about cancellation, crashes, edits, people, the server or the start of
runs. `PrReview`, `SessionLog`, `Endpoint` and `ReviewInputs` state safety only.

## Proofs

tlapm checks all obligations. They hold for every value of the constants that
the modules' assumptions allow.

**AgentLoop_proofs.** `TypeCorrect` needs lemmas on slices and
on `Compressions` because views are rebuilt from sub-sequences.
`JobsAreOwned`: `OwnedOrKilled` is inductive with `TypeOK`; the step that matters
is that every return and inline compression goes through `CancelPending`, and
`TriggerAsync` refuses a second job. `SnapshotsAlign` uses `DInv`, the
conjunction of types, ownership and alignment: alignment alone is not
inductive, since a job that is not pending must stay unusable. `Refinement`
shows that a splice is a digest of the live conversation: the snapshot stands
for a prefix (`SnapshotAligned`), so putting the job's view in front of the
messages after it equals digesting the messages the job summarised.
`ConversationLosesNothing` then follows from `TranscriptLosesNothing`, whose
invariant is inductive by itself. These three assume a compression prompt
(`HasTemplate`); without one they are false (see below).

`ResultsKeepTheirCalls` holds with or without a template. `CutInv` says that the
live messages are made of whole rounds, that a snapshot ends between two rounds of
a conversation that has grown since, and that the view of a job is what is left of
its snapshot after a cut between rounds; `CutAfterResults` is the fact about
`partitionMessages` behind it. `RequestsAreMeasured` extends the property to the
state before a request (`FitInv`): the only ways back to the model are `Settle`, which
has just measured, and a nudge, which has not. It needs no arithmetic on sizes,
because a background result that lands later is applied only by `ApplyPending`,
after which the conversation is measured again.

**IndexRun_proofs.** `IInv` is `TypeOK`, `Shape` (which batches exist at which
point of the run, and that the channel is closed when all goroutines are over),
`Meaning` (what waits to be written was read, and is of the right kind) and
`Distinct` (batches are disjoint, and a result is either still in its goroutine
or once in the channel). `SummariesMatch` is part of it. `NeverSendsAfterClose`
follows from `Shape`. `SendersHaveRoom` is the counting argument: the channel is
an injection into the files of the batches that misses the one about to be
sent, so it is shorter than their number, which is the capacity. `RowsSurvive`
is the action property, by cases on the writers of `rows`. `BuildBatches` being a
partition is the lemma `BatchesBuilt`, and that the batches leave no file out is
`BatchesCover`, by bounds on the division that numbers a chunk; both rest on
`BatchLayout`.

`UnchangedIsFree` is carried by `Unneeded`: over rows that match the tree a run finds
every target up to date, so that anything to write or to send exists only after a
cancellation, when the content-hash guard no longer works and nothing is sent any
more. `CleanRunMirrors` is carried by `Undisturbed`, which follows every target
from the pass that read it: its row is right, or it is on its way (`Waiting`), that
is, among the trivial files, in a batch not answered yet, in a goroutine that has
not sent it, or in the channel. Both use `Held`: what a run holds are its targets,
and a run starts with nothing of the last one.

**SessionLog_proofs.** The invariant `LogInv` is about `Log`, the file followed by
what `bufio` holds: it is chained, no run goes on after its end, request
numbers are unique (`Good`); while the file is open its last record of the run
is the one `lastUUID` names (`Link`), the run has not ended (`Live`), and the
numbers given out but not yet written are neither in the log nor held twice
(`Counted`). None of the three theorems is inductive alone: the chain needs
`Link`, and uniqueness needs the goroutines between the two locks. A write cut
short leaves a prefix of a longer log and at most a torn record (`CutRecords`),
and `Good` holds of prefixes (`PrefixIsGood`), which settles all failed writes and
kills at once. `RequestsAreWitnessed` adds that only whole lines are appended while
the file stays open.

`FaultsSpoilOneLine` needs two parts (`LinesInv`): the spoiled lines of the file are
no more than the faults, and what `bufio` holds is whole lines. A flush that is cut
short can then spoil its last line only, and a resumed run's first record can be
appended only to a line that is spoiled already. `EndAccountsForAll` relates three
places (`AccountInv`): the failed requests in the log together with the goroutines
between the two halves of `SetError` are no more than `failures`, and the files of
the run's records, and of the goroutines that will write one, are all in `seen`.

**Picking_proofs.** What `Picked` returns has the elements at the chosen positions,
each once, in the order of the positions (`PickedPositions`, `PickedElements`). Where
such facts would be shown by induction over a slice, the proofs take the least
position with a property (`Least`, from the well-foundedness of the natural
numbers).

**PrReview_proofs.** `TypeCorrect` holds whether or not runs overlap. The other four
are stated for runs that follow each other (`~Overlapping`), since overlapping ones
refute `SoleSource` (`PrReview_overlapping`). All rest on `InOrder`: types, `Serial` (a
run starts when the one before it is over) and `Orderly` (what a run holds at each
stage). `OneSource` adds `PageInv`: while a faultless run posts, the comments of
`sacr` on the pull request are what it still has to delete and the part of its
batch posted so far, and never both. `SavedIsPosted` adds `KeepInv`: the findings
file, and the report of every run that read it, show what an earlier run saved for
every path nobody touched since; it survives runs that died between saving and
posting because the file, not the page, carries it. `FixedStaysGone` adds `StayInv`:
what the findings file, the markers on the page, the lists taken from it and the
reports made from either hold for an untouched path was reported by every
faultless run since which nobody touched it; it needs `PageInv`, which says that the
old markers were deleted.
`PlacesAreKept` (`~StoreSurvives`) adds `PlaceInv`: without a findings file a run
reports every place it recovered from a marker that was listed with a line, and what
has a line is posted. The lemmas `ReconcileElements`,
`RecoveredElements` and those on `Deduped` say what the pure functions return, and
a frame lemma per invariant says which steps cannot disturb it.

**ModelCalls_proofs.** `SilenceCostsOneTimeout`: by `ClockInv` no attempt outlives the
deadline of its call, and the header timer of the transport is later by a positive
margin (`Margin > 0`, `llm/client.go:57`), so that when it could go off the deadline
has, whose error is not retried. `RepliesAreFinished`: `AnswerInv` says what of an
answer is known while it comes in, for each protocol.

`CallsMeetResults` is about every request of a conversation of any length, with any
number of calls, text and reasoning in a turn. `ConvInv` says that the conversation
between two calls reads well for its client (`ReadsWell`): put on the wire as it
stands, every call of a turn is answered before the next turn (`Settled`), for the
Messages API with the results that are still held flushed (`Collects`). The loop of
each client over the messages is a fold; `LoopReaches` shows that a fold goes through
every prefix and `LoopContinues` that the fold over a longer conversation goes on
from the shorter one, so that one exchange, a turn and its results, is all that is
left (`ReadsOn`): the turn makes exactly the calls it holds (`TurnSays`), nothing may
come between it and its results (`Awaiting`), and the results answer them, in one
message (`AnsweredAtOnce`) or one by one (`AnsweredOneByOne`, `ItemsSettle`). The
chat client maps each message to one (`OpenAIMessage`), the responses client each
message to a run of items (`TurnItems`).

**Endpoint_proofs.** `EverySourceAnswers` takes the five sources one after the other
(`SacrConfigAnswers` with `ProviderConfigAnswers` and `LegacyAnswers`,
`SacrEnvAnswers`, `ProviderEnvAnswers`, `GatewayAnswers`, `ShellAnswers`): what a
source finds is complete and pairs a host with a credential of the same source, and
what it asks a key for lacks nothing else, or is the Bedrock entry without a host
(`Answered`). It rests on the registry (`PresetsAreOK`), on the host of an entry
(`EntryHost`) and on what `ensureMessagesSuffix` and the clients append to a path
(`EnsuredRequest`, `PlainRequest`). `IInv` carries it through the stages: while the
sources of a tier are tried no command of it answered, unless its entry has no host
(`Bare`), and an accepted draft never goes back to the sources; the key of the main
tier stays in it while the cheap one is resolved (`Held`). `PromptsAreNotWasted`
assumes nothing of the worlds; its two exceptions are part of the property, and
`Endpoint_cheap` shows both. `EndpointsAreOfOneSource` has the first of them, the
entry without a host, and assumes two things of the worlds: no model is called
`[1m]`, the suffix that is stripped (`Named`), and no URL has a segment `messages`
inside its path, which `ensureMessagesSuffix` would not take for the end of one
(`PlainUrls`). The worlds of the run have both.

**ReviewRun_proofs.** `Sane` follows a finding through the stages: `Covered` (a kept
file is reviewed, only renamed or still to come), `Heard` (what a scanner said is in
the collector, and in the output if it survives the score), `Spoken` (a summary of
this run has all its scanner rows), `Stubbed` (a run without a kept file has no
findings) and `Latest` (a run nothing interfered with replaces the old summaries and
risk labels, stage by stage). `ScannersAreHeard` follows from `Heard` and `Spoken`,
`PageFollows` from `Latest` and the fact that the evidence is no lower than a
finding that counts (`EvidenceCovers`), so that the labels a run brings have one as
high, and none lower but among the labeler's own (`FreshRisk`, `RiskRanks`), and the
action property `OnlyReviewedIsResolved` from `Covered` and what `Carried` keeps
(`CarriedElements`). That no other step writes the findings file is the case
analysis `StepCases`.

The type invariants of `AgentLoop`, `IndexRun` and `SessionLog` are theorems and
not listed in their configurations.

Only model-checked:

- liveness (`Terminates`, `JobsDrain`, `RunEnds`, `CallsReturn`, `SarifEnds`), which is
  out of the prover's reach;
- `ReviewsTheChange`, `PlacedOnExcerpt` and `ToolsAgree` of `ReviewInputs`: they relate
  what folds over a diff text, its hunks and a file compute, and each fold needs an
  induction of its own, written out with `Least` since the library's induction
  theorems cannot be instantiated;
- `RepairIsIntact`: the repair of a model's JSON is a heuristic, right for the texts
  of `MCReviewInputs` and not for every text.

## Further divergences

Each of these is stated as a property beside the model and refuted by the
configuration named, within a minute. A `_claims` configuration lists several, all
but one as comments.

| Configuration | Property | The source says | The code does |
|---|---|---|---|
| `AgentLoop_everything_fits` | `KeepsFittingRounds` | `compression.go:148`: "Everything fits — no compression needed." | a compression of rounds that all fit summarises every one of them; the background job, started below the warning limit, always does |
| `AgentLoop_kept_rounds` | `KeptRoundsFit` | `compression.go:105-107`: trailing rounds fit "the remaining token budget after accounting for the frozen zone and the compressed summary" | both callers reserve nothing, so kept rounds, prompt and summary together can exceed the limit |
| `AgentLoop_no_template` | `NothingLost` | `config.go:27-28`: "An empty Messages list disables compression." | `compression.go:225` returns the first two messages: everything else is dropped |
| `AgentLoop_exact_limit` | `StopsOnlyWhenOver` | `loop.go:649-651`: false "when even after synchronous compression the conversation is still over the warning threshold" | at exactly the threshold no compression is tried (`>`) and the loop stops (`<`, `loop.go:698`) |
| `PrReview_placeholder` | `CarriedUnchanged` | `findings/types.go:22`: "previous finding, file untouched — carried unchanged" | on a fresh machine it comes back as a placeholder (`carryover.go:123`), and the comment that had its text is deleted |
| `PrReview_empty_file` | `ResolvedStaysGone` | `findings/carryover.go:19-20`: resolved findings "shouldn't re-surface" | a findings file emptied because all was fixed is taken for a missing one (`carryover.go:57`); after a kill before the deletions a fixed finding is carried |
| `PrReview_outdated` | `StaleWasResolved` | `findings/carryover.go:15`: "carried (untouched file, carry forward)", and `emit.go:301-303`: a comment is deleted when "the finding was resolved" | GitHub lists an outdated comment without a line, its finding is carried at line 0 (`carryover.go:122`), `emit.go:282` skips it, and its comment is deleted |
| `PrReview_overlapping` | `NoTwoCopies` | `emit.go:315-320`: "the fresh batch becomes the sole source of truth" | two runs for two pushes may both delete before either posts |
| `PrReview_claims` | `DroppedWasReviewed` | `findings/carryover.go:19-20`: resolved findings have "been fixed" | `review_cmd.go:329` ignores why a conversation stopped; a file cut short counts as reviewed, and its old findings are dropped |
| `PrReview_claims` | `KeyedByFingerprint` | `docs/ARCHITECTURE.md:104`: "keyed by `(owner, repo, pr, fingerprint)`" | a fingerprint reported twice is saved twice (`findings/carryover.go:42`) |
| `IndexRun_bad_batch` | `BadBatchIsolated` | `indexer.go:197-198`: "one bad batch doesn't nuke the whole run. Only ctx.Canceled propagates." | a batch's own request timeout cancels the group (`indexer.go:221`), and healthy batches are dropped |
| `IndexRun_dirs_resume` | `DirectoriesResume` | `store.go:18-20`: a partial-crash run "can resume where it left off" | the directory pass is skipped when no file was written (`indexer.go:124`), so a kill before it leaves the directories without rows |
| `IndexRun_manifests` | `ManifestsMirrored` | `sqlite_store.go:592-593`: "lets one call re-mirror a manifest after re-parse" | a manifest that no longer declares anything has no rows to group by, and its old ones stay (`sqlite_store.go:594`) |
| `SessionLog_torn` | `PriorRecordsIntact` | `docs-site/content/docs/architecture/session-log.mdx:45-46`: "A crash mid-run leaves at most one truncated line at the tail — every prior record is intact and parseable." | a record whose newline was not written, or the `session_start` of the run that resumes after a torn line, shares a line and does not parse |
| `SessionLog_ended` | `EndedStaysEnded` | `session-log.mdx:71-72`: resume "has no effect if the log has a `session_end` record" | `session.New` appends a new run to it |
| `SessionLog_order` | `NumberedInOrder` | `file_session.go:19-21`: records "stay numbered sequentially" | the number is taken before the session's lock: an inline compression can write its request before an earlier-numbered background one |
| `ReviewInputs_claims` | `PlacedInsideHunks` | `docs/THREAT_MODEL.md:187-192`: "line-number bounds check against the actual hunks"; comments that fail "are dropped" | a match in the file outside the hunks is kept (`resolver.go:70`), so that it is not dropped; only a comment without any match is (`review_cmd.go:343`, `emit.go:282`) |
| `ReviewInputs_claims` | `NewSideFirst` | `resolver.go:147-150`: "It tries the new-side first", and `resolver.go:248-250`: blank lines "don't break the sliding-window match" | inside a hunk they do, so an excerpt across a new blank line is found on the old side, with old line numbers, although the new file holds it |
| `ReviewInputs_claims` | `FiledUnderReview` | `resolver.go:88-91`: the comment is re-filed to the excerpt's "true home" | the true home in a deleted file is filed under `/dev/null` |
| `ReviewInputs_claims` | `ToolsReadTheHead` | `review_cmd.go:90`: "head ref (range mode; default HEAD)" | with `--from` alone the diff is of HEAD, but the tools read the working tree |
| `ReviewRun_claims` | `ResolvedWasReviewed` | `findings/carryover.go:19-20`: resolved findings have "been fixed" | a pure rename has no conversation (`review_cmd.go:318`) but counts as touched (`review_cmd.go:359`), so the findings at its path are dropped unseen |
| `ReviewRun_claims` | `HumanCommentsStay` | `description.go:19-20`: replaced "without touching human comments" | every comment that contains the marker is deleted, also one of a person who quotes a summary |
| `ReviewRun_claims` | `OneRiskLabel` | `description.go:116`: "labeler emits exactly one" risk label | when the labeler fails and nothing escalates there is none; with no label at all to set, an old one stays |
| `ReviewRun_claims` | `CriticalBlocksRun` | `emit.go:623-624`: 3 "when any comment carries a critical/blocker severity" | as `pr_exit_code`, in the pipeline |
| `Endpoint_cheap` | `NoPromptIsWasted` | `resolver.go:406-408`: "a config typo must not trigger a secret-manager prompt before the cheap validation below has had a chance to fail" | the Bedrock preset with another protocol and no URL runs its command and is then passed over as incomplete, or accepted without a host when it was named by `--provider`; a key typed for the main tier is dropped when the configuration of the cheap one fails (`tiers.go:81-86`) |
| `Endpoint_cheap` | `BrokenCheapKeepsMain` | `tiers.go:46-47`: "a broken cheap-provider config never accidentally breaks the reviewer path" | `ResolveTiers` returns the error of the cheap tier, and no tier |
| `Endpoint_headers` | `ReservedHeadersKept` | `resolver.go:919`: reserved headers "extra_headers must not override" | the check is applied to the environment's headers only, not to a provider entry's |

Met while modelling, and not stated as a property:

- Only the OpenAI client clamps the output cap (`llm/client.go:786-803`), and
  `extra_body.max_tokens` is applied after the guard that drops thinking which
  leaves no room (`llm/client.go:1217-1233`).
- The head is resolved once for the diff and again for the review comments, after
  all conversations.
- A capped `Retry-After` (32 s) is longer than the 30 s an upload may take, so that
  upload is given up without its retry.
- The HTTP client of `internal/gh` has no timeout (`client.go:417`): outside the SARIF
  calls a silent GitHub holds a review until its job is killed.
- After a rename the findings at the old path are carried, at a path that no longer
  exists: `changedPathsFromDiffs` lists the new one.
- A comment found on the old side only has line numbers of the old file and is
  posted on the right-hand side.
- A file taken out of the index but left in place gives two diffs of one path.
- `--to` without `--from` fails at the merge base.
- Every `gitcmd.New(0)` has 16 permits of its own; together they bound nothing.

## Not modelled, and the plan

Text and formats (extraction, prompts, rendering, SARIF encoding, redaction),
read-only parts (context, search of the index, status, metrics), table-driven
arithmetic without state (scoring, effort, overlap) and the editor extension, web
sites and packaging are not modelled: they keep no state that another step depends
on, and a model of them would repeat their text. The comment worker pool and the
replay of a session log have no caller in `cmd/sacr`. `PROJECT.json` gives the
reason per component. What remains, in this order:

1. Proofs of `ToolsAgree`, `PlacedOnExcerpt` and `ReviewsTheChange` (`ReviewInputs`), by
   the argument of `LoopReaches` for the folds of `Placing`.
2. `FindingsStore`: `findings/store.go:56-74` with its temporary name, shared by
   two processes; `PrReview`'s atomic save as its abstract specification.
3. Two processes on one index database, with the stale prune; the rules cache.
4. `gh/rate_limit.go`: the shared remaining rate against concurrent requests.
