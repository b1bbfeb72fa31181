------------------------------ MODULE IndexRun ------------------------------
(***************************************************************************)
(* The code index and the runs that fill it: internal/index.  `sacr index` *)
(* calls IndexRepo, a review calls IndexDiff for the changed files it has  *)
(* no row for.  A run reads the working tree, skips the files whose        *)
(* content hash the store already has, writes placeholder rows for trivial *)
(* files, and sends the others to the model in batches, one goroutine      *)
(* each, while the caller drains their results into the store.             *)
(*                                                                         *)
(* The store outlives the runs: every row is its own transaction, a run    *)
(* can be killed between any two of them, and the tree can be edited       *)
(* while it runs.  A path is its rank in the sorted listing; a content     *)
(* stands for its hash.                                                    *)
(***************************************************************************)
EXTENDS Integers, Sequences, FiniteSets

CONSTANTS
  NumFiles,     \* paths 1..NumFiles, in lexical order
  Indexable,    \* the paths shouldIndex accepts
  Manifests,    \* the paths the manifest registry matches
  Dirs, DirOf,  \* DirOf[f] is the parent directory of f
  Contents,     \* contents a file can have
  Trivial,      \* those under trivialFileBytes
  Large,        \* those of at least largeFileBytes
  NoDeps,       \* those that, as a manifest, declare no package
  BatchSize,    \* batchSize
  Workers,      \* llmSemaphore
  Modes,        \* how runs are started: subset of "repo", "full", "diff"
  None,         \* no content: an absent file, no row, no summary
  MaxRuns,      \* bound: runs started
  MaxEdits      \* bound: edits of the working tree

Files == 1..NumFiles

ASSUME SizesAssumption ==
  /\ NumFiles \in Nat /\ MaxRuns \in Nat /\ MaxEdits \in Nat
  /\ BatchSize \in Nat \ {0} /\ Workers \in Nat \ {0}
ASSUME FilesAssumption ==
  /\ Modes \subseteq {"repo", "full", "diff"}
  /\ Indexable \subseteq Files /\ Manifests \subseteq Files /\ DirOf \in [Files -> Dirs]
ASSUME ContentsAssumption ==
  /\ None \notin Contents
  /\ Trivial \subseteq Contents /\ NoDeps \subseteq Contents
  /\ Large \subseteq Contents \ Trivial

VARIABLES
  tree,      \* the working tree: the content of each path, or None
  rows,      \* table files: content hash and the content its summary tells of
  dirRows,   \* table directories: the paths it has a row for
  pkgRows,   \* table package_manifests: the content each path's rows come from
  pc,        \* where the run's main goroutine is
  mode,      \* "repo", "full" (IndexRepo with Full) or "diff" (IndexDiff)
  walked,    \* walkRepoTree's listing
  targets,   \* the paths handed to indexPaths
  read,      \* what readAndSplit read: a content, None (skip) or "unread"
  trivial,   \* trivial files not yet upserted
  batches,   \* buildBatches(summarizable)
  launched,  \* batches handed to g.Go
  worker,    \* the batch goroutines: phase, results not yet sent
  channel,   \* resultCh
  closed,    \* resultCh is closed
  groupGone, \* the errgroup cancelled gctx
  ctxDone,   \* the caller cancelled ctx
  indexed,   \* files persisted by this run
  clean,     \* history: nothing went wrong or changed since the run started
  fresh,     \* history: every row matched the tree when the run started
  called,    \* history: this run sent a request to the model
  runs, edits

storeVars == <<rows, dirRows, pkgRows>>
poolVars == <<batches, launched, worker, channel, closed, groupGone>>
localVars == <<mode, walked, targets, read, trivial, poolVars, ctxDone, indexed>>
vars == <<tree, storeVars, pc, localVars, clean, fresh, called, runs, edits>>

Row == [hash : Contents, summary : Contents \union {None}]
NoRow == [hash |-> None, summary |-> None]
Phases == {"queued", "started", "calling", "sending", "finished", "failed", "dropped"}
Over == {"finished", "failed", "dropped"}

TypeOK ==
  /\ tree \in [Files -> Contents \union {None}]
  /\ rows \in [Files -> Row \union {NoRow}]
  /\ dirRows \subseteq Dirs
  /\ pkgRows \in [Files -> Contents \union {None}]
  /\ pc \in {"exited", "walk", "prune", "read", "trivial", "launch", "drain",
             "manifests", "dirs"}
  /\ mode \in {"repo", "full", "diff"}
  /\ walked \subseteq Files /\ targets \subseteq Indexable /\ trivial \subseteq Files
  /\ read \in [Files -> Contents \union {None, "unread"}]
  /\ batches \in Seq(SUBSET Files) /\ launched \in 0..Len(batches)
  /\ worker \in [DOMAIN batches -> [phase : Phases, left : SUBSET Files]]
  /\ channel \in Seq(Files)
  /\ closed \in BOOLEAN /\ groupGone \in BOOLEAN /\ ctxDone \in BOOLEAN
  /\ clean \in BOOLEAN /\ fresh \in BOOLEAN /\ called \in BOOLEAN
  /\ indexed \in Nat /\ runs \in 0..MaxRuns /\ edits \in 0..MaxEdits

-----------------------------------------------------------------------------
(* What the run computes.                                                  *)

Present == {f \in Files : tree[f] # None}
HasRow == {f \in Files : rows[f] # NoRow}
UpToDate_AnyRow(f, c) == rows[f] # NoRow
UpToDate(f, c) == rows[f].hash = c

Lowest(S) == {f \in S : \A g \in S : f <= g}
LargeOf(S) == {f \in S : read[f] \in Large}

\* Large files alone and first, the others in groups of BatchSize.
Rank(S, f) == Cardinality({g \in S : g <= f})
BuildBatches(S) ==
  LET large == LargeOf(S)
      small == S \ large
      groups == (Cardinality(small) + BatchSize - 1) \div BatchSize
  IN  [i \in 1..Cardinality(large) |-> {f \in large : Rank(large, f) = i}] \o
      [k \in 1..groups |-> {f \in small : (Rank(small, f) - 1) \div BatchSize = k - 1}]

\* resultCh has room for every summarizable file.
Capacity_OnePerBatch == Len(batches)
Capacity == Cardinality(UNION {batches[b] : b \in DOMAIN batches})

GroupDone == groupGone \/ ctxDone
Active == {b \in DOMAIN batches : worker[b].phase \in {"started", "calling", "sending"}}

Idle ==
  /\ mode = "repo" /\ walked = {} /\ targets = {} /\ trivial = {}
  /\ read = [f \in Files |-> "unread"]
  /\ batches = << >> /\ launched = 0 /\ worker = << >>
  /\ channel = << >> /\ closed = FALSE /\ groupGone = FALSE
  /\ ctxDone = FALSE /\ indexed = 0

Init ==
  /\ tree \in [Files -> Contents \union {None}]
  /\ rows = [f \in Files |-> NoRow]
  /\ dirRows = {}
  /\ pkgRows = [f \in Files |-> None]
  /\ pc = "exited" /\ Idle
  /\ clean = FALSE /\ fresh = FALSE /\ called = FALSE
  /\ runs = 0 /\ edits = 0

\* The run returns, or dies: what it held in memory is gone.
Exit ==
  /\ pc' = "exited"
  /\ UNCHANGED mode
  /\ walked' = {} /\ targets' = {} /\ trivial' = {}
  /\ read' = [f \in Files |-> "unread"]
  /\ batches' = << >> /\ launched' = 0 /\ worker' = << >>
  /\ channel' = << >> /\ closed' = FALSE /\ groupGone' = FALSE
  /\ ctxDone' = FALSE /\ indexed' = 0

Upsert_RereadsFile(f, summary) ==
  \/ /\ ~ctxDone
     /\ rows' = [rows EXCEPT ![f] = [hash |-> tree[f], summary |-> summary]]
     /\ indexed' = indexed + 1
     /\ UNCHANGED clean
  \/ /\ clean' = FALSE
     /\ UNCHANGED <<rows, indexed>>

Upsert_DeletesFirst(f, summary) ==
  \/ /\ ~ctxDone
     /\ rows' = [rows EXCEPT ![f] = [hash |-> read[f], summary |-> summary]]
     /\ indexed' = indexed + 1
     /\ UNCHANGED clean
  \/ /\ rows' = [rows EXCEPT ![f] = NoRow]
     /\ clean' = FALSE
     /\ UNCHANGED indexed

\* One autocommit upsert.  It fails when ctx is done, and may fail otherwise;
\* either way the caller goes on with the next file.
Upsert(f, summary) ==
  \/ /\ ~ctxDone
     /\ rows' = [rows EXCEPT ![f] = [hash |-> read[f], summary |-> summary]]
     /\ indexed' = indexed + 1
     /\ UNCHANGED clean
  \/ /\ clean' = FALSE
     /\ UNCHANGED <<rows, indexed>>

-----------------------------------------------------------------------------
(* The run's main goroutine.                                               *)

Start(m, paths) ==
  /\ pc = "exited" /\ runs < MaxRuns /\ m \in Modes
  /\ runs' = runs + 1
  /\ mode' = m
  /\ pc' = IF m = "diff" THEN "read" ELSE "walk"
  /\ targets' = IF m = "diff" THEN paths \intersect Indexable ELSE {}
  /\ clean' = TRUE /\ called' = FALSE
  /\ fresh' = \A f \in Indexable \intersect Present : UpToDate(f, tree[f])
  /\ UNCHANGED <<tree, storeVars, walked, read, trivial, poolVars, ctxDone, indexed, edits>>

\* What `sacr index`, `sacr index --full`, `sacr index --paths` and a review ask for.
StartRepo == \E m \in {"repo", "full"} : Start(m, {})
StartDiff == \E paths \in (SUBSET Files) \ {{}} : Start("diff", paths)
StartReview == \E paths \in SUBSET (Present \ HasRow) \ {{}} : Start("diff", paths)

Walk ==
  /\ pc = "walk"
  /\ pc' = "prune"
  /\ walked' = Present
  /\ targets' = Present \intersect Indexable
  /\ UNCHANGED <<tree, storeVars, mode, read, trivial, poolVars, ctxDone, indexed,
                 clean, fresh, called, runs, edits>>

\* RemovePaths is one transaction; its failure is a warning.
Prune ==
  /\ pc = "prune"
  /\ pc' = "read"
  /\ \/ /\ ~ctxDone
        /\ rows' = [f \in Files |-> IF f \in walked THEN rows[f] ELSE NoRow]
        /\ UNCHANGED clean
     \/ /\ HasRow \ walked # {}
        /\ clean' = FALSE
        /\ UNCHANGED rows
     \/ ctxDone /\ UNCHANGED <<rows, clean>>
  /\ UNCHANGED <<tree, dirRows, pkgRows, localVars, fresh, called, runs, edits>>

\* The readers are independent goroutines: any order.
ReadFile(f) ==
  /\ pc = "read" /\ ~ctxDone
  /\ f \in targets /\ read[f] = "unread"
  /\ \/ /\ read' = [read EXCEPT ![f] = tree[f]]
        /\ UNCHANGED clean
     \/ /\ f \in Present
        /\ read' = [read EXCEPT ![f] = None]
        /\ clean' = FALSE
  /\ UNCHANGED <<tree, storeVars, pc, mode, walked, targets, trivial, poolVars, ctxDone,
                 indexed, fresh, called, runs, edits>>

ReadAborts ==
  /\ pc = "read" /\ ctxDone
  /\ \E f \in targets : read[f] = "unread"
  /\ Exit
  /\ UNCHANGED <<tree, storeVars, clean, fresh, called, runs, edits>>

\* The content-hash guard: a lookup that fails guards nothing.  It fails here when
\* ctx is done; a failure of the database itself is left out.
Split ==
  /\ pc = "read"
  /\ \A f \in targets : read[f] # "unread"
  /\ LET got == {f \in targets : read[f] # None}
         changed == {f \in got : mode = "full" \/ ctxDone \/ ~UpToDate(f, read[f])}
         small == {f \in changed : read[f] \in Trivial}
     IN  /\ trivial' = small
         /\ batches' = BuildBatches(changed \ small)
  /\ worker' = [b \in DOMAIN batches' |-> [phase |-> "queued", left |-> {}]]
  /\ pc' = "trivial"
  /\ UNCHANGED <<tree, storeVars, mode, walked, targets, read, launched, channel, closed,
                 groupGone, ctxDone, indexed, clean, fresh, called, runs, edits>>

UpsertTrivial ==
  /\ pc = "trivial"
  /\ \E f \in Lowest(trivial) :
       /\ Upsert(f, None)
       /\ trivial' = trivial \ {f}
  /\ UNCHANGED <<tree, dirRows, pkgRows, pc, mode, walked, targets, read, poolVars,
                 ctxDone, fresh, called, runs, edits>>

\* indexPaths returns: IndexDiff returns with it, IndexRepo goes on.
PathsIndexed ==
  \/ /\ mode = "diff"
     /\ Exit
  \/ /\ mode # "diff"
     /\ pc' = "manifests"
     /\ UNCHANGED localVars

TrivialDone ==
  /\ pc = "trivial" /\ trivial = {}
  /\ IF batches = << >>
     THEN PathsIndexed
     ELSE pc' = "launch" /\ UNCHANGED localVars
  /\ UNCHANGED <<tree, storeVars, clean, fresh, called, runs, edits>>

\* g.Go blocks while Workers batches are in flight; nothing is drained until
\* the last batch is launched.
Launch ==
  /\ pc = "launch"
  /\ Cardinality(Active) < Workers
  /\ launched' = launched + 1
  /\ worker' = [worker EXCEPT ![launched + 1].phase = "started"]
  /\ pc' = IF launched' = Len(batches) THEN "drain" ELSE "launch"
  /\ UNCHANGED <<tree, storeVars, mode, walked, targets, read, trivial, batches, channel,
                 closed, groupGone, ctxDone, indexed, clean, fresh, called, runs, edits>>

Drain ==
  /\ pc = "drain" /\ channel # << >>
  /\ Upsert(Head(channel), read[Head(channel)])
  /\ channel' = Tail(channel)
  /\ UNCHANGED <<tree, dirRows, pkgRows, pc, mode, walked, targets, read, trivial, batches,
                 launched, worker, closed, groupGone, ctxDone, fresh, called, runs, edits>>

DrainEnds ==
  /\ pc = "drain" /\ channel = << >> /\ closed
  /\ IF ctxDone THEN Exit ELSE PathsIndexed
  /\ UNCHANGED <<tree, storeVars, clean, fresh, called, runs, edits>>

\* A manifest is replaced only when the pass has rows for it: `bad` are those
\* it could not read or parse.
ManifestPass ==
  /\ pc = "manifests"
  /\ pc' = "dirs"
  /\ \E bad \in SUBSET (Manifests \intersect walked), upserted, cleared \in BOOLEAN :
       LET parsed == {f \in (Manifests \intersect walked) \ bad :
                        f \in Present /\ tree[f] \notin NoDeps}
           ok == upserted /\ (ctxDone => parsed = {})
       IN  /\ pkgRows' = [f \in Files |->
                CASE ok /\ f \in parsed -> tree[f]
                  [] ok /\ cleared /\ ~ctxDone /\ f \notin walked -> None
                  [] OTHER -> pkgRows[f]]
           /\ clean' = (clean /\ bad = {} /\ upserted /\ cleared)
  /\ UNCHANGED <<tree, rows, dirRows, localVars, fresh, called, runs, edits>>

DirectoryPass_Always ==
  /\ pc = "dirs"
  /\ LET asked == IF ctxDone THEN {}
                  ELSE {DirOf[f] : f \in {g \in HasRow : rows[g].summary # None}}
     IN  /\ called' = (called \/ asked # {})
         /\ \E answered \in SUBSET asked :
              /\ dirRows' = dirRows \union answered
              /\ clean' = (clean /\ answered = asked)
  /\ Exit
  /\ UNCHANGED <<tree, rows, pkgRows, fresh, runs, edits>>

\* The directory pass runs only when this run persisted a file; a batch of it
\* may fail or leave directories out.
DirectoryPass ==
  /\ pc = "dirs"
  /\ LET asked == IF indexed = 0 \/ ctxDone THEN {}
                  ELSE {DirOf[f] : f \in {g \in HasRow : rows[g].summary # None}}
     IN  /\ called' = (called \/ asked # {})
         /\ \E answered \in SUBSET asked :
              /\ dirRows' = dirRows \union answered
              /\ clean' = (clean /\ answered = asked)
  /\ Exit
  /\ UNCHANGED <<tree, rows, pkgRows, fresh, runs, edits>>

-----------------------------------------------------------------------------
(* The batch goroutines.                                                   *)

SetWorker(b, phase, left) ==
  worker' = [worker EXCEPT ![b] = [phase |-> phase, left |-> left]]

CallModel(b) ==
  /\ worker[b].phase = "started"
  /\ IF GroupDone
     THEN SetWorker(b, "dropped", {}) /\ groupGone' = TRUE /\ UNCHANGED called
     ELSE SetWorker(b, "calling", {}) /\ called' = TRUE /\ UNCHANGED groupGone
  /\ UNCHANGED <<tree, storeVars, pc, mode, walked, targets, read, trivial, batches,
                 launched, channel, closed, ctxDone, indexed, clean, fresh, runs, edits>>

\* The answer covers any part of the batch.
ModelAnswers(b) ==
  /\ worker[b].phase = "calling"
  /\ \E S \in SUBSET batches[b] :
       /\ SetWorker(b, IF S = {} THEN "finished" ELSE "sending", S)
       /\ clean' = (clean /\ S = batches[b])
  /\ UNCHANGED <<tree, storeVars, pc, mode, walked, targets, read, trivial, batches,
                 launched, channel, closed, groupGone, ctxDone, indexed, fresh, called,
                 runs, edits>>

\* The request fails: its own error, its own timeout (context.DeadlineExceeded
\* of the client's per-request deadline), or the cancelled group.
ModelFails(b) ==
  /\ worker[b].phase = "calling"
  /\ \/ SetWorker(b, "failed", {}) /\ groupGone' \in {groupGone, TRUE}
     \/ GroupDone /\ SetWorker(b, "dropped", {}) /\ groupGone' = TRUE
  /\ clean' = FALSE
  /\ UNCHANGED <<tree, storeVars, pc, mode, walked, targets, read, trivial, batches,
                 launched, channel, closed, ctxDone, indexed, fresh, called, runs, edits>>

SendResult(b) ==
  /\ worker[b].phase = "sending"
  /\ Len(channel) < Capacity
  /\ \E f \in Lowest(worker[b].left) :
       LET left == worker[b].left \ {f}
       IN  /\ channel' = Append(channel, f)
           /\ SetWorker(b, IF left = {} THEN "finished" ELSE "sending", left)
  /\ UNCHANGED <<tree, storeVars, pc, mode, walked, targets, read, trivial, batches,
                 launched, closed, groupGone, ctxDone, indexed, clean, fresh, called,
                 runs, edits>>

CloseResults_NoWait ==
  /\ pc = "drain" /\ ~closed
  /\ closed' = TRUE
  /\ UNCHANGED <<tree, storeVars, pc, mode, walked, targets, read, trivial, batches,
                 launched, worker, channel, groupGone, ctxDone, indexed, clean, fresh,
                 called, runs, edits>>

\* g.Wait returned.
CloseResults ==
  /\ pc = "drain" /\ ~closed
  /\ \A b \in DOMAIN batches : worker[b].phase \in Over
  /\ closed' = TRUE
  /\ UNCHANGED <<tree, storeVars, pc, mode, walked, targets, read, trivial, batches,
                 launched, worker, channel, groupGone, ctxDone, indexed, clean, fresh,
                 called, runs, edits>>

-----------------------------------------------------------------------------
(* The run's surroundings.                                                 *)

Edit(f, c) ==
  /\ edits < MaxEdits /\ c # tree[f]
  /\ edits' = edits + 1
  /\ tree' = [tree EXCEPT ![f] = c]
  /\ clean' = FALSE /\ fresh' = FALSE
  /\ UNCHANGED <<storeVars, pc, localVars, called, runs>>

CancelContext ==
  /\ pc # "exited" /\ ~ctxDone
  /\ ctxDone' = TRUE /\ clean' = FALSE
  /\ UNCHANGED <<tree, storeVars, pc, mode, walked, targets, read, trivial, poolVars,
                 indexed, fresh, called, runs, edits>>

\* The process is killed; what was committed stays.
Crash ==
  /\ pc # "exited"
  /\ Exit
  /\ clean' = FALSE
  /\ UNCHANGED <<tree, storeVars, fresh, called, runs, edits>>

MainStep ==
  \/ Walk \/ Prune \/ (\E f \in Files : ReadFile(f)) \/ ReadAborts \/ Split
  \/ UpsertTrivial \/ TrivialDone \/ Launch \/ Drain \/ DrainEnds
  \/ ManifestPass \/ DirectoryPass

WorkerStep(b) ==
  b \in DOMAIN batches /\ (CallModel(b) \/ ModelAnswers(b) \/ ModelFails(b) \/ SendResult(b))

Next ==
  \/ StartRepo \/ StartDiff \/ StartReview
  \/ MainStep \/ CloseResults \/ CancelContext \/ Crash
  \/ \E b \in Files : WorkerStep(b)
  \/ \E f \in Files, c \in Contents \union {None} : Edit(f, c)

Spec == Init /\ [][Next]_vars

\* Every file and store operation returns, every model request ends by the
\* client's timeout, and the scheduler runs every goroutine.
Fairness ==
  WF_vars(MainStep) /\ WF_vars(CloseResults) /\ \A b \in Files : WF_vars(WorkerStep(b))
FairSpec == Spec /\ Fairness

-----------------------------------------------------------------------------
(* Properties.                                                             *)

\* A row's summary tells of the content its hash names, whatever was edited
\* while the model was answering.  A row that failed this would never be
\* repaired: the content-hash guard (readAndSplit) would skip the file.
SummaryMatchesHash ==
  \A f \in HasRow : rows[f].summary = IF rows[f].hash \in Trivial THEN None ELSE rows[f].hash

\* Whatever earlier runs left behind (crashes, failed batches, failed writes,
\* stale and removed files), one undisturbed IndexRepo over it makes the files
\* table mirror the tree: "a partial-crash indexing run can resume where it
\* left off by matching content hashes" (store.go:18-20).
CleanRunIsExact ==
  pc = "exited" /\ clean /\ mode # "diff" =>
    \A f \in Files : rows[f].hash = IF f \in Indexable THEN tree[f] ELSE None

\* A re-index of an unchanged tree sends nothing to the model (IndexRepo's
\* "a no-change re-index issues zero LLM calls", indexer.go:121-123).
NoChangeIsFree == fresh /\ mode = "repo" => ~called

\* A row goes away only when the listing of an IndexRepo run lacks its path:
\* no failed batch, failed write or partial run (IndexDiff) takes one away.
RowsOutliveFailures ==
  [][\A f \in HasRow : rows'[f] = NoRow => pc = "prune" /\ f \notin walked]_vars

\* resultCh is closed only after the last send: a goroutine still sending
\* would panic and take the process down.
NoSendAfterClose == closed => Active = {}

\* A producer always has room in resultCh (indexer.go:202-209).  It has to:
\* nobody drains until every batch is launched, and g.Go launches none while
\* the slots are held by producers waiting for room.
SendersNeverBlock ==
  \A b \in DOMAIN batches : worker[b].phase = "sending" => Len(channel) < Capacity

\* Every run ends, whatever fails, is cancelled or times out in it.
RunEnds == pc # "exited" ~> pc = "exited"

\* "Errors inside a batch are swallowed - one bad batch doesn't nuke the whole
\* run. Only ctx.Canceled propagates." (indexer.go:196-198): while the caller
\* has not cancelled, no batch is dropped because of another batch's failure.
BadBatchIsolated == ~ctxDone => \A b \in DOMAIN batches : worker[b].phase # "dropped"

\* "a partial-crash indexing run can resume where it left off" (store.go:18-20):
\* an undisturbed IndexRepo leaves no summarized directory without its row.
DirectoriesResume ==
  pc = "exited" /\ clean /\ mode # "diff" =>
    \A f \in HasRow : rows[f].summary # None => DirOf[f] \in dirRows

\* "lets one call re-mirror a manifest after re-parse" (sqlite_store.go:
\* UpsertManifestPackages): after an undisturbed IndexRepo the packages stored
\* for a manifest are the ones it declares.
ManifestsMirrored ==
  pc = "exited" /\ clean /\ mode # "diff" =>
    \A f \in Manifests : pkgRows[f] = IF tree[f] \in NoDeps THEN None ELSE tree[f]
=============================================================================
