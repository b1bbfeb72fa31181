----------------------------- MODULE SessionLog -----------------------------
(***************************************************************************)
(* The JSONL log of a review, internal/session: every model request, its   *)
(* answer or error and every tool call of a run become one line each,      *)
(* chained by parentUuid, between a session_start and a session_end.       *)
(*                                                                         *)
(* The writers are the review's main goroutine and the background          *)
(* compressions, which may outlive both the conversation they were started *)
(* for and, when the review returns an error, Session.Close.  The file     *)
(* outlives the process: a run killed in the middle of a line may be       *)
(* resumed, and the next run appends to the same file.                     *)
(***************************************************************************)
EXTENDS Integers, Sequences, FiniteSets

CONSTANTS
  NumFiles,    \* reviewed files, in order: their paths are the task keys
  NumJobs,     \* background compressions alive at once
  MaxRuns,     \* bound: processes that open the session, one after another
  MaxRecords,  \* bound: no request or tool call starts after this many records
  MaxFaults    \* bound: killed processes and failed writes

ASSUME BoundsAssumption ==
  /\ NumFiles \in Nat \ {0} /\ NumJobs \in Nat /\ MaxRuns \in Nat
  /\ MaxRecords \in Nat /\ MaxFaults \in Nat

Main == 0
Jobs == 1..NumJobs
Writers == 0..NumJobs
Files == 1..NumFiles
Tasks == {"main_task", "memory_compression_task"}

VARIABLES
  disk,      \* the file: records, torn records and newlines
  run,       \* the process that has the session open, or opened it last
  open,      \* the file is open and no write to it has failed
  buffer,    \* what bufio holds
  lastUUID,  \* Session.lastUUID
  minted,    \* uuids handed out so far
  numbers,   \* taskRecords: the last request number of each file and task
  seen,      \* keys of fileSessions
  failures,  \* llmFailures
  writer,    \* where each goroutine is, and what it is logging
  pending,   \* the background compression of the conversation, 0 for none
  faults

sessionVars == <<open, buffer, lastUUID, minted>>
countVars == <<numbers, seen, failures>>
vars == <<disk, run, sessionVars, countVars, writer, pending, faults>>

\* A piece of the file.  A newline is a piece of its own since it is written
\* after its record, and a torn record is what a write cut short leaves.
Piece == [type : {"session_start", "llm_request", "llm_response", "llm_error",
                  "tool_call", "session_end", "torn", "newline"},
          run : 0..MaxRuns, uuid : Nat, parent : Nat,
          file : 0..NumFiles, task : Tasks \union {"none"}, no : Nat, errors : Nat, files : Nat]
Mark(type) == [type |-> type, run |-> 0, uuid |-> 0, parent |-> 0, file |-> 0,
               task |-> "none", no |-> 0, errors |-> 0, files |-> 0]
Newline == Mark("newline")
Torn == Mark("torn")
IsRecord(p) == p.type \notin {"torn", "newline"}

Places == {"off", "idle", "numbered", "asked", "failing", "answered", "waiting",
           "closing", "exiting"}
Writer == [at : Places, file : Files, task : Tasks, no : Nat]
Off == [at |-> "off", file |-> 1, task |-> "main_task", no |-> 0]

TypeOK ==
  /\ disk \in Seq(Piece) /\ buffer \in Seq(Piece)
  /\ run \in 0..MaxRuns /\ open \in BOOLEAN
  /\ minted \in Nat /\ lastUUID \in 0..minted
  /\ numbers \in [Files \X Tasks -> Nat]
  /\ seen \subseteq Files /\ failures \in Nat
  /\ writer \in [Writers -> Writer]
  /\ pending \in 0..NumJobs
  /\ faults \in 0..MaxFaults

-----------------------------------------------------------------------------
(* Records and writes *)

\* newBaseLocked, called with the lock held: the header of the next record.
Record(type, w) ==
  [type |-> type, run |-> run, uuid |-> minted + 1, parent |-> lastUUID,
   file |-> writer[w].file, task |-> writer[w].task,
   no |-> IF type \in {"llm_request", "llm_error"} THEN writer[w].no ELSE 0,
   errors |-> 0, files |-> 0]
SessionStart ==
  [type |-> "session_start", run |-> run + 1, uuid |-> minted + 1, parent |-> 0,
   file |-> 0, task |-> "none", no |-> 0, errors |-> 0, files |-> 0]
SessionEnd ==
  [type |-> "session_end", run |-> run, uuid |-> minted + 1, parent |-> lastUUID,
   file |-> 0, task |-> "none", no |-> 0, errors |-> failures, files |-> Cardinality(seen)]

\* What a write of these pieces has reached when it is stopped inside.
CutShort(pieces) ==
  {SubSeq(pieces, 1, i) : i \in 0..(Len(pieces) - 1)}
    \union {SubSeq(pieces, 1, i) \o <<Torn>> : i \in {i \in 0..(Len(pieces) - 1) : IsRecord(pieces[i + 1])}}

\* Mutant of Commit: the record waits in the buffer.
Commit_NoFlush(rec) ==
  /\ lastUUID' = rec.uuid /\ minted' = minted + 1
  /\ IF ~open THEN UNCHANGED <<disk, open, buffer, faults>>
     ELSE /\ buffer' = buffer \o <<rec, Newline>>
          /\ UNCHANGED <<disk, open, faults>>

\* Mutant of Commit: a failed write is not remembered.
Commit_NotSticky(rec) ==
  /\ lastUUID' = rec.uuid /\ minted' = minted + 1
  /\ IF ~open THEN UNCHANGED <<disk, open, buffer, faults>>
     ELSE LET line == buffer \o <<rec, Newline>> IN
          \/ /\ disk' = disk \o line
             /\ buffer' = << >>
             /\ UNCHANGED <<open, faults>>
          \/ /\ faults < MaxFaults /\ faults' = faults + 1
             /\ \E part \in CutShort(line) : disk' = disk \o part
             /\ buffer' = << >>
             /\ UNCHANGED open

\* Mutant of Commit: the record goes out without its newline.
Commit_NoNewline(rec) ==
  /\ lastUUID' = rec.uuid /\ minted' = minted + 1
  /\ IF ~open THEN UNCHANGED <<disk, open, buffer, faults>>
     ELSE /\ disk' = disk \o buffer \o <<rec>>
          /\ buffer' = << >>
          /\ UNCHANGED <<open, faults>>

\* commitLocked: write and flush.  bufio remembers a failed write and refuses
\* every later one, as does a closed file; the chain moves on regardless.
Commit(rec) ==
  /\ lastUUID' = rec.uuid /\ minted' = minted + 1
  /\ IF ~open THEN UNCHANGED <<disk, open, buffer, faults>>
     ELSE LET line == buffer \o <<rec, Newline>> IN
          \/ /\ disk' = disk \o line
             /\ buffer' = << >>
             /\ UNCHANGED <<open, faults>>
          \/ /\ faults < MaxFaults /\ faults' = faults + 1
             /\ \E part \in CutShort(line) : disk' = disk \o part
             /\ open' = FALSE /\ buffer' = << >>

\* A goroutine keeps the number of its request until it is answered.
Goes(w, to) ==
  writer' = [writer EXCEPT ![w] =
    CASE to = "off" -> Off
      [] to \in {"asked", "failing"} -> [@ EXCEPT !.at = to]
      [] OTHER -> [@ EXCEPT !.at = to, !.task = "main_task", !.no = 0]]
InMain(w) == w = Main /\ writer[w].task = "main_task"

\* Where a goroutine goes on after its request was answered or failed.  A
\* failed MAIN_TASK request ends the review, except that of the grace round.
AfterAnswer(w) == IF w # Main THEN "off" ELSE IF InMain(w) THEN "answered" ELSE "idle"
AfterError(w) == IF w # Main THEN {"off"} ELSE IF InMain(w) THEN {"closing", "idle"} ELSE {"idle"}

-----------------------------------------------------------------------------
(* The session *)

Init ==
  /\ disk = << >> /\ run = 0
  /\ open = FALSE /\ buffer = << >> /\ lastUUID = 0 /\ minted = 0
  /\ numbers = [k \in Files \X Tasks |-> 0] /\ seen = {} /\ failures = 0
  /\ writer = [w \in Writers |-> Off] /\ pending = 0
  /\ faults = 0

\* New: session_start stays in the buffer.
New ==
  /\ writer[Main].at = "off" /\ run < MaxRuns
  /\ run' = run + 1
  /\ open' = TRUE /\ buffer' = <<SessionStart, Newline>>
  /\ lastUUID' = minted + 1 /\ minted' = minted + 1
  /\ writer' = [writer EXCEPT ![Main].at = "idle"]
  /\ UNCHANGED <<disk, countVars, pending, faults>>

\* Mutant of Close: the file stays open for whoever still holds the session.
Close_LeavesOpen ==
  /\ writer[Main].at = "closing"
  /\ Goes(Main, "exiting")
  /\ Commit(SessionEnd)
  /\ UNCHANGED <<run, countVars, pending>>

Close ==
  /\ writer[Main].at = "closing"
  /\ Goes(Main, "exiting")
  /\ LET line == buffer \o <<SessionEnd, Newline>> IN
       \/ /\ disk' = IF open THEN disk \o line ELSE disk
          /\ UNCHANGED faults
       \/ /\ open /\ faults < MaxFaults /\ faults' = faults + 1
          /\ \E part \in CutShort(line) : disk' = disk \o part
  /\ open' = FALSE /\ buffer' = << >>
  /\ lastUUID' = minted + 1 /\ minted' = minted + 1
  /\ UNCHANGED <<run, countVars, pending>>

\* The process ends, or is killed between two writes or inside one.
Dies ==
  /\ writer' = [w \in Writers |-> Off]
  /\ pending' = 0
  /\ open' = FALSE /\ buffer' = << >> /\ lastUUID' = 0
  /\ numbers' = [k \in Files \X Tasks |-> 0] /\ seen' = {} /\ failures' = 0
  /\ UNCHANGED <<run, minted>>

Exit ==
  /\ writer[Main].at = "exiting"
  /\ Dies
  /\ UNCHANGED <<disk, faults>>

Writing(w) ==
  CASE writer[w].at = "numbered" -> {Record("llm_request", w)}
    [] writer[w].at = "asked" -> {Record("llm_response", w)}
    [] writer[w].at = "failing" -> {Record("llm_error", w)}
    [] writer[w].at = "answered" -> {Record("tool_call", w)}
    [] writer[w].at = "closing" -> {SessionEnd}
    [] OTHER -> {}

Kill ==
  /\ writer[Main].at # "off" /\ faults < MaxFaults
  /\ faults' = faults + 1
  /\ \/ UNCHANGED disk
     \/ /\ open
        /\ \E w \in Writers : \E rec \in Writing(w) :
             \E part \in CutShort(buffer \o <<rec, Newline>>) : disk' = disk \o part
  /\ Dies

-----------------------------------------------------------------------------
(* The requests of a conversation *)

Asks(w, task, f) ==
  /\ minted < MaxRecords
  /\ seen' = seen \union {f}
  /\ numbers' = [numbers EXCEPT ![<<f, task>>] = @ + 1]
  /\ writer' = [writer EXCEPT ![w] = [at |-> "numbered", file |-> f, task |-> task,
                                      no |-> numbers[<<f, task>>] + 1]]

\* Mutant of MainRequest: the number is given without being counted.
MainRequest_Uncounted ==
  /\ writer[Main].at = "idle"
  /\ minted < MaxRecords
  /\ seen' = seen \union {writer[Main].file}
  /\ writer' = [writer EXCEPT ![Main].at = "numbered", ![Main].task = "main_task",
                              ![Main].no = numbers[<<writer[Main].file, "main_task">>] + 1]
  /\ UNCHANGED <<disk, run, sessionVars, numbers, failures, pending, faults>>

\* AppendTaskRecord takes its number under the lock of the file session and
\* writes it under the session's.
MainRequest ==
  /\ writer[Main].at = "idle"
  /\ Asks(Main, "main_task", writer[Main].file)
  /\ UNCHANGED <<disk, run, sessionVars, failures, pending, faults>>

\* An inline compression, after the background one has been cancelled.
InlineCompression ==
  /\ writer[Main].at = "idle"
  /\ Asks(Main, "memory_compression_task", writer[Main].file)
  /\ pending' = 0
  /\ UNCHANGED <<disk, run, sessionVars, failures, faults>>

\* The job logs its request some time after it was started, and may have been
\* cancelled by then; one that was applied or failed makes room for another.
StartJob(j) ==
  /\ writer[Main].at = "idle" /\ writer[j].at = "off"
  /\ pending = 0 \/ writer[pending].at = "off"
  /\ pending' = j
  /\ writer' = [writer EXCEPT ![j] = [at |-> "idle", file |-> writer[Main].file,
                                      task |-> "memory_compression_task", no |-> 0]]
  /\ UNCHANGED <<disk, run, sessionVars, countVars, faults>>

JobRequest(j) ==
  /\ writer[j].at = "idle"
  /\ Asks(j, "memory_compression_task", writer[j].file)
  /\ UNCHANGED <<disk, run, sessionVars, failures, pending, faults>>

AppendTaskRecord(w) ==
  /\ writer[w].at = "numbered"
  /\ Goes(w, "asked")
  /\ Commit(Record("llm_request", w))
  /\ UNCHANGED <<run, countVars, pending>>

SetResponse(w) ==
  /\ writer[w].at = "asked"
  /\ Goes(w, AfterAnswer(w))
  /\ Commit(Record("llm_response", w))
  /\ UNCHANGED <<run, countVars, pending>>

\* Mutant of CountFailure: a failed request is logged and not counted.
CountFailure_Later(w) ==
  /\ writer[w].at = "asked"
  /\ Goes(w, "failing")
  /\ UNCHANGED <<disk, run, sessionVars, countVars, pending, faults>>

\* SetError counts the failure before it takes the lock.
CountFailure(w) ==
  /\ writer[w].at = "asked"
  /\ Goes(w, "failing")
  /\ failures' = failures + 1
  /\ UNCHANGED <<disk, run, sessionVars, numbers, seen, pending, faults>>

SetError(w) ==
  /\ writer[w].at = "failing"
  /\ \E to \in AfterError(w) :
       /\ Goes(w, to)
       /\ pending' = IF to = "closing" THEN 0 ELSE pending
  /\ Commit(Record("llm_error", w))
  /\ UNCHANGED <<run, countVars>>

ToolCall ==
  /\ writer[Main].at = "answered" /\ minted < MaxRecords
  /\ Goes(Main, "answered")
  /\ Commit(Record("tool_call", Main))
  /\ UNCHANGED <<run, countVars, pending>>

TurnEnds ==
  /\ writer[Main].at = "answered"
  /\ Goes(Main, "idle")
  /\ UNCHANGED <<disk, run, sessionVars, countVars, pending, faults>>

\* RunMainTask returns: the next file, the wait for background jobs after the
\* last one, or, on an error that was not a request's, straight to Close.
ConversationEnds ==
  /\ writer[Main].at = "idle"
  /\ pending' = 0
  /\ writer' = [writer EXCEPT ![Main] =
       IF @.file < NumFiles THEN [@ EXCEPT !.file = writer[Main].file + 1] ELSE [@ EXCEPT !.at = "waiting"]]
  /\ UNCHANGED <<disk, run, sessionVars, countVars, faults>>

ConversationFails ==
  /\ writer[Main].at \in {"idle", "answered"}
  /\ pending' = 0
  /\ Goes(Main, "closing")
  /\ UNCHANGED <<disk, run, sessionVars, countVars, faults>>

WaitBackground ==
  /\ writer[Main].at = "waiting"
  /\ \A j \in Jobs : writer[j].at = "off"
  /\ Goes(Main, "closing")
  /\ UNCHANGED <<disk, run, sessionVars, countVars, pending, faults>>

Next ==
  \/ New \/ Close \/ Exit \/ Kill
  \/ MainRequest \/ InlineCompression \/ ToolCall \/ TurnEnds
  \/ ConversationEnds \/ ConversationFails \/ WaitBackground
  \/ \E j \in Jobs : StartJob(j) \/ JobRequest(j)
  \/ \E w \in Writers : AppendTaskRecord(w) \/ SetResponse(w) \/ CountFailure(w) \/ SetError(w)

Spec == Init /\ [][Next]_vars

-----------------------------------------------------------------------------
(* Properties *)

Whole == {i \in DOMAIN disk : IsRecord(disk[i])}
WholeOf(r) == {i \in Whole : disk[i].run = r}

\* "parent_uuid: UUID of the record before it, forming a chain. session_start
\* has no parent" (docs-site session-log.mdx): every whole record in the file
\* names the one before it of its run, whichever goroutine wrote that, and
\* whatever write failed.
ChainUnbroken ==
  \A i \in Whole :
    LET before == {k \in WholeOf(disk[i].run) : k < i} IN
      IF before = {} THEN disk[i].type = "session_start" /\ disk[i].parent = 0
      ELSE \E k \in before : disk[i].parent = disk[k].uuid /\ \A m \in before : m <= k

\* session_end is the last record of its run: a background compression that
\* outlives Close leaves nothing behind it.
EndIsLast ==
  \A i \in Whole : disk[i].type = "session_end" =>
    \A k \in WholeOf(disk[i].run) : k <= i

\* session_end accounts for every failed request and every file the log of
\* the run shows, those of goroutines still running included.
EndCountsAll ==
  \A i \in Whole : disk[i].type = "session_end" =>
    LET others == WholeOf(disk[i].run) IN
      /\ Cardinality({k \in others : disk[k].type = "llm_error"}) <= disk[i].errors
      /\ Cardinality({disk[k].file : k \in others} \ {0}) <= disk[i].files

\* A request number names one request of its run, file and task, although
\* the numbers of inline and background compressions come from one counter.
NumbersUnique ==
  \A i, k \in Whole :
    /\ disk[i].type = "llm_request" /\ disk[k].type = "llm_request"
    /\ disk[i].run = disk[k].run /\ disk[i].file = disk[k].file /\ disk[i].task = disk[k].task
    /\ disk[i].no = disk[k].no
    => i = k

\* "the session log then witnesses the request even if the process dies
\* mid-call" (compression.go:242-243): while a request is with the model, its
\* record is in the file as a line of its own, unless a write had failed.
RequestWitnessed ==
  \A w \in Writers : open /\ writer[w].at = "asked" =>
    \E i \in Whole :
      /\ disk[i].type = "llm_request" /\ disk[i].run = run
      /\ disk[i].file = writer[w].file /\ disk[i].task = writer[w].task
      /\ disk[i].no = writer[w].no
      /\ i < Len(disk) /\ disk[i + 1] = Newline

\* A line of the file, named by its first piece, parses when it is one record.
Lines == {i \in DOMAIN disk : disk[i] # Newline /\ (i = 1 \/ disk[i - 1] = Newline)}
Unreadable(i) == disk[i] = Torn \/ (i < Len(disk) /\ disk[i + 1] # Newline)

\* However often a session is killed and resumed, each kill or failed write
\* spoils at most one line.
OneLinePerFault == Cardinality({i \in Lines : Unreadable(i)}) <= faults

-----------------------------------------------------------------------------
(* Claims of documents and comments that the runs refute *)

\* session-log.mdx:44-46: "A crash mid-run leaves at most one truncated line
\* at the tail": a whole record is on a line of its own.
PriorRecordsIntact ==
  \A i \in Whole : (i = 1 \/ disk[i - 1] = Newline) /\ (i = Len(disk) \/ disk[i + 1] = Newline)

\* session-log.mdx:70-72: a resume "has no effect if the log has a
\* session_end record".
EndedStaysEnded ==
  \A i \in Whole : disk[i].type = "session_end" => i = Len(disk) \/ i + 1 = Len(disk)

\* file_session.go:19-21: the records of one task "stay numbered sequentially".
NumberedInOrder ==
  \A i, k \in Whole :
    /\ disk[i].type = "llm_request" /\ disk[k].type = "llm_request"
    /\ disk[i].run = disk[k].run /\ disk[i].file = disk[k].file /\ disk[i].task = disk[k].task
    /\ i < k
    => disk[i].no < disk[k].no
=============================================================================
