----------------------------- MODULE AgentLoop ------------------------------
(***************************************************************************)
(* The review agent's conversation loop, internal/llmloop: RunMainTask     *)
(* (loop.go) and the memory compression that keeps its conversation under  *)
(* the model's context window (compression.go).                            *)
(*                                                                         *)
(* Two kinds of goroutine interleave.  The loop sends the conversation to  *)
(* the model, executes the tool calls of the answer and appends them; when *)
(* the conversation passes the soft limit it starts a background job that  *)
(* summarises a snapshot of it, and when it passes the warning limit it    *)
(* cancels that job and summarises inline.  A finished job is spliced into *)
(* a conversation that has grown since the snapshot was taken.             *)
(*                                                                         *)
(* A message is its number: log[i] holds the role and the token count of   *)
(* the i-th message ever appended.  A view of the conversation is what     *)
(* `messages` holds: head is the size of messages[0:2] (the frozen zone,   *)
(* with the summaries appended to the user prompt), sum the messages those *)
(* summaries stand for, tail the messages after the frozen zone.           *)
(***************************************************************************)
EXTENDS Integers, Sequences, FiniteSets, FiniteSetsExt

CONSTANTS
  MaxTokens,            \* Template.MaxTokens
  MaxToolRequestTimes,  \* Template.MaxToolRequestTimes
  MaxConsecutiveEmpty,  \* maxConsecutiveEmptyRounds
  HasTemplate,          \* Template.MemoryCompressionTask.Messages is not empty
  HasGraceTools,        \* graceRoundToolDefs returns at least one tool
  PromptSizes,          \* token counts of the initial prompt pair
  MessageSizes,         \* token counts of one appended message
  SummarySizes,         \* token counts of one summary
  MaxCalls              \* bound: tool calls in one answer

ASSUME LimitsAssumption ==
  /\ MaxTokens \in Nat
  /\ MaxToolRequestTimes \in Nat
  /\ MaxConsecutiveEmpty \in Nat
  /\ MaxCalls \in Nat \ {0}
ASSUME FlagsAssumption == HasTemplate \in BOOLEAN /\ HasGraceTools \in BOOLEAN
ASSUME SizesAssumption ==
  PromptSizes \subseteq Nat /\ MessageSizes \subseteq Nat /\ SummarySizes \subseteq Nat

VARIABLES
  pc,         \* where the loop goroutine is
  budget,     \* toolReqCount
  empties,    \* consecutiveEmptyRounds
  results,    \* number of tool results of the turn being appended
  log,        \* every message appended so far
  messages,   \* the live view
  jobs,       \* the background compression goroutines started so far
  pending,    \* st.pendingJob: an index of jobs, 0 for nil
  cancelled,  \* ctx.Done() is closed
  collected,  \* comments added to the CommentCollector
  outcome     \* what RunMainTask returned

vars == <<pc, budget, empties, results, log, messages, jobs, pending,
          cancelled, collected, outcome>>
jobVars == <<jobs, pending>>
runVars == <<budget, empties, collected, outcome>>

Message == [role : {"user", "assistant", "tool"}, size : MessageSizes]
View == [head : Nat, sum : SUBSET Nat, tail : Seq(Nat)]
NoView == [head |-> 0, sum |-> {}, tail |-> << >>]

\* A running job holds the snapshot it summarises, a ready one the rebuilt
\* conversation (its done channel is closed); a gone one has exited and
\* nothing refers to it.
Job == [phase : {"running", "ready", "gone"}, killed : BOOLEAN,
        snapshotLen : Nat, view : View]
GoneJob == [phase |-> "gone", killed |-> FALSE, snapshotLen |-> 0, view |-> NoView]

Locations == {"loop", "llm", "apply", "sync1", "append", "sync2", "settle",
              "grace", "graceLLM", "returned"}
CallOutcome == {"result", "comment", "empty", "done", "failed"}
Outcomes == {"none", "completed", "error", "max_rounds", "empty_rounds", "compression"}

TypeOK ==
  /\ pc \in Locations
  /\ budget \in 0..MaxToolRequestTimes
  /\ empties \in Nat
  /\ results \in 0..MaxCalls
  /\ log \in Seq(Message)
  /\ messages \in View
  /\ jobs \in Seq(Job)
  /\ pending \in 0..Len(jobs)
  /\ cancelled \in BOOLEAN
  /\ collected \in Nat
  /\ outcome \in Outcomes

-----------------------------------------------------------------------------
(* Token limits and the three zones of a conversation *)

SoftLimit == (MaxTokens * 60) \div 100
WarnLimit == (MaxTokens * 80) \div 100

ZoneTokens(lg, t, zone) == MapThenSumSet(LAMBDA i : lg[t[i]].size, zone)
CountTokens(lg, m) == m.head + ZoneTokens(lg, m.tail, DOMAIN m.tail)

\* groupIntoRounds: a round is named by the place of its assistant message
\* and owns the tool results that follow it.
Rounds(lg, t) == {i \in DOMAIN t : lg[t[i]].role = "assistant"}
RoundAt(lg, t, i) == {k \in i..Len(t) : \A j \in (i + 1)..k : lg[t[j]].role = "tool"}

\* computeActiveZoneSize: the trailing rounds that together fit the budget.
ActiveRounds(lg, t) ==
  {i \in Rounds(lg, t) :
     ZoneTokens(lg, t, UNION {RoundAt(lg, t, r) : r \in {r \in Rounds(lg, t) : r >= i}})
       <= WarnLimit}

\* Mutant of IsCompressEnd: the compress zone ends at the last old round's
\* assistant message, before its tool results.
IsCompressEnd_SplitsRound(lg, t, e) ==
  LET old == Rounds(lg, t) \ ActiveRounds(lg, t) IN
    IF old = {} THEN e = Len(t) ELSE e \in old /\ \A r \in old : r <= e

\* partitionMessages: e messages of the tail are to be summarised.
IsCompressEnd(lg, t, e) ==
  LET old == Rounds(lg, t) \ ActiveRounds(lg, t) IN
    IF old = {} THEN e = Len(t)
    ELSE \E last \in old :
           /\ \A r \in old : r <= last
           /\ e \in RoundAt(lg, t, last)
           /\ e + 1 \notin RoundAt(lg, t, last)

\* Mutant of Summarised: the rebuilt conversation starts one message early.
Summarised_KeepsOneTooMany(m, e, s) ==
  [head |-> m.head + s,
   sum  |-> m.sum \cup {m.tail[i] : i \in 1..e},
   tail |-> SubSeq(m.tail, e, Len(m.tail))]

Summarised(m, e, s) ==
  [head |-> m.head + s,
   sum  |-> m.sum \cup {m.tail[i] : i \in 1..e},
   tail |-> SubSeq(m.tail, e + 1, Len(m.tail))]

\* runCompression asks the model only when there is a template and something
\* after the frozen zone; otherwise it returns msgs[:min(len(msgs), 2)].
AsksModel(m) == HasTemplate /\ m.tail # << >>

\* The views runCompression may return without an error.
Compressions(lg, m) ==
  IF ~AsksModel(m) THEN {[m EXCEPT !.tail = << >>]}
  ELSE {m} \cup
       {Summarised(m, e, s) :
          e \in {e \in 1..Len(m.tail) : IsCompressEnd(lg, m.tail, e)}, s \in SummarySizes}

Appended(m, new) == [m EXCEPT !.tail = @ \o [i \in 1..Len(new) |-> Len(log) + i]]

-----------------------------------------------------------------------------
(* The pending background job *)

\* cancelPendingCompression
CancelPending ==
  /\ pending' = 0
  /\ jobs' = IF pending = 0 THEN jobs
             ELSE [jobs EXCEPT ![pending] =
                     IF @.phase = "running" THEN [@ EXCEPT !.killed = TRUE] ELSE GoneJob]

\* Mutant of Spliced: the messages appended since the snapshot are forgotten.
Spliced_DropsSuffix(job, m) == job.view

\* tryApplyPendingCompression, for a job whose done channel is closed
Spliced(job, m) ==
  [job.view EXCEPT !.tail = @ \o SubSeq(m.tail, job.snapshotLen + 1, Len(m.tail))]

CanApply == pending # 0 /\ jobs[pending].phase = "ready"

\* Mutant of TriggerAsync: no check that a job is already in flight.
TriggerAsync_Replaces(m) ==
  /\ jobs' = Append(jobs, [phase |-> "running", killed |-> FALSE,
                           snapshotLen |-> Len(m.tail), view |-> m])
  /\ pending' = Len(jobs')

\* triggerAsyncCompression
TriggerAsync(m) ==
  IF pending # 0 THEN UNCHANGED jobVars
  ELSE /\ jobs' = Append(jobs, [phase |-> "running", killed |-> FALSE,
                                snapshotLen |-> Len(m.tail), view |-> m])
       /\ pending' = Len(jobs')

\* The deferred cancelPendingCompression runs on every return.
Return(o) ==
  /\ pc' = "returned"
  /\ outcome' = o
  /\ results' = 0
  /\ CancelPending

-----------------------------------------------------------------------------
(* RunMainTask *)

Init ==
  /\ pc = "loop"
  /\ budget = MaxToolRequestTimes
  /\ empties = 0 /\ results = 0 /\ collected = 0
  /\ log = << >>
  /\ \E p \in PromptSizes : messages = [head |-> p, sum |-> {}, tail |-> << >>]
  /\ jobs = << >> /\ pending = 0
  /\ cancelled = FALSE
  /\ outcome = "none"

SendRequest ==
  /\ pc = "loop" /\ budget > 0 /\ ~cancelled
  /\ budget' = budget - 1
  /\ pc' = "llm"
  /\ UNCHANGED <<empties, results, log, messages, jobVars, cancelled, collected, outcome>>

StopOnCancel ==
  /\ pc = "loop" /\ budget > 0 /\ cancelled
  /\ Return("error")
  /\ UNCHANGED <<budget, empties, log, messages, cancelled, collected>>

RequestFails ==
  /\ pc = "llm"
  /\ Return("error")
  /\ UNCHANGED <<budget, empties, log, messages, cancelled, collected>>

\* An answer without tool calls: its text, when there is any, then a nudge.
\* The round neither counts as empty nor passes through addNextMessage.
AnswerWithoutCalls ==
  /\ pc = "llm"
  /\ \E body \in BOOLEAN, a, u \in MessageSizes :
       LET nudge == [role |-> "user", size |-> u]
           new == IF body THEN <<[role |-> "assistant", size |-> a], nudge>> ELSE <<nudge>>
       IN /\ log' = log \o new
          /\ messages' = Appended(messages, new)
  /\ pc' = "loop"
  /\ UNCHANGED <<results, jobVars, cancelled, runVars>>

CommentsIn(calls, n) == Cardinality({i \in 1..n : calls[i] = "comment"})

\* task_done FAILED aborts the turn at that call.
TaskFailed(calls) ==
  /\ \E f \in DOMAIN calls :
       /\ calls[f] = "failed"
       /\ \A i \in 1..(f - 1) : calls[i] # "failed"
       /\ collected' = collected + CommentsIn(calls, f - 1)
  /\ Return("error")
  /\ UNCHANGED <<budget, empties>>

\* task_done DONE lets the rest of the turn run first.
TaskCompleted(calls) ==
  /\ \A i \in DOMAIN calls : calls[i] # "failed"
  /\ \E i \in DOMAIN calls : calls[i] = "done"
  /\ collected' = collected + CommentsIn(calls, Len(calls))
  /\ Return("completed")
  /\ UNCHANGED <<budget, empties>>

TurnContinues(calls) ==
  /\ \A i \in DOMAIN calls : calls[i] \notin {"failed", "done"}
  /\ collected' = collected + CommentsIn(calls, Len(calls))
  /\ UNCHANGED budget
  /\ LET useful == \E i \in DOMAIN calls : calls[i] # "empty" IN
     /\ empties' = IF useful THEN 0 ELSE empties + 1
     /\ IF ~useful /\ empties' >= MaxConsecutiveEmpty
        THEN Return("empty_rounds")
        ELSE /\ pc' = "apply"
             /\ results' = Len(calls)
             /\ UNCHANGED <<jobVars, outcome>>

AnswerWithCalls ==
  /\ pc = "llm"
  /\ \E n \in 1..MaxCalls : \E calls \in [1..n -> CallOutcome] :
       TaskFailed(calls) \/ TaskCompleted(calls) \/ TurnContinues(calls)
  /\ UNCHANGED <<log, messages, cancelled>>

-----------------------------------------------------------------------------
(* addNextMessage *)

ApplyPending ==
  /\ pc = "apply"
  /\ messages' = IF CanApply THEN Spliced(jobs[pending], messages) ELSE messages
  /\ IF CountTokens(log, messages') > WarnLimit
     THEN CancelPending /\ pc' = "sync1"
     ELSE /\ IF CanApply THEN CancelPending ELSE UNCHANGED jobVars
          /\ pc' = "append"
  /\ UNCHANGED <<results, log, cancelled, runVars>>

\* Mutant of AppendTurn: the background job survives the inline compression.
AppendTurn_KeepsJob ==
  /\ pc = "append"
  /\ \E a \in MessageSizes, s \in [1..results -> MessageSizes] :
       LET new == <<[role |-> "assistant", size |-> a]>>
                  \o [i \in 1..results |-> [role |-> "tool", size |-> s[i]]]
       IN /\ log' = log \o new
          /\ messages' = Appended(messages, new)
  /\ pc' = IF CountTokens(log', messages') > WarnLimit THEN "sync2" ELSE "settle"
  /\ results' = 0
  /\ UNCHANGED <<jobVars, cancelled, runVars>>

AppendTurn ==
  /\ pc = "append"
  /\ \E a \in MessageSizes, s \in [1..results -> MessageSizes] :
       LET new == <<[role |-> "assistant", size |-> a]>>
                  \o [i \in 1..results |-> [role |-> "tool", size |-> s[i]]]
       IN /\ log' = log \o new
          /\ messages' = Appended(messages, new)
  /\ IF CountTokens(log', messages') > WarnLimit
     THEN CancelPending /\ pc' = "sync2"
     ELSE UNCHANGED jobVars /\ pc' = "settle"
  /\ results' = 0
  /\ UNCHANGED <<cancelled, runVars>>

\* The inline runCompression; on an error the conversation is kept as it is.
SyncCompress ==
  /\ \/ pc = "sync1" /\ pc' = "append"
     \/ pc = "sync2" /\ pc' = "settle"
  /\ \/ messages' \in Compressions(log, messages)
     \/ AsksModel(messages) /\ UNCHANGED messages
  /\ UNCHANGED <<results, log, jobVars, cancelled, runVars>>

\* Mutant of Settle: a conversation at exactly the warning limit goes on.
Settle_LimitIncluded ==
  LET count == CountTokens(log, messages) IN
  /\ pc = "settle"
  /\ IF count <= WarnLimit
     THEN /\ pc' = "loop"
          /\ IF count > SoftLimit THEN TriggerAsync(messages) ELSE UNCHANGED jobVars
          /\ UNCHANGED <<results, outcome>>
     ELSE Return("compression")
  /\ UNCHANGED <<budget, empties, log, messages, cancelled, collected>>

Settle ==
  LET count == CountTokens(log, messages) IN
  /\ pc = "settle"
  /\ IF count < WarnLimit
     THEN /\ pc' = "loop"
          /\ IF count > SoftLimit THEN TriggerAsync(messages) ELSE UNCHANGED jobVars
          /\ UNCHANGED <<results, outcome>>
     ELSE Return("compression")
  /\ UNCHANGED <<budget, empties, log, messages, cancelled, collected>>

-----------------------------------------------------------------------------
(* runGraceRound, after the round budget is spent *)

\* Mutant of BudgetSpent: a cancelled context keeps the loop from leaving.
BudgetSpent_NotWhenCancelled ==
  /\ pc = "loop" /\ budget = 0 /\ ~cancelled
  /\ IF HasGraceTools THEN pc' = "grace" /\ UNCHANGED <<results, jobVars, outcome>>
     ELSE Return("max_rounds")
  /\ UNCHANGED <<budget, empties, log, messages, cancelled, collected>>

BudgetSpent ==
  /\ pc = "loop" /\ budget = 0
  /\ IF HasGraceTools THEN pc' = "grace" /\ UNCHANGED <<results, jobVars, outcome>>
     ELSE Return("max_rounds")
  /\ UNCHANGED <<budget, empties, log, messages, cancelled, collected>>

GraceRequest ==
  /\ pc = "grace"
  /\ \E u \in MessageSizes :
       LET new == <<[role |-> "user", size |-> u]>>
       IN /\ log' = log \o new
          /\ messages' = Appended(messages, new)
  /\ IF cancelled THEN Return("max_rounds")
     ELSE pc' = "graceLLM" /\ UNCHANGED <<results, jobVars, outcome>>
  /\ UNCHANGED <<budget, empties, cancelled, collected>>

\* Comments of the grace answer are collected; every other call, task_done
\* included, is executed and ignored, as is a failed request.
GraceAnswer ==
  /\ pc = "graceLLM"
  /\ \E n \in 0..MaxCalls : collected' = collected + n
  /\ Return("max_rounds")
  /\ UNCHANGED <<budget, empties, log, messages, cancelled>>

-----------------------------------------------------------------------------
(* The background goroutine of triggerAsyncCompression *)

\* Mutant of JobReturns: a superseded job waits instead of exiting.
JobReturns_WaitsForOwner(j) ==
  /\ j \in DOMAIN jobs /\ jobs[j].phase = "running"
  /\ pending = j
  /\ \/ /\ \E rebuilt \in Compressions(log, jobs[j].view) :
             jobs' = [jobs EXCEPT ![j].phase = "ready", ![j].view = rebuilt]
        /\ UNCHANGED pending
     \/ /\ AsksModel(jobs[j].view)
        /\ jobs' = [jobs EXCEPT ![j] = GoneJob]
        /\ pending' = 0
  /\ UNCHANGED <<pc, results, log, messages, cancelled, runVars>>

\* Its runCompression returned: it publishes the result if it is still the
\* pending job, and withdraws if the compression failed.
JobReturns(j) ==
  /\ j \in DOMAIN jobs /\ jobs[j].phase = "running"
  /\ \/ /\ pending = j
        /\ \E rebuilt \in Compressions(log, jobs[j].view) :
             jobs' = [jobs EXCEPT ![j].phase = "ready", ![j].view = rebuilt]
        /\ UNCHANGED pending
     \/ /\ pending = j /\ AsksModel(jobs[j].view)
        /\ jobs' = [jobs EXCEPT ![j] = GoneJob]
        /\ pending' = 0
     \/ /\ pending # j
        /\ jobs' = [jobs EXCEPT ![j] = GoneJob]
        /\ UNCHANGED pending
  /\ UNCHANGED <<pc, results, log, messages, cancelled, runVars>>

CancelContext ==
  /\ ~cancelled /\ pc # "returned"
  /\ cancelled' = TRUE
  /\ UNCHANGED <<pc, results, log, messages, jobVars, runVars>>

LoopStep ==
  \/ SendRequest \/ StopOnCancel \/ RequestFails
  \/ AnswerWithoutCalls \/ AnswerWithCalls
  \/ ApplyPending \/ AppendTurn \/ SyncCompress \/ Settle
  \/ BudgetSpent \/ GraceRequest \/ GraceAnswer

\* A round starts at most one job.
JobIds == 1..MaxToolRequestTimes

Next == LoopStep \/ CancelContext \/ \E j \in JobIds : JobReturns(j)

Spec == Init /\ [][Next]_vars

\* Every request to the model has a deadline (the client's request timeout,
\* five minutes for a background job), so both goroutines keep moving.
Fairness == WF_vars(LoopStep) /\ \A j \in JobIds : WF_vars(JobReturns(j))
FairSpec == Spec /\ Fairness

-----------------------------------------------------------------------------
(* Properties *)

\* What the loop implements: the conversation as a log that is only digested
\* from its old end.
T == INSTANCE Transcript WITH MaxBatch <- MaxCalls + 1, written <- Len(log),
       digested <- messages.sum, verbatim <- messages.tail

\* The splice of a background result into a conversation that has moved on
\* (tryApplyPendingCompression), an inline compression and every append act
\* on the conversation as a write at its end or a digest of its oldest
\* verbatim messages.
ImplementsTranscript == T!TSpec

\* No interleaving of appends, inline compressions and late background
\* results makes a message vanish from the conversation, come twice or
\* change its place.
NothingLost == T!NothingLost

\* View v stands for the first len messages of m: some of the oldest of them
\* are digested, the others are verbatim.
StandsFor(v, m, len) ==
  \E e \in 0..len :
    /\ v.sum = m.sum \cup {m.tail[i] : i \in 1..e}
    /\ v.tail = SubSeq(m.tail, e + 1, len)

\* The background job the loop may still apply was made from a prefix of the
\* live conversation, and once ready it stands for exactly that prefix, so
\* that messages[snapshotLen:] is what is missing from it.
SnapshotAligned ==
  pending # 0 =>
    LET job == jobs[pending] IN
    /\ job.snapshotLen <= Len(messages.tail)
    /\ \/ /\ job.phase = "running"
          /\ job.view.sum = messages.sum
          /\ job.view.tail = SubSeq(messages.tail, 1, job.snapshotLen)
       \/ /\ job.phase = "ready"
          /\ StandsFor(job.view, messages, job.snapshotLen)

\* A background compression runs on un-cancelled only while it is the pending
\* job of a conversation that has not returned: none is leaked by a second
\* trigger, an inline compression or any of the returns of RunMainTask.
OwnedOrKilled ==
  \A j \in DOMAIN jobs :
    jobs[j].phase = "running" /\ ~jobs[j].killed => j = pending /\ pc # "returned"

\* A tool result is never sent without the assistant message that asked for
\* it: compression cuts the conversation between rounds only.
NoOrphanResults ==
  \A i \in DOMAIN messages.tail :
    log[messages.tail[i]].role = "tool" =>
      /\ i > 1
      /\ messages.tail[i - 1] = messages.tail[i] - 1
      /\ log[messages.tail[i - 1]].role # "user"

\* A request is under the warning limit unless it follows a nudge (the one
\* way back to the model that does not check the limit) or is the first one.
RequestFits ==
  pc = "llm" =>
    \/ CountTokens(log, messages) < WarnLimit
    \/ log = << >> \/ log[Len(log)].role = "user"

\* RunMainTask returns.
Terminates == <>(pc = "returned")

\* WaitBackground returns: after the conversation has ended every background
\* compression, cancelled or not, exits.
JobsDrain == pc = "returned" ~> \A j \in DOMAIN jobs : jobs[j].phase # "running"

-----------------------------------------------------------------------------
(* Claims of the source's comments that the runs refute *)

\* compression.go:130-132, 148: the most recent rounds that fit the budget
\* stay; when all rounds fit, there is nothing to compress.
KeepsFittingRounds ==
  [][\A j \in DOMAIN jobs :
       LET v == jobs[j].view IN
         /\ jobs[j].phase = "running" /\ jobs'[j].phase = "ready"
         /\ Rounds(log, v.tail) # {}
         /\ Rounds(log, v.tail) = ActiveRounds(log, v.tail)
         => jobs'[j].view.tail = v.tail]_vars

\* compression.go:105-107: the rounds kept by a compression fit the limit
\* together with the frozen zone and the summary.
KeptTokens(t) ==
  ZoneTokens(log, t, UNION {RoundAt(log, t, r) : r \in Rounds(log, t)})
MakesRoom(m) == Rounds(log, m.tail) # {} => m.head + KeptTokens(m.tail) <= WarnLimit
KeptRoundsFit ==
  [][(pc \in {"sync1", "sync2"}) /\ messages'.sum # messages.sum => MakesRoom(messages')]_vars

\* loop.go:649-651: the loop stops on compression only when, even after an
\* inline compression, the conversation is over the warning limit.
StopsOnlyWhenOver ==
  outcome = "compression" => CountTokens(log, messages) > WarnLimit
=============================================================================
