-------------------------- MODULE AgentLoop_proofs --------------------------
(***************************************************************************)
(* Theorems about AgentLoop, for every window size, round budget, message  *)
(* size and number of tool calls in an answer:                             *)
(*                                                                         *)
(*   - the state keeps its types (TypeCorrect);                            *)
(*   - a background compression is never leaked (JobsAreOwned);            *)
(*   - with a compression template, a pending job always stands for a      *)
(*     prefix of the live conversation (SnapshotsAlign), every step of the *)
(*     loop writes at the end of the transcript or digests its oldest      *)
(*     messages (Refinement), and so no message is lost, doubled or moved  *)
(*     (ConversationLosesNothing);                                         *)
(*   - a conversation is cut between rounds only (ResultsKeepTheirCalls);  *)
(*   - a request that follows a tool turn was measured                     *)
(*     (RequestsAreMeasured).                                              *)
(***************************************************************************)
EXTENDS AgentLoop, SequenceTheorems, FiniteSetTheorems, TLAPS

-----------------------------------------------------------------------------
(* Types *)

LEMMA NoViewType == NoView \in View
PROOF BY DEF NoView, View

LEMMA GoneJobType == GoneJob \in Job
PROOF BY NoViewType DEF GoneJob, Job

\* The number of comment calls among the first n of a turn.
LEMMA CommentsInType ==
  ASSUME NEW calls, NEW n \in Int
  PROVE  CommentsIn(calls, n) \in Nat
PROOF
  <1>1. IsFiniteSet(1..n)
    BY FS_Interval
  <1>2. IsFiniteSet({i \in 1..n : calls[i] = "comment"})
    BY <1>1, FS_Subset
  <1>3. QED
    BY <1>2, FS_CardinalityType DEF CommentsIn

\* Appending keeps a view a view.
LEMMA AppendedType ==
  ASSUME log \in Seq(Message), NEW m \in View, NEW new \in Seq(Message)
  PROVE  Appended(m, new) \in View
PROOF
  <1>1. Len(new) \in Nat /\ Len(log) \in Nat
    OBVIOUS
  <1>2. [i \in 1..Len(new) |-> Len(log) + i] \in Seq(Nat)
    BY <1>1
  <1>3. m.tail \o [i \in 1..Len(new) |-> Len(log) + i] \in Seq(Nat)
    BY <1>2 DEF View
  <1>4. QED
    BY <1>3 DEF Appended, View

\* A slice of a view's tail.
LEMMA SliceType ==
  ASSUME NEW t \in Seq(Nat), NEW a \in Nat, a >= 1
  PROVE  /\ SubSeq(t, a, Len(t)) \in Seq(Nat)
         /\ Len(SubSeq(t, a, Len(t))) = IF a <= Len(t) THEN Len(t) - a + 1 ELSE 0
         /\ \A i \in 1..(Len(t) - a + 1) : SubSeq(t, a, Len(t))[i] = t[a + i - 1]
PROOF
  <1>1. Len(t) \in Nat /\ \A i \in 1..Len(t) : t[i] \in Nat
    OBVIOUS
  <1>2. \A i \in a..Len(t) : t[i] \in Nat
    BY <1>1
  <1>3. QED
    BY <1>1, <1>2, SubSeqProperties

LEMMA SummarisedType ==
  ASSUME NEW m \in View, NEW e \in 1..Len(m.tail), NEW s \in SummarySizes
  PROVE  Summarised(m, e, s) \in View
PROOF
  <1>1. m.head \in Nat /\ m.sum \subseteq Nat /\ m.tail \in Seq(Nat)
    BY DEF View
  <1>2. s \in Nat /\ e \in Nat /\ Len(m.tail) \in Nat
    BY <1>1, SizesAssumption
  <1>3. SubSeq(m.tail, e + 1, Len(m.tail)) \in Seq(Nat)
    BY <1>1, <1>2, SliceType
  <1>4. {m.tail[i] : i \in 1..e} \subseteq Nat
    BY <1>1
  <1>5. QED
    BY <1>1, <1>2, <1>3, <1>4 DEF Summarised, View

LEMMA CompressionsType ==
  ASSUME NEW m \in View, NEW v \in Compressions(log, m)
  PROVE  v \in View
PROOF
  <1>1. CASE ~AsksModel(m)
    <2>1. v = [m EXCEPT !.tail = << >>]
      BY <1>1 DEF Compressions
    <2>2. << >> \in Seq(Nat)
      OBVIOUS
    <2>3. QED
      BY <2>1, <2>2 DEF View
  <1>2. CASE AsksModel(m)
    <2>1. v = m \/ \E e \in 1..Len(m.tail), s \in SummarySizes : v = Summarised(m, e, s)
      BY <1>2 DEF Compressions
    <2>2. QED
      BY <2>1, SummarisedType
  <1>3. QED
    BY <1>1, <1>2

LEMMA SplicedType ==
  ASSUME NEW job \in Job, NEW m \in View
  PROVE  Spliced(job, m) \in View
PROOF
  <1>1. /\ job.view \in View /\ job.snapshotLen \in Nat
        /\ m.tail \in Seq(Nat) /\ job.view.tail \in Seq(Nat)
    BY DEF Job, View
  <1>2. SubSeq(m.tail, job.snapshotLen + 1, Len(m.tail)) \in Seq(Nat)
    BY <1>1, SliceType
  <1>3. job.view.tail \o SubSeq(m.tail, job.snapshotLen + 1, Len(m.tail)) \in Seq(Nat)
    BY <1>1, <1>2, ConcatProperties
  <1>4. QED
    BY <1>1, <1>3 DEF Spliced, View

\* Dropping the pending job.
LEMMA CancelType ==
  ASSUME TypeOK, CancelPending
  PROVE  jobs' \in Seq(Job) /\ pending' \in 0..Len(jobs')
PROOF
  <1>1. pending' = 0 /\ Len(jobs) \in Nat
    BY DEF CancelPending, TypeOK
  <1>2. CASE pending = 0
    BY <1>1, <1>2 DEF CancelPending, TypeOK
  <1>3. CASE pending # 0
    <2> DEFINE repl == IF jobs[pending].phase = "running"
                       THEN [jobs[pending] EXCEPT !.killed = TRUE] ELSE GoneJob
    <2>1. pending \in 1..Len(jobs) /\ jobs[pending] \in Job
      BY <1>3 DEF TypeOK
    <2>2. repl \in Job
      BY <2>1, GoneJobType DEF Job
    <2>3. jobs' = [jobs EXCEPT ![pending] = repl]
      BY <1>3 DEF CancelPending
    <2>4. jobs' \in Seq(Job) /\ Len(jobs') = Len(jobs)
      BY <2>1, <2>2, <2>3, ExceptSeq DEF TypeOK
    <2>5. QED
      BY <2>4, <1>1
  <1>4. QED
    BY <1>2, <1>3

LEMMA ReturnType ==
  ASSUME TypeOK, NEW o \in Outcomes, Return(o)
  PROVE  /\ pc' \in Locations /\ outcome' \in Outcomes /\ results' \in 0..MaxCalls
         /\ jobs' \in Seq(Job) /\ pending' \in 0..Len(jobs')
PROOF
  BY CancelType, LimitsAssumption DEF Return, Locations

LEMMA TriggerType ==
  ASSUME TypeOK, TriggerAsync(messages)
  PROVE  jobs' \in Seq(Job) /\ pending' \in 0..Len(jobs')
PROOF
  <1>1. CASE pending # 0
    BY <1>1 DEF TriggerAsync, TypeOK, jobVars
  <1>2. CASE pending = 0
    <2> DEFINE new == [phase |-> "running", killed |-> FALSE,
                       snapshotLen |-> Len(messages.tail), view |-> messages]
    <2>1. new \in Job
      BY DEF TypeOK, View, Job
    <2>2. jobs' = Append(jobs, new) /\ pending' = Len(jobs')
      BY <1>2 DEF TriggerAsync
    <2>3. jobs' \in Seq(Job) /\ Len(jobs') \in Nat
      BY <2>1, <2>2 DEF TypeOK
    <2>4. QED
      BY <2>2, <2>3
  <1>3. QED
    BY <1>1, <1>2

\* Messages joined: as many as there were.
LEMMA ConcatLength ==
  ASSUME NEW S, NEW s \in Seq(S), NEW t \in Seq(S)
  PROVE  s \o t \in Seq(S) /\ Len(s \o t) = Len(s) + Len(t)
PROOF
  BY ConcatProperties

\* What a step of the loop that writes new messages does to the conversation.
LEMMA WritesType ==
  ASSUME TypeOK, NEW new \in Seq(Message), log' = log \o new,
         messages' = Appended(messages, new)
  PROVE  log' \in Seq(Message) /\ messages' \in View
PROOF
  BY AppendedType, ConcatProperties DEF TypeOK

\* A returning job changes its own entry, and is no longer running.
LEMMA JobReturnsChange ==
  ASSUME TypeOK, NEW j \in JobIds, JobReturns(j)
  PROVE  \E new \in Job : new.phase # "running" /\ jobs' = [jobs EXCEPT ![j] = new]
PROOF
  <1>1. jobs \in Seq(Job) /\ j \in 1..Len(jobs) /\ jobs[j] \in Job
    <2>1. jobs \in Seq(Job) /\ j \in DOMAIN jobs
      BY DEF JobReturns, TypeOK
    <2>2. QED
      BY <2>1
  <1>2. CASE \E rebuilt \in Compressions(log, jobs[j].view) :
               jobs' = [jobs EXCEPT ![j].phase = "ready", ![j].view = rebuilt]
    <2>1. PICK rebuilt \in Compressions(log, jobs[j].view) :
                 jobs' = [jobs EXCEPT ![j].phase = "ready", ![j].view = rebuilt]
      BY <1>2
    <2> DEFINE new == [jobs[j] EXCEPT !.phase = "ready", !.view = rebuilt]
    <2>2. rebuilt \in View
      BY <1>1, CompressionsType DEF Job
    <2>3. new \in Job /\ new.phase # "running"
      BY <1>1, <2>2 DEF Job
    <2>4. jobs' = [jobs EXCEPT ![j] = new]
      BY <1>1, <2>1
    <2>5. QED
      BY <2>3, <2>4
  <1>3. CASE jobs' = [jobs EXCEPT ![j] = GoneJob]
    BY <1>3, GoneJobType DEF GoneJob
  <1>4. QED
    BY <1>2, <1>3 DEF JobReturns

LEMMA TypeInit == Init => TypeOK
PROOF
  <1> SUFFICES ASSUME Init PROVE TypeOK
    OBVIOUS
  <1>1. messages \in View
    BY SizesAssumption DEF Init, View
  <1>2. log \in Seq(Message) /\ jobs \in Seq(Job) /\ pending \in 0..Len(jobs)
    <2>1. log = << >> /\ jobs = << >> /\ pending = 0
      BY DEF Init
    <2>2. QED
      BY <2>1
  <1>3. budget \in 0..MaxToolRequestTimes /\ results \in 0..MaxCalls
    BY LimitsAssumption DEF Init
  <1>4. QED
    BY <1>1, <1>2, <1>3 DEF Init, TypeOK, Locations, Outcomes

LEMMA TypeNext == TypeOK /\ [Next]_vars => TypeOK'
PROOF
  <1> SUFFICES ASSUME TypeOK, [Next]_vars PROVE TypeOK'
    OBVIOUS
  <1> USE DEF jobVars, runVars
  <1>1. CASE SendRequest
    BY <1>1, LimitsAssumption DEF SendRequest, TypeOK, Locations
  <1>2. CASE StopOnCancel
    <2>1. Return("error") /\ "error" \in Outcomes
      BY <1>2 DEF StopOnCancel, Outcomes
    <2>2. QED
      BY <1>2, <2>1, ReturnType DEF StopOnCancel, TypeOK
  <1>3. CASE RequestFails
    <2>1. Return("error") /\ "error" \in Outcomes
      BY <1>3 DEF RequestFails, Outcomes
    <2>2. QED
      BY <1>3, <2>1, ReturnType DEF RequestFails, TypeOK
  <1>4. CASE AnswerWithoutCalls
    <2>1. PICK body \in BOOLEAN, a \in MessageSizes, u \in MessageSizes :
            LET nudge == [role |-> "user", size |-> u]
                new == IF body THEN <<[role |-> "assistant", size |-> a], nudge>>
                       ELSE <<nudge>>
            IN log' = log \o new /\ messages' = Appended(messages, new)
      BY <1>4 DEF AnswerWithoutCalls
    <2> DEFINE nudge == [role |-> "user", size |-> u]
               new == IF body THEN <<[role |-> "assistant", size |-> a], nudge>> ELSE <<nudge>>
    <2>2. new \in Seq(Message)
      <3>1. nudge \in Message /\ [role |-> "assistant", size |-> a] \in Message
        BY DEF Message
      <3> HIDE DEF nudge
      <3>2. QED
        BY <3>1
    <2>3. log' = log \o new /\ messages' = Appended(messages, new)
      BY <2>1
    <2> HIDE DEF new
    <2>4. log' \in Seq(Message) /\ messages' \in View
      BY <2>2, <2>3, WritesType
    <2>5. QED
      BY <1>4, <2>4 DEF AnswerWithoutCalls, TypeOK, Locations
  <1>5. CASE AnswerWithCalls
    <2>1. PICK n \in 1..MaxCalls : \E calls \in [1..n -> CallOutcome] :
            TaskFailed(calls) \/ TaskCompleted(calls) \/ TurnContinues(calls)
      BY <1>5 DEF AnswerWithCalls
    <2>2. PICK calls \in [1..n -> CallOutcome] :
            TaskFailed(calls) \/ TaskCompleted(calls) \/ TurnContinues(calls)
      BY <2>1
    <2>3. n \in Nat /\ n <= MaxCalls /\ DOMAIN calls = 1..n /\ Len(calls) = n
      BY LimitsAssumption
    <2>4. UNCHANGED <<log, messages, cancelled>>
      BY <1>5 DEF AnswerWithCalls
    <2>5. \A o \in Outcomes : Return(o) =>
            /\ pc' \in Locations /\ outcome' \in Outcomes /\ results' \in 0..MaxCalls
            /\ jobs' \in Seq(Job) /\ pending' \in 0..Len(jobs')
      BY ReturnType
    <2>6. CommentsIn(calls, n) \in Nat /\ \A f \in 1..n : CommentsIn(calls, f - 1) \in Nat
      BY <2>3, CommentsInType
    <2>7. CASE TaskFailed(calls)
      <3>1. PICK f \in 1..n : collected' = collected + CommentsIn(calls, f - 1)
        BY <2>3, <2>7 DEF TaskFailed
      <3> HIDE DEF CommentsIn
      <3>3. collected' \in Nat
        BY <2>6, <3>1 DEF TypeOK
      <3>2. QED
        BY <2>4, <2>5, <2>7, <3>3 DEF TaskFailed, TypeOK, Outcomes
    <2>8. CASE TaskCompleted(calls)
      <3>1. collected' = collected + CommentsIn(calls, n)
        BY <2>3, <2>8 DEF TaskCompleted
      <3>3. collected' \in Nat
        BY <2>6, <3>1 DEF TypeOK
      <3>2. QED
        BY <2>4, <2>5, <2>8, <3>3 DEF TaskCompleted, TypeOK, Outcomes
    <2>9. CASE TurnContinues(calls)
      <3>1. collected' \in Nat /\ empties' \in Nat /\ budget' = budget
        <4>1. collected' = collected + CommentsIn(calls, n)
          BY <2>3, <2>9 DEF TurnContinues
        <4>2. empties' = 0 \/ empties' = empties + 1
          BY <2>9 DEF TurnContinues
        <4>3. QED
          BY <2>6, <2>9, <4>1, <4>2 DEF TurnContinues, TypeOK
      <3>2. \/ Return("empty_rounds")
            \/ /\ pc' = "apply" /\ results' = n
               /\ UNCHANGED <<jobs, pending, outcome>>
        BY <2>3, <2>9 DEF TurnContinues
      <3>3. QED
        BY <2>3, <2>4, <2>5, <3>1, <3>2 DEF TypeOK, Outcomes, Locations
    <2>10. QED
      BY <2>2, <2>7, <2>8, <2>9
  <1>6. CASE ApplyPending
    <2>1. messages' \in View
      <3>1. CASE CanApply
        <4>1. jobs[pending] \in Job
          BY <3>1 DEF CanApply, TypeOK
        <4>2. QED
          BY <1>6, <3>1, <4>1, SplicedType DEF ApplyPending, TypeOK
      <3>2. CASE ~CanApply
        BY <1>6, <3>2 DEF ApplyPending, TypeOK
      <3>3. QED
        BY <3>1, <3>2
    <2>2. (CancelPending \/ UNCHANGED <<jobs, pending>>) /\ pc' \in {"sync1", "append"}
      BY <1>6 DEF ApplyPending
    <2>3. jobs' \in Seq(Job) /\ pending' \in 0..Len(jobs')
      BY <2>2, CancelType DEF TypeOK
    <2>4. QED
      BY <1>6, <2>1, <2>2, <2>3 DEF ApplyPending, TypeOK, Locations
  <1>7. CASE AppendTurn
    <2>1. PICK a \in MessageSizes, s \in [1..results -> MessageSizes] :
            LET new == <<[role |-> "assistant", size |-> a]>>
                       \o [i \in 1..results |-> [role |-> "tool", size |-> s[i]]]
            IN log' = log \o new /\ messages' = Appended(messages, new)
      BY <1>7 DEF AppendTurn
    <2> DEFINE asst == <<[role |-> "assistant", size |-> a]>>
               tools == [i \in 1..results |-> [role |-> "tool", size |-> s[i]]]
    <2>2. asst \in Seq(Message)
      BY DEF Message
    <2>3. tools \in Seq(Message)
      <3>1. \A i \in 1..results : [role |-> "tool", size |-> s[i]] \in Message
        BY DEF Message
      <3>2. results \in Nat
        BY LimitsAssumption DEF TypeOK
      <3>3. QED
        BY <3>1, <3>2
    <2>4. log' = log \o (asst \o tools) /\ messages' = Appended(messages, asst \o tools)
      BY <2>1
    <2> HIDE DEF asst, tools
    <2>5. asst \o tools \in Seq(Message)
      BY <2>2, <2>3, ConcatProperties
    <2>6. log' \in Seq(Message) /\ messages' \in View
      BY <2>4, <2>5, WritesType
    <2>7. (CancelPending \/ UNCHANGED <<jobs, pending>>) /\ pc' \in {"sync2", "settle"}
      BY <1>7 DEF AppendTurn
    <2>8. jobs' \in Seq(Job) /\ pending' \in 0..Len(jobs')
      BY <2>7, CancelType DEF TypeOK
    <2>9. QED
      BY <1>7, <2>6, <2>7, <2>8, LimitsAssumption DEF AppendTurn, TypeOK, Locations
  <1>8. CASE SyncCompress
    <2>1. messages' \in View
      BY <1>8, CompressionsType DEF SyncCompress, TypeOK
    <2>2. QED
      BY <1>8, <2>1 DEF SyncCompress, TypeOK, Locations
  <1>9. CASE Settle
    <2>1. \/ Return("compression")
          \/ /\ pc' = "loop" /\ UNCHANGED <<results, outcome>>
             /\ TriggerAsync(messages) \/ UNCHANGED <<jobs, pending>>
      BY <1>9 DEF Settle
    <2>2. jobs' \in Seq(Job) /\ pending' \in 0..Len(jobs')
      BY <2>1, ReturnType, TriggerType DEF TypeOK, Outcomes
    <2>3. pc' \in Locations /\ outcome' \in Outcomes /\ results' \in 0..MaxCalls
      BY <2>1, ReturnType DEF TypeOK, Outcomes, Locations
    <2>4. QED
      BY <1>9, <2>2, <2>3 DEF Settle, TypeOK
  <1>10. CASE BudgetSpent
    <2>1. Return("max_rounds") \/ (pc' = "grace" /\ UNCHANGED <<results, jobs, pending, outcome>>)
      BY <1>10 DEF BudgetSpent
    <2>2. QED
      BY <1>10, <2>1, ReturnType DEF BudgetSpent, TypeOK, Outcomes, Locations
  <1>11. CASE GraceRequest
    <2>1. PICK u \in MessageSizes :
            /\ log' = log \o <<[role |-> "user", size |-> u]>>
            /\ messages' = Appended(messages, <<[role |-> "user", size |-> u]>>)
      BY <1>11 DEF GraceRequest
    <2>2. <<[role |-> "user", size |-> u]>> \in Seq(Message)
      BY DEF Message
    <2>3. log' \in Seq(Message) /\ messages' \in View
      BY <2>1, <2>2, WritesType
    <2>4. Return("max_rounds") \/ (pc' = "graceLLM" /\ UNCHANGED <<results, jobs, pending, outcome>>)
      BY <1>11 DEF GraceRequest
    <2>5. QED
      BY <1>11, <2>3, <2>4, ReturnType DEF GraceRequest, TypeOK, Outcomes, Locations
  <1>12. CASE GraceAnswer
    <2>1. collected' \in Nat
      BY <1>12, LimitsAssumption DEF GraceAnswer, TypeOK
    <2>2. Return("max_rounds") /\ "max_rounds" \in Outcomes
      BY <1>12 DEF GraceAnswer, Outcomes
    <2>3. QED
      BY <1>12, <2>1, <2>2, ReturnType DEF GraceAnswer, TypeOK
  <1>13. ASSUME NEW j \in JobIds, JobReturns(j) PROVE TypeOK'
    <2>1. j \in 1..Len(jobs) /\ jobs[j] \in Job
      <3>1. jobs \in Seq(Job) /\ j \in DOMAIN jobs
        BY <1>13 DEF JobReturns, TypeOK
      <3>2. QED
        BY <3>1
    <2>2. \E new \in Job : jobs' = [jobs EXCEPT ![j] = new]
      BY <1>13, JobReturnsChange
    <2>3. jobs' \in Seq(Job) /\ Len(jobs') = Len(jobs)
      BY <2>1, <2>2, ExceptSeq DEF TypeOK
    <2>4. pending' = pending \/ pending' = 0
      BY <1>13 DEF JobReturns
    <2>5. pending' \in 0..Len(jobs')
      BY <2>1, <2>3, <2>4 DEF TypeOK
    <2>6. UNCHANGED <<pc, results, log, messages, cancelled, runVars>>
      BY <1>13 DEF JobReturns
    <2>7. QED
      BY <2>3, <2>5, <2>6 DEF TypeOK
  <1>14. CASE CancelContext
    BY <1>14 DEF CancelContext, TypeOK
  <1>15. CASE UNCHANGED vars
    BY <1>15 DEF vars, TypeOK
  <1>16. QED
    BY <1>1, <1>2, <1>3, <1>4, <1>5, <1>6, <1>7, <1>8, <1>9, <1>10, <1>11, <1>12,
       <1>13, <1>14, <1>15 DEF Next, LoopStep

\* Every variable keeps its type.
THEOREM TypeCorrect == Spec => []TypeOK
PROOF
  BY TypeInit, TypeNext, PTL DEF Spec
-----------------------------------------------------------------------------
(* Ownership of background jobs *)

\* Dropping the pending job leaves no live job behind.
LEMMA CancelKillsAll ==
  ASSUME TypeOK, OwnedOrKilled, CancelPending, NEW j \in 1..Len(jobs'),
         jobs'[j].phase = "running"
  PROVE  jobs'[j].killed
PROOF
  <1>1. CASE pending = 0
    BY <1>1 DEF CancelPending, OwnedOrKilled, TypeOK
  <1>2. CASE pending # 0
    <2> DEFINE repl == IF jobs[pending].phase = "running"
                       THEN [jobs[pending] EXCEPT !.killed = TRUE] ELSE GoneJob
    <2>1. pending \in 1..Len(jobs) /\ jobs[pending] \in Job /\ jobs \in Seq(Job)
      BY <1>2 DEF TypeOK
    <2>2. jobs' = [jobs EXCEPT ![pending] = repl]
      BY <1>2 DEF CancelPending
    <2>3. j \in 1..Len(jobs) /\ jobs'[j] = IF j = pending THEN repl ELSE jobs[j]
      BY <2>1, <2>2
    <2>4. CASE j = pending
      BY <2>1, <2>3, <2>4 DEF GoneJob, Job
    <2>5. CASE j # pending
      BY <2>1, <2>3, <2>5 DEF OwnedOrKilled
    <2>6. QED
      BY <2>4, <2>5
  <1>3. QED
    BY <1>1, <1>2

LEMMA CancelKeepsOwned ==
  ASSUME TypeOK, OwnedOrKilled, CancelPending
  PROVE  OwnedOrKilled'
PROOF
  <1>1. jobs' \in Seq(Job)
    BY CancelType
  <1>2. QED
    BY <1>1, CancelKillsAll DEF OwnedOrKilled

LEMMA OwnedNext == TypeOK /\ OwnedOrKilled /\ [Next]_vars => OwnedOrKilled'
PROOF
  <1> SUFFICES ASSUME TypeOK, OwnedOrKilled, [Next]_vars PROVE OwnedOrKilled'
    OBVIOUS
  <1> USE DEF jobVars, runVars
  <1>1. CASE CancelPending
    BY <1>1, CancelKeepsOwned
  <1>2. CASE UNCHANGED <<jobs, pending>> /\ pc # "returned" /\ pc' # "returned"
    BY <1>2 DEF OwnedOrKilled
  <1>3. CASE TriggerAsync(messages) /\ pc # "returned" /\ pc' = "loop"
    <2>1. CASE pending # 0
      BY <1>3, <2>1 DEF TriggerAsync, OwnedOrKilled
    <2>2. CASE pending = 0
      <3> DEFINE new == [phase |-> "running", killed |-> FALSE,
                         snapshotLen |-> Len(messages.tail), view |-> messages]
      <3>1. jobs' = Append(jobs, new) /\ pending' = Len(jobs') /\ jobs \in Seq(Job)
        BY <1>3, <2>2 DEF TriggerAsync, TypeOK
      <3> HIDE DEF new
      <3>2. /\ Len(jobs') = Len(jobs) + 1 /\ Len(jobs) \in Nat
            /\ DOMAIN jobs' = 1..(Len(jobs) + 1)
            /\ \A j \in 1..Len(jobs) : jobs'[j] = jobs[j]
        BY <3>1
      <3>3. \A j \in 1..Len(jobs) : jobs[j].phase = "running" => jobs[j].killed
        BY <2>2, <3>1 DEF OwnedOrKilled
      <3>4. \A j \in DOMAIN jobs' : j # pending' => j \in 1..Len(jobs)
        BY <3>1, <3>2
      <3>5. QED
        BY <1>3, <3>2, <3>3, <3>4 DEF OwnedOrKilled
    <2>3. QED
      BY <2>1, <2>2
  <1>4. ASSUME NEW j \in JobIds, JobReturns(j) PROVE OwnedOrKilled'
    <2>1. jobs \in Seq(Job) /\ j \in DOMAIN jobs /\ pc' = pc
      BY <1>4 DEF JobReturns, TypeOK
    <2>2. \A i \in DOMAIN jobs : i # j => jobs'[i] = jobs[i]
      BY <1>4, <2>1 DEF JobReturns
    <2>3. DOMAIN jobs' = DOMAIN jobs /\ jobs'[j].phase # "running"
      BY <1>4, <2>1, JobReturnsChange
    <2>4. pending' = pending \/ pending = j
      BY <1>4 DEF JobReturns
    <2>5. QED
      BY <2>1, <2>2, <2>3, <2>4 DEF OwnedOrKilled
  <1>5. CASE CancelContext
    BY <1>5, <1>2 DEF CancelContext, OwnedOrKilled
  <1>6. CASE UNCHANGED vars
    BY <1>6 DEF vars, OwnedOrKilled
  <1>7. CASE LoopStep
    <2>1. CASE SendRequest \/ AnswerWithoutCalls
      BY <2>1, <1>2 DEF SendRequest, AnswerWithoutCalls
    <2>2. CASE StopOnCancel \/ RequestFails \/ GraceAnswer
      BY <2>2, <1>1 DEF StopOnCancel, RequestFails, GraceAnswer, Return
    <2>3. CASE AnswerWithCalls
      BY <2>3, <1>1, <1>2 DEF AnswerWithCalls, TaskFailed, TaskCompleted, TurnContinues, Return
    <2>4. CASE ApplyPending
      BY <2>4, <1>1, <1>2 DEF ApplyPending
    <2>5. CASE AppendTurn
      BY <2>5, <1>1, <1>2 DEF AppendTurn
    <2>6. CASE SyncCompress
      BY <2>6, <1>2 DEF SyncCompress
    <2>7. CASE Settle
      BY <2>7, <1>1, <1>2, <1>3 DEF Settle, Return
    <2>8. CASE BudgetSpent \/ GraceRequest
      BY <2>8, <1>1, <1>2 DEF BudgetSpent, GraceRequest, Return
    <2>9. QED
      BY <1>7, <2>1, <2>2, <2>3, <2>4, <2>5, <2>6, <2>7, <2>8 DEF LoopStep
  <1>8. QED
    BY <1>4, <1>5, <1>6, <1>7 DEF Next

\* No background compression outlives its ownership un-cancelled, whatever
\* way RunMainTask returns.
THEOREM JobsAreOwned == Spec => []OwnedOrKilled
PROOF
  <1>1. Init => OwnedOrKilled
    BY DEF Init, OwnedOrKilled
  <1>2. QED
    BY <1>1, OwnedNext, TypeCorrect, PTL DEF Spec
-----------------------------------------------------------------------------
(* Slices of a conversation *)

LEMMA SliceFacts ==
  ASSUME NEW t \in Seq(Nat), NEW b \in 0..Len(t), NEW e \in 0..b
  PROVE  /\ SubSeq(t, e + 1, b) \in Seq(Nat)
         /\ Len(SubSeq(t, e + 1, b)) = b - e
         /\ \A i \in 1..(b - e) : SubSeq(t, e + 1, b)[i] = t[e + i]
PROOF
  <1>1. b \in Nat /\ e \in Nat /\ Len(t) \in Nat /\ e <= b /\ b <= Len(t)
    OBVIOUS
  <1>2. \A i \in (e + 1)..b : t[i] \in Nat
    BY <1>1
  <1>3. QED
    BY <1>1, <1>2, SubSeqProperties

LEMMA SameSlice ==
  ASSUME NEW s \in Seq(Nat), NEW t \in Seq(Nat), Len(s) = Len(t),
         \A i \in 1..Len(s) : s[i] = t[i]
  PROVE  s = t
PROOF BY SeqEqual

LEMMA SliceOfPrefix ==
  ASSUME NEW t \in Seq(Nat), NEW b \in 0..Len(t), NEW e \in 0..b
  PROVE  SubSeq(SubSeq(t, 1, b), e + 1, b) = SubSeq(t, e + 1, b)
PROOF
  <1> DEFINE p == SubSeq(t, 1, b)
  <1>1. 0 \in 0..b /\ b \in Nat /\ e \in Nat
    OBVIOUS
  <1>2. p \in Seq(Nat) /\ Len(p) = b /\ \A i \in 1..b : p[i] = t[i]
    BY <1>1, SliceFacts
  <1> HIDE DEF p
  <1>3. /\ SubSeq(p, e + 1, b) \in Seq(Nat) /\ Len(SubSeq(p, e + 1, b)) = b - e
        /\ \A i \in 1..(b - e) : SubSeq(p, e + 1, b)[i] = p[e + i]
    BY <1>1, <1>2, SliceFacts
  <1>4. /\ SubSeq(t, e + 1, b) \in Seq(Nat) /\ Len(SubSeq(t, e + 1, b)) = b - e
        /\ \A i \in 1..(b - e) : SubSeq(t, e + 1, b)[i] = t[e + i]
    BY <1>1, SliceFacts
  <1>5. \A i \in 1..(b - e) : p[e + i] = t[e + i]
    BY <1>1, <1>2
  <1>6. SubSeq(p, e + 1, b) = SubSeq(t, e + 1, b)
    BY <1>3, <1>4, <1>5, SameSlice
  <1>7. QED
    BY <1>6 DEF p

LEMMA SliceOfLonger ==
  ASSUME NEW t \in Seq(Nat), NEW u \in Seq(Nat), NEW b \in 0..Len(t), NEW e \in 0..b
  PROVE  SubSeq(t \o u, e + 1, b) = SubSeq(t, e + 1, b)
PROOF
  <1> DEFINE p == t \o u
  <1>1. /\ p \in Seq(Nat) /\ Len(p) = Len(t) + Len(u) /\ Len(u) \in Nat /\ Len(t) \in Nat
        /\ \A i \in 1..Len(t) : p[i] = t[i]
    BY ConcatProperties
  <1> HIDE DEF p
  <1>2. b \in Nat /\ e \in Nat /\ b \in 0..Len(p)
    BY <1>1
  <1>3. /\ SubSeq(p, e + 1, b) \in Seq(Nat) /\ Len(SubSeq(p, e + 1, b)) = b - e
        /\ \A i \in 1..(b - e) : SubSeq(p, e + 1, b)[i] = p[e + i]
    BY <1>1, <1>2, SliceFacts
  <1>4. /\ SubSeq(t, e + 1, b) \in Seq(Nat) /\ Len(SubSeq(t, e + 1, b)) = b - e
        /\ \A i \in 1..(b - e) : SubSeq(t, e + 1, b)[i] = t[e + i]
    BY SliceFacts
  <1>5. ASSUME NEW i \in 1..(b - e) PROVE p[e + i] = t[e + i]
    <2>1. e + i \in 1..Len(t)
      BY <1>1, <1>2
    <2>2. QED
      BY <1>1, <2>1
  <1>6. SubSeq(p, e + 1, b) = SubSeq(t, e + 1, b)
    BY <1>3, <1>4, <1>5, SameSlice
  <1>7. QED
    BY <1>6 DEF p

LEMMA JoinSlices ==
  ASSUME NEW t \in Seq(Nat), NEW b \in 0..Len(t), NEW e \in 0..b
  PROVE  SubSeq(t, e + 1, b) \o SubSeq(t, b + 1, Len(t)) = SubSeq(t, e + 1, Len(t))
PROOF
  <1>1. /\ e + 1 \in 1..(Len(t) + 1) /\ b \in ((e + 1) - 1)..Len(t)
        /\ Len(t) \in b..Len(t)
    OBVIOUS
  <1>2. QED
    BY <1>1, ConcatAdjacentSubSeq

\* The first e elements are the same in a longer tail.
LEMMA SameDigest ==
  ASSUME NEW t, NEW u, NEW e \in Nat, \A i \in 1..e : t[i] = u[i]
  PROVE  {t[i] : i \in 1..e} = {u[i] : i \in 1..e}
PROOF OBVIOUS

-----------------------------------------------------------------------------
(* What compressing and splicing do to a conversation *)

\* A compression of a view digests some of its oldest messages.
LEMMA CompressionStandsFor ==
  ASSUME HasTemplate, NEW m \in View, NEW v \in Compressions(log, m)
  PROVE  StandsFor(v, m, Len(m.tail))
PROOF
  <1>1. m.tail \in Seq(Nat) /\ Len(m.tail) \in Nat
    BY DEF View
  <1>2. CASE v.sum = m.sum /\ v.tail = m.tail
    <2>1. SubSeq(m.tail, 0 + 1, Len(m.tail)) = m.tail
      BY <1>1, SubSeqFull
    <2>2. 0 \in 0..Len(m.tail) /\ v.sum = m.sum \cup {m.tail[i] : i \in 1..0}
      BY <1>1, <1>2
    <2>3. QED
      BY <1>2, <2>1, <2>2 DEF StandsFor
  <1>3. CASE ~AsksModel(m)
    <2>1. m.tail = << >> /\ v = [m EXCEPT !.tail = << >>]
      BY <1>3 DEF Compressions, AsksModel
    <2>2. v.sum = m.sum /\ v.tail = m.tail
      BY <2>1 DEF View
    <2>3. QED
      BY <1>2, <2>2
  <1>4. CASE AsksModel(m)
    <2>1. CASE v = m
      BY <1>2, <2>1
    <2>2. CASE \E e \in 1..Len(m.tail), s \in SummarySizes : v = Summarised(m, e, s)
      <3>1. PICK e \in 1..Len(m.tail) : \E s \in SummarySizes : v = Summarised(m, e, s)
        BY <2>2
      <3>2. /\ v.sum = m.sum \cup {m.tail[i] : i \in 1..e}
            /\ v.tail = SubSeq(m.tail, e + 1, Len(m.tail))
        BY <3>1 DEF Summarised
      <3>3. e \in 0..Len(m.tail)
        BY <1>1
      <3>4. QED
        BY <3>2, <3>3 DEF StandsFor
    <2>3. QED
      BY <1>4, <2>1, <2>2 DEF Compressions
  <1>5. QED
    BY <1>3, <1>4

\* A view made from a prefix, with the rest appended, stands for everything.
LEMMA SplicedStandsFor ==
  ASSUME NEW m \in View, NEW job \in Job, job.snapshotLen <= Len(m.tail),
         StandsFor(job.view, m, job.snapshotLen)
  PROVE  StandsFor(Spliced(job, m), m, Len(m.tail))
PROOF
  <1> DEFINE b == job.snapshotLen
  <1>1. /\ m.tail \in Seq(Nat) /\ Len(m.tail) \in Nat /\ b \in 0..Len(m.tail)
        /\ job.view \in View
    BY DEF View, Job
  <1>2. PICK e \in 0..b : /\ job.view.sum = m.sum \cup {m.tail[i] : i \in 1..e}
                          /\ job.view.tail = SubSeq(m.tail, e + 1, b)
    BY DEF StandsFor
  <1>3. /\ Spliced(job, m).sum = job.view.sum
        /\ Spliced(job, m).tail = job.view.tail \o SubSeq(m.tail, b + 1, Len(m.tail))
    BY <1>1 DEF Spliced, View
  <1>4. Spliced(job, m).tail = SubSeq(m.tail, e + 1, Len(m.tail))
    BY <1>1, <1>2, <1>3, JoinSlices
  <1>5. e \in 0..Len(m.tail)
    BY <1>1
  <1>6. QED
    BY <1>2, <1>3, <1>4, <1>5 DEF StandsFor

\* What stands for a snapshot stands for the prefix it was taken from.
LEMMA SnapshotStandsFor ==
  ASSUME NEW m \in View, NEW snap \in View, NEW v, NEW b \in 0..Len(m.tail),
         snap.sum = m.sum, snap.tail = SubSeq(m.tail, 1, b),
         StandsFor(v, snap, Len(snap.tail))
  PROVE  StandsFor(v, m, b)
PROOF
  <1>1. m.tail \in Seq(Nat) /\ b \in Nat /\ 0 \in 0..b
    BY DEF View
  <1>2. Len(snap.tail) = b /\ \A i \in 1..b : snap.tail[i] = m.tail[i]
    BY <1>1, SliceFacts
  <1>3. PICK e \in 0..b : /\ v.sum = snap.sum \cup {snap.tail[i] : i \in 1..e}
                          /\ v.tail = SubSeq(snap.tail, e + 1, b)
    BY <1>2 DEF StandsFor
  <1>4. {snap.tail[i] : i \in 1..e} = {m.tail[i] : i \in 1..e}
    BY <1>1, <1>2
  <1>5. SubSeq(snap.tail, e + 1, b) = SubSeq(m.tail, e + 1, b)
    BY <1>1, SliceOfPrefix
  <1>6. QED
    BY <1>3, <1>4, <1>5 DEF StandsFor

\* Appending to a conversation does not change what stands for a prefix.
LEMMA AppendKeepsStanding ==
  ASSUME NEW m \in View, NEW w \in View, NEW u \in Seq(Nat), NEW v,
         w.sum = m.sum, w.tail = m.tail \o u,
         NEW b \in 0..Len(m.tail), StandsFor(v, m, b)
  PROVE  StandsFor(v, w, b)
PROOF
  <1>1. m.tail \in Seq(Nat) /\ Len(m.tail) \in Nat /\ b \in Nat
    BY DEF View
  <1>2. PICK e \in 0..b : /\ v.sum = m.sum \cup {m.tail[i] : i \in 1..e}
                          /\ v.tail = SubSeq(m.tail, e + 1, b)
    BY DEF StandsFor
  <1>3. \A i \in 1..Len(m.tail) : w.tail[i] = m.tail[i]
    BY <1>1, ConcatProperties
  <1>4. {w.tail[i] : i \in 1..e} = {m.tail[i] : i \in 1..e}
    BY <1>1, <1>3
  <1>5. SubSeq(w.tail, e + 1, b) = SubSeq(m.tail, e + 1, b)
    BY <1>1, SliceOfLonger
  <1>6. QED
    BY <1>2, <1>4, <1>5 DEF StandsFor
-----------------------------------------------------------------------------
(* Snapshots align, and every step is a step of the transcript *)

DInv ==
  /\ TypeOK
  /\ SnapshotAligned
  /\ pc \in {"sync1", "sync2"} => pending = 0

\* A step that writes messages.
Writes ==
  \E new \in Seq(Message) :
    /\ Len(new) \in 1..(MaxCalls + 1)
    /\ log' = log \o new
    /\ messages' = Appended(messages, new)

\* A step that digests old messages.
Digests ==
  /\ log' = log
  /\ messages' \in View
  /\ StandsFor(messages', messages, Len(messages.tail))

\* A step that leaves the conversation alone.
Still == UNCHANGED <<log, messages>>

\* What every step has to do.
GoodStep == DInv' /\ [T!TNext]_(T!tvars)

LEMMA WritesRefines == ASSUME TypeOK, Writes PROVE T!TNext
PROOF
  <1>1. PICK new \in Seq(Message) : /\ Len(new) \in 1..(MaxCalls + 1)
                                    /\ log' = log \o new
                                    /\ messages' = Appended(messages, new)
    BY DEF Writes
  <1>2. Len(log') = Len(log) + Len(new)
    BY <1>1, ConcatProperties DEF TypeOK
  <1>3. /\ messages'.tail = messages.tail \o [i \in 1..Len(new) |-> Len(log) + i]
        /\ messages'.sum = messages.sum
    BY <1>1 DEF Appended, TypeOK, View
  <1>4. T!Write(Len(new))
    BY <1>2, <1>3 DEF T!Write
  <1>5. QED
    BY <1>1, <1>4 DEF T!TNext

LEMMA DigestsRefines == ASSUME TypeOK, Digests PROVE T!TNext \/ UNCHANGED T!tvars
PROOF
  <1>1. messages.tail \in Seq(Nat) /\ Len(messages.tail) \in Nat
    BY DEF TypeOK, View
  <1>2. PICK e \in 0..Len(messages.tail) :
          /\ messages'.sum = messages.sum \cup {messages.tail[i] : i \in 1..e}
          /\ messages'.tail = SubSeq(messages.tail, e + 1, Len(messages.tail))
    BY DEF Digests, StandsFor
  <1>3. CASE e = 0
    <2>1. messages'.tail = messages.tail
      BY <1>1, <1>2, <1>3, SubSeqFull
    <2>2. messages'.sum = messages.sum
      BY <1>2, <1>3
    <2>3. QED
      BY <2>1, <2>2 DEF T!tvars, Digests
  <1>4. CASE e # 0
    <2>1. e \in 1..Len(messages.tail)
      BY <1>1, <1>4
    <2>2. T!Digest(e)
      BY <1>2 DEF T!Digest, Digests
    <2>3. QED
      BY <2>1, <2>2 DEF T!TNext
  <1>5. QED
    BY <1>3, <1>4

LEMMA WritesAligned ==
  ASSUME DInv, Writes, UNCHANGED <<jobs, pending>>
  PROVE  SnapshotAligned'
PROOF
  <1>1. PICK new \in Seq(Message) : messages' = Appended(messages, new)
    BY DEF Writes
  <1> DEFINE ids == [i \in 1..Len(new) |-> Len(log) + i]
  <1>2. ids \in Seq(Nat)
    BY DEF DInv, TypeOK
  <1>3. messages \in View /\ messages' \in View
    BY <1>1, AppendedType DEF DInv, TypeOK
  <1>4. messages'.sum = messages.sum /\ messages'.tail = messages.tail \o ids
    BY <1>1, <1>3 DEF Appended, View
  <1> HIDE DEF ids
  <1>5. /\ messages.tail \in Seq(Nat) /\ Len(messages.tail) \in Nat /\ Len(ids) \in Nat
        /\ Len(messages'.tail) = Len(messages.tail) + Len(ids)
    BY <1>2, <1>3, <1>4, ConcatProperties DEF View
  <1>6. CASE pending = 0
    BY <1>6 DEF SnapshotAligned
  <1>7. CASE pending # 0
    <2> DEFINE job == jobs[pending]
               b == job.snapshotLen
    <2>1. job \in Job /\ b \in 0..Len(messages.tail)
      <3>1. jobs \in Seq(Job) /\ pending \in 1..Len(jobs)
        BY <1>7 DEF DInv, TypeOK
      <3>2. job \in Job
        BY <3>1
      <3>3. b \in Nat
        BY <3>2 DEF Job
      <3>4. b <= Len(messages.tail)
        BY <1>7 DEF DInv, SnapshotAligned
      <3>5. QED
        BY <1>5, <3>2, <3>3, <3>4
    <2>2. b <= Len(messages'.tail)
      BY <1>5, <2>1
    <2>3. CASE job.phase = "running"
      <3>1. SubSeq(messages'.tail, 1, b) = SubSeq(messages.tail, 1, b)
        <4>1. 0 \in 0..b /\ 0 + 1 = 1
          BY <2>1
        <4>2. SubSeq(messages.tail \o ids, 0 + 1, b) = SubSeq(messages.tail, 0 + 1, b)
          BY <1>2, <1>5, <2>1, <4>1, SliceOfLonger
        <4>3. QED
          BY <1>4, <4>1, <4>2
      <3>0. job.view.sum = messages.sum /\ job.view.tail = SubSeq(messages.tail, 1, b)
        BY <1>7, <2>3 DEF DInv, SnapshotAligned
      <3>2. job.view.sum = messages'.sum /\ job.view.tail = SubSeq(messages'.tail, 1, b)
        BY <1>4, <3>0, <3>1
      <3>3. QED
        BY <2>2, <2>3, <3>2 DEF SnapshotAligned
    <2>4. CASE job.phase = "ready"
      <3>1. StandsFor(job.view, messages, b)
        BY <1>7, <2>4 DEF DInv, SnapshotAligned
      <3>2. StandsFor(job.view, messages', b)
        BY <1>2, <1>3, <1>4, <2>1, <3>1, AppendKeepsStanding
      <3>3. QED
        BY <2>2, <2>4, <3>2 DEF SnapshotAligned
    <2>5. QED
      BY <1>7, <2>3, <2>4 DEF DInv, SnapshotAligned
  <1>8. QED
    BY <1>6, <1>7

LEMMA TriggerAligned ==
  ASSUME DInv, TriggerAsync(messages), messages' = messages
  PROVE  SnapshotAligned'
PROOF
  <1>1. CASE pending # 0
    BY <1>1 DEF TriggerAsync, jobVars, DInv, SnapshotAligned
  <1>2. CASE pending = 0
    <2> DEFINE new == [phase |-> "running", killed |-> FALSE,
                       snapshotLen |-> Len(messages.tail), view |-> messages]
    <2>1. jobs' = Append(jobs, new) /\ pending' = Len(jobs') /\ jobs \in Seq(Job)
      BY <1>2 DEF TriggerAsync, DInv, TypeOK
    <2>2. jobs'[pending'] = new
      BY <2>1
    <2>3. messages.tail \in Seq(Nat) /\ Len(messages.tail) \in Nat
      BY DEF DInv, TypeOK, View
    <2>4. SubSeq(messages.tail, 1, Len(messages.tail)) = messages.tail
      BY <2>3, SubSeqFull
    <2>5. QED
      BY <2>2, <2>3, <2>4 DEF SnapshotAligned
  <1>3. QED
    BY <1>1, <1>2

LEMMA JobReturnsAligned ==
  ASSUME HasTemplate, DInv, NEW j \in JobIds, JobReturns(j)
  PROVE  SnapshotAligned'
PROOF
  <1>1. jobs \in Seq(Job) /\ messages' = messages /\ messages \in View
    BY DEF DInv, TypeOK, JobReturns
  <1>2. j \in DOMAIN jobs /\ jobs[j] \in Job /\ jobs[j].phase = "running"
    <2>1. j \in DOMAIN jobs /\ jobs[j].phase = "running"
      BY DEF JobReturns
    <2>2. QED
      BY <1>1, <2>1
  <1>3. CASE pending = j /\ UNCHANGED pending /\
             \E rebuilt \in Compressions(log, jobs[j].view) :
               jobs' = [jobs EXCEPT ![j].phase = "ready", ![j].view = rebuilt]
    <2>1. PICK rebuilt \in Compressions(log, jobs[j].view) :
            jobs' = [jobs EXCEPT ![j].phase = "ready", ![j].view = rebuilt]
      BY <1>3
    <2> DEFINE b == jobs[j].snapshotLen
               snap == jobs[j].view
    <2>2. /\ jobs'[j].phase = "ready" /\ jobs'[j].view = rebuilt
          /\ jobs'[j].snapshotLen = b
      BY <1>1, <1>2, <2>1 DEF Job
    <2>3. pending # 0 /\ pending' = j
      BY <1>2, <1>3, <1>1
    <2>4. /\ b <= Len(messages.tail) /\ snap.sum = messages.sum
          /\ snap.tail = SubSeq(messages.tail, 1, b)
      BY <1>2, <1>3, <2>3 DEF DInv, SnapshotAligned
    <2>5. snap \in View /\ b \in 0..Len(messages.tail)
      BY <1>1, <1>2, <2>4 DEF Job, View
    <2>6. StandsFor(rebuilt, snap, Len(snap.tail))
      BY <2>1, <2>5, CompressionStandsFor
    <2>7. StandsFor(rebuilt, messages, b)
      BY <1>1, <2>4, <2>5, <2>6, SnapshotStandsFor
    <2>8. QED
      BY <1>1, <2>2, <2>3, <2>4, <2>7 DEF SnapshotAligned
  <1>4. CASE pending' = 0
    BY <1>4 DEF SnapshotAligned
  <1>5. CASE pending # j /\ jobs' = [jobs EXCEPT ![j] = GoneJob] /\ UNCHANGED pending
    <2>1. pending # 0 => pending \in DOMAIN jobs /\ jobs'[pending] = jobs[pending]
      BY <1>1, <1>5 DEF DInv, TypeOK
    <2>2. QED
      BY <1>1, <1>5, <2>1 DEF DInv, SnapshotAligned
  <1>6. QED
    BY <1>3, <1>4, <1>5 DEF JobReturns

\* The step of one action: it writes, digests or leaves the conversation
\* alone, and the pending job stays aligned.
LEMMA DNext ==
  ASSUME HasTemplate, DInv, [Next]_vars
  PROVE  GoodStep
PROOF
  <1> USE DEF jobVars, runVars, Still
  <1>0. TypeOK /\ TypeOK' /\ messages' \in View
    BY TypeNext DEF DInv, TypeOK
  <1> DEFINE Sync == pc \in {"sync1", "sync2"}
  <1>a. ASSUME SnapshotAligned', Sync' => pending' = 0, Still \/ Writes \/ Digests
        PROVE  GoodStep
    <2>1. CASE Still
      BY <1>0, <1>a, <2>1 DEF DInv, GoodStep, T!tvars
    <2>2. CASE Writes
      BY <1>0, <1>a, <2>2, WritesRefines DEF DInv, GoodStep
    <2>3. CASE Digests
      BY <1>0, <1>a, <2>3, DigestsRefines DEF DInv, GoodStep
    <2>4. QED
      BY <1>a, <2>1, <2>2, <2>3
  <1>b. ASSUME CancelPending, Still \/ Writes \/ Digests PROVE GoodStep
    BY <1>a, <1>b DEF CancelPending, SnapshotAligned
  <1>c. ASSUME Still, UNCHANGED <<jobs, pending>>, ~Sync' PROVE GoodStep
    BY <1>a, <1>c DEF DInv, SnapshotAligned
  <1>d. ASSUME Writes, UNCHANGED <<jobs, pending>>, ~Sync' PROVE GoodStep
    BY <1>a, <1>d, WritesAligned
  <1>1. CASE SendRequest
    BY <1>1, <1>c DEF SendRequest
  <1>2. CASE StopOnCancel \/ RequestFails \/ GraceAnswer
    BY <1>2, <1>b DEF StopOnCancel, RequestFails, GraceAnswer, Return
  <1>3. CASE AnswerWithoutCalls
    <2>1. PICK body \in BOOLEAN, a \in MessageSizes, u \in MessageSizes :
            LET nudge == [role |-> "user", size |-> u]
                new == IF body THEN <<[role |-> "assistant", size |-> a], nudge>>
                       ELSE <<nudge>>
            IN log' = log \o new /\ messages' = Appended(messages, new)
      BY <1>3 DEF AnswerWithoutCalls
    <2> DEFINE nudge == [role |-> "user", size |-> u]
               asst == [role |-> "assistant", size |-> a]
               new == IF body THEN <<asst, nudge>> ELSE <<nudge>>
    <2>2. log' = log \o new /\ messages' = Appended(messages, new)
      BY <2>1
    <2>3. nudge \in Message /\ asst \in Message
      BY DEF Message
    <2> HIDE DEF nudge, asst
    <2>4. new \in Seq(Message) /\ Len(new) \in 1..2
      BY <2>3
    <2>5. 1..2 \subseteq 1..(MaxCalls + 1)
      BY LimitsAssumption
    <2>6. Writes
      BY <2>2, <2>4, <2>5 DEF Writes
    <2>7. QED
      BY <1>3, <1>d, <2>6 DEF AnswerWithoutCalls
  <1>4. CASE AnswerWithCalls
    <2>1. Still
      BY <1>4 DEF AnswerWithCalls
    <2>2. CancelPending \/ (UNCHANGED <<jobs, pending>> /\ pc' = "apply")
      BY <1>4 DEF AnswerWithCalls, TaskFailed, TaskCompleted, TurnContinues, Return
    <2>3. QED
      BY <1>b, <1>c, <2>1, <2>2
  <1>5. CASE ApplyPending
    <2>1. log' = log
      BY <1>5 DEF ApplyPending
    <2>2. CASE CanApply
      <3> DEFINE job == jobs[pending]
      <3>1. pending # 0 /\ job.phase = "ready" /\ job \in Job /\ messages \in View
        BY <1>0, <2>2 DEF CanApply, TypeOK
      <3>2. job.snapshotLen <= Len(messages.tail) /\ StandsFor(job.view, messages, job.snapshotLen)
        BY <3>1 DEF DInv, SnapshotAligned
      <3>3. messages' = Spliced(job, messages)
        BY <1>5, <2>2 DEF ApplyPending
      <3>4. Digests
        BY <1>0, <2>1, <3>1, <3>2, <3>3, SplicedStandsFor DEF Digests
      <3>5. CancelPending
        BY <1>5, <2>2 DEF ApplyPending
      <3>6. QED
        BY <1>b, <3>4, <3>5
    <2>3. CASE ~CanApply
      <3>1. Still
        BY <1>5, <2>1, <2>3 DEF ApplyPending
      <3>2. CancelPending \/ (UNCHANGED <<jobs, pending>> /\ pc' = "append")
        BY <1>5, <2>3 DEF ApplyPending
      <3>3. QED
        BY <1>b, <1>c, <3>1, <3>2
    <2>4. QED
      BY <2>2, <2>3
  <1>6. CASE AppendTurn
    <2>1. PICK a \in MessageSizes, s \in [1..results -> MessageSizes] :
            LET new == <<[role |-> "assistant", size |-> a]>>
                       \o [i \in 1..results |-> [role |-> "tool", size |-> s[i]]]
            IN log' = log \o new /\ messages' = Appended(messages, new)
      BY <1>6 DEF AppendTurn
    <2> DEFINE asst == <<[role |-> "assistant", size |-> a]>>
               tools == [i \in 1..results |-> [role |-> "tool", size |-> s[i]]]
    <2>2. asst \in Seq(Message) /\ Len(asst) = 1
      BY DEF Message
    <2>3. results \in Nat /\ results <= MaxCalls /\ MaxCalls \in Nat
      BY <1>0, LimitsAssumption DEF TypeOK
    <2>4. tools \in Seq(Message) /\ Len(tools) = results
      <3>1. \A i \in 1..results : [role |-> "tool", size |-> s[i]] \in Message
        BY DEF Message
      <3>2. QED
        BY <2>3, <3>1
    <2>5. log' = log \o (asst \o tools) /\ messages' = Appended(messages, asst \o tools)
      BY <2>1
    <2> HIDE DEF asst, tools
    <2>6. asst \o tools \in Seq(Message) /\ Len(asst \o tools) = 1 + results
      BY <2>2, <2>3, <2>4, ConcatLength
    <2> DEFINE new == asst \o tools
    <2>7. Writes
      <3>1. Len(new) \in 1..(MaxCalls + 1)
        BY <2>3, <2>6
      <3>2. new \in Seq(Message) /\ log' = log \o new /\ messages' = Appended(messages, new)
        BY <2>5, <2>6
      <3> HIDE DEF new
      <3>3. QED
        BY <3>1, <3>2 DEF Writes
    <2>8. CancelPending \/ (UNCHANGED <<jobs, pending>> /\ pc' = "settle")
      BY <1>6 DEF AppendTurn
    <2>9. QED
      BY <1>b, <1>d, <2>7, <2>8
  <1>7. CASE SyncCompress
    <2>1. pending = 0 /\ UNCHANGED <<jobs, pending>> /\ log' = log
      BY <1>7 DEF SyncCompress, DInv
    <2>2. Still \/ Digests
      <3>1. CASE messages' \in Compressions(log, messages)
        BY <1>0, <2>1, <3>1, CompressionStandsFor DEF Digests, TypeOK
      <3>2. QED
        BY <1>7, <2>1, <3>1 DEF SyncCompress
    <2>3. QED
      BY <1>a, <2>1, <2>2 DEF SnapshotAligned
  <1>8. CASE Settle
    <2>1. Still
      BY <1>8 DEF Settle
    <2>2. \/ CancelPending
          \/ pc' = "loop" /\ UNCHANGED <<jobs, pending>>
          \/ pc' = "loop" /\ TriggerAsync(messages)
      BY <1>8 DEF Settle, Return
    <2>3. QED
      BY <1>a, <1>b, <1>c, <2>1, <2>2, TriggerAligned
  <1>9. CASE BudgetSpent
    <2>1. CancelPending \/ (UNCHANGED <<jobs, pending>> /\ pc' = "grace")
      BY <1>9 DEF BudgetSpent, Return
    <2>2. QED
      BY <1>9, <1>b, <1>c, <2>1 DEF BudgetSpent
  <1>10. CASE GraceRequest
    <2>1. PICK u \in MessageSizes :
            /\ log' = log \o <<[role |-> "user", size |-> u]>>
            /\ messages' = Appended(messages, <<[role |-> "user", size |-> u]>>)
      BY <1>10 DEF GraceRequest
    <2> DEFINE new == <<[role |-> "user", size |-> u]>>
    <2>2. new \in Seq(Message) /\ Len(new) = 1
      BY DEF Message
    <2>3. Writes
      <3>1. Len(new) \in 1..(MaxCalls + 1)
        BY <2>2, LimitsAssumption
      <3>2. new \in Seq(Message) /\ log' = log \o new /\ messages' = Appended(messages, new)
        BY <2>1, <2>2
      <3> HIDE DEF new
      <3>3. QED
        BY <3>1, <3>2 DEF Writes
    <2>4. CancelPending \/ (UNCHANGED <<jobs, pending>> /\ pc' = "graceLLM")
      BY <1>10 DEF GraceRequest, Return
    <2>5. QED
      BY <1>b, <1>d, <2>3, <2>4
  <1>11. ASSUME NEW j \in JobIds, JobReturns(j) PROVE GoodStep
    <2>1. Still /\ pc' = pc
      BY <1>11 DEF JobReturns
    <2>2. Sync' => pending' = 0
      <3>1. j # 0
        BY LimitsAssumption DEF JobIds
      <3>2. QED
        BY <1>11, <2>1, <3>1 DEF JobReturns, DInv
    <2>3. QED
      BY <1>a, <1>11, <2>1, <2>2, JobReturnsAligned
  <1>12. CASE CancelContext \/ UNCHANGED vars
    <2>1. Still /\ UNCHANGED <<jobs, pending, pc>>
      BY <1>12 DEF CancelContext, vars
    <2>2. QED
      BY <1>a, <2>1 DEF DInv, SnapshotAligned
  <1>13. QED
    BY <1>1, <1>2, <1>3, <1>4, <1>5, <1>6, <1>7, <1>8, <1>9, <1>10, <1>11, <1>12
       DEF Next, LoopStep

LEMMA DInit == Init => DInv /\ T!TInit
PROOF
  <1> SUFFICES ASSUME Init PROVE DInv /\ T!TInit
    OBVIOUS
  <1>1. log = << >> /\ messages.sum = {} /\ messages.tail = << >> /\ pending = 0 /\ pc = "loop"
    BY DEF Init
  <1>2. Len(log) = 0
    BY <1>1
  <1>3. QED
    BY <1>1, <1>2, TypeInit DEF DInv, SnapshotAligned, T!TInit

\* The job the loop may still apply stands for a prefix of the conversation.
THEOREM SnapshotsAlign == HasTemplate => (Spec => []SnapshotAligned)
PROOF
  <1> SUFFICES ASSUME HasTemplate PROVE Spec => []SnapshotAligned
    OBVIOUS
  <1>1. DInv => SnapshotAligned
    BY DEF DInv
  <1>2. Init => DInv
    BY DInit
  <1>3. DInv /\ [Next]_vars => DInv'
    BY DNext DEF GoodStep
  <1>4. QED
    BY <1>1, <1>2, <1>3, PTL DEF Spec

\* With a compression template the loop implements the transcript.
THEOREM Refinement == HasTemplate => (Spec => ImplementsTranscript)
PROOF
  <1> SUFFICES ASSUME HasTemplate PROVE Spec => ImplementsTranscript
    OBVIOUS
  <1>1. Init => DInv /\ T!TInit
    BY DInit
  <1>2. DInv /\ [Next]_vars => DInv' /\ [T!TNext]_(T!tvars)
    BY DNext DEF GoodStep
  <1>3. QED
    BY <1>1, <1>2, PTL DEF Spec, ImplementsTranscript, T!TSpec

-----------------------------------------------------------------------------
(* What the transcript promises *)

\* The transcript the loop writes: its length and what is still verbatim.
TypeT ==
  /\ Len(log) \in Nat
  /\ messages.tail \in Seq(Nat)

\* Writing at the end keeps the numbering.
LEMMA TWriteKeeps ==
  ASSUME TypeT, T!NothingLost, NEW n \in 1..(MaxCalls + 1), T!Write(n)
  PROVE  TypeT' /\ T!NothingLost'
PROOF
  <1> DEFINE new == [i \in 1..n |-> Len(log) + i]
  <1>1. n \in Nat /\ Len(log) \in Nat /\ messages.tail \in Seq(Nat) /\ Len(messages.tail) \in Nat
    BY DEF TypeT
  <1>2. new \in Seq(Nat) /\ Len(new) = n
    BY <1>1
  <1>3. messages'.tail = messages.tail \o new /\ Len(log)' = Len(log) + n /\ messages'.sum = messages.sum
    BY DEF T!Write
  <1>4. \A i \in 1..n : new[i] = Len(log) + i
    OBVIOUS
  <1> HIDE DEF new
  <1>5. /\ messages'.tail \in Seq(Nat)
        /\ Len(messages'.tail) = Len(messages.tail) + n
        /\ \A i \in 1..(Len(messages.tail) + n) :
             messages'.tail[i] = IF i <= Len(messages.tail) THEN messages.tail[i]
                            ELSE new[i - Len(messages.tail)]
    <2> DEFINE s == messages.tail
               t == messages'.tail
    <2>1. s \in Seq(Nat) /\ new \in Seq(Nat) /\ Len(new) = n /\ t = s \o new
      BY <1>1, <1>2, <1>3
    <2> HIDE DEF s, t
    <2>2. /\ t \in Seq(Nat) /\ Len(t) = Len(s) + Len(new)
          /\ \A i \in 1..(Len(s) + Len(new)) : t[i] = IF i <= Len(s) THEN s[i] ELSE new[i - Len(s)]
      BY <2>1, ConcatProperties
    <2>3. /\ t \in Seq(Nat) /\ Len(t) = Len(s) + n
          /\ \A i \in 1..(Len(s) + n) : t[i] = IF i <= Len(s) THEN s[i] ELSE new[i - Len(s)]
      BY <2>1, <2>2
    <2> QED BY <2>3 DEF s, t
  <1>6. T!Cut' = T!Cut /\ T!Cut \in Nat
    BY <1>1, <1>3, <1>5 DEF T!Cut, T!NothingLost
  <1>7. ASSUME NEW i \in 1..(Len(messages.tail) + n) PROVE messages'.tail[i] = T!Cut + i
    <2>1. CASE i <= Len(messages.tail)
      BY <2>1, <1>1, <1>5 DEF T!NothingLost
    <2>2. CASE i > Len(messages.tail)
      <3>1. i - Len(messages.tail) \in 1..n
        BY <2>2, <1>1
      <3>2. ~(i <= Len(messages.tail))
        BY <2>2, <1>1
      <3>3. messages'.tail[i] = new[i - Len(messages.tail)]
        BY <3>2, <1>5
      <3>4. new[i - Len(messages.tail)] = Len(log) + (i - Len(messages.tail))
        BY <3>1, <1>4
      <3>5. QED
        BY <3>3, <3>4, <1>1 DEF T!Cut
    <2>3. QED
      BY <2>1, <2>2, <1>1
  <1>8. QED
    BY <1>1, <1>3, <1>5, <1>6, <1>7 DEF TypeT, T!NothingLost

\* Digesting the oldest messages moves the cut and nothing else.
LEMMA TDigestKeeps ==
  ASSUME TypeT, T!NothingLost, NEW e \in 1..Len(messages.tail), T!Digest(e)
  PROVE  TypeT' /\ T!NothingLost'
PROOF
  <1> DEFINE w == Len(log)
             v == messages.tail
             d == messages.sum
             left == SubSeq(v, e + 1, Len(v))
             c == w - Len(v)
             k == Len(v)
             moved == {v[i] : i \in 1..e}
  <1>1. w \in Nat /\ v \in Seq(Nat) /\ k \in Nat /\ e \in 1..k /\ e \in Nat /\ k = Len(v)
    BY DEF TypeT
  <1>2. messages'.tail = left /\ Len(log)' = w /\ messages'.sum = d \cup moved
    BY DEF T!Digest
  <1>3. c >= 0 /\ d = 1..c /\ \A i \in 1..k : v[i] = c + i
    BY DEF T!NothingLost, T!Cut
  <1>4. c = w - k
    OBVIOUS
  <1>5. left \in Seq(Nat) /\ Len(left) = k - e /\ \A i \in 1..(k - e) : left[i] = v[e + i]
    <2> HIDE DEF v
    <2> QED BY <1>1, SubSeqProperties
  <1> HIDE DEF w, v, d, c, k, left, moved
  <1>6. c \in Nat /\ c + e \in Nat /\ c + e = w - (k - e) /\ c + e >= 0
    BY <1>1, <1>3, <1>4
  <1>7. moved = (c + 1)..(c + e)
    <2>1. ASSUME NEW i \in 1..e PROVE v[i] \in (c + 1)..(c + e)
      <3>1. i \in 1..k /\ i \in Nat /\ i >= 1 /\ i <= e
        BY <1>1
      <3>2. v[i] = c + i
        BY <1>3, <3>1
      <3>3. c + i \in (c + 1)..(c + e)
        BY <1>6, <1>1, <3>1
      <3> QED BY <3>2, <3>3
    <2>2. ASSUME NEW x \in (c + 1)..(c + e)
          PROVE  \E i \in 1..e : v[i] = x
      <3>1. x - c \in 1..e /\ x - c \in 1..k /\ c + (x - c) = x
        BY <1>1, <1>6
      <3> QED BY <1>3, <3>1
    <2> QED BY <2>1, <2>2 DEF moved
  <1>8. d \cup moved = 1..(c + e)
    <2>1. d \cup moved = (1..c) \cup ((c + 1)..(c + e))
      BY <1>3, <1>7
    <2>2. (1..c) \cup ((c + 1)..(c + e)) = 1..(c + e)
      BY <1>1, <1>6
    <2> QED BY <2>1, <2>2
  <1>9. \A i \in 1..(k - e) : left[i] = (c + e) + i
    <2> TAKE i \in 1..(k - e)
    <2>1. e + i \in 1..k /\ c + (e + i) = (c + e) + i
      BY <1>1, <1>6
    <2>2. v[e + i] = c + (e + i)
      BY <1>3, <2>1
    <2> QED BY <1>5, <2>1, <2>2
  <1>10. T!Cut' = c + e
    BY <1>2, <1>5, <1>6 DEF T!Cut
  <1>11. TypeT'
    BY <1>1, <1>2, <1>5 DEF TypeT
  <1> QED BY <1>2, <1>5, <1>6, <1>8, <1>9, <1>10, <1>11 DEF T!NothingLost

\* Every message of a transcript stays digested or verbatim, exactly once and
\* in its place.
THEOREM TranscriptLosesNothing == T!TSpec => []T!NothingLost
PROOF
  <1>1. T!TInit => TypeT /\ T!NothingLost
    BY DEF T!TInit, TypeT, T!NothingLost, T!Cut
  <1>2. TypeT /\ T!NothingLost /\ [T!TNext]_(T!tvars) => TypeT' /\ T!NothingLost'
    <2> SUFFICES ASSUME TypeT, T!NothingLost, [T!TNext]_(T!tvars)
                 PROVE  TypeT' /\ T!NothingLost'
      OBVIOUS
    <2>1. ASSUME NEW n \in 1..(MaxCalls + 1), T!Write(n) PROVE TypeT' /\ T!NothingLost'
      BY <2>1, TWriteKeeps
    <2>2. ASSUME NEW e \in 1..Len(messages.tail), T!Digest(e) PROVE TypeT' /\ T!NothingLost'
      BY <2>2, TDigestKeeps
    <2>3. CASE UNCHANGED T!tvars
      BY <2>3 DEF T!tvars, TypeT, T!NothingLost, T!Cut
    <2>4. QED
      BY <2>1, <2>2, <2>3 DEF T!TNext
  <1>3. QED
    BY <1>1, <1>2, PTL DEF T!TSpec

\* With a compression template no message of a conversation is lost, doubled
\* or moved.
THEOREM ConversationLosesNothing == HasTemplate => (Spec => []NothingLost)
PROOF
  <1> SUFFICES ASSUME HasTemplate PROVE Spec => []NothingLost
    OBVIOUS
  <1>1. Spec => T!TSpec
    BY Refinement DEF ImplementsTranscript
  <1>2. T!TSpec => []T!NothingLost
    BY TranscriptLosesNothing
  <1>3. QED
    BY <1>1, <1>2, PTL DEF NothingLost

-----------------------------------------------------------------------------
(* The conversation is cut between rounds only *)

\* Tail t holds messages of log lg, and each tool result follows its call.
Rounded(lg, t) ==
  \A i \in DOMAIN t :
    /\ t[i] \in DOMAIN lg
    /\ lg[t[i]].role = "tool" =>
         i > 1 /\ t[i - 1] = t[i] - 1 /\ lg[t[i - 1]].role # "user"

BetweenRounds(lg, t, e) == e < Len(t) => lg[t[e + 1]].role # "tool"

\* s is what is left of the first len messages of t after such a cut.
CutFrom(lg, s, t, len) ==
  \E e \in 0..len : s = SubSeq(t, e + 1, len) /\ BetweenRounds(lg, t, e)

\* A snapshot ends between rounds too: what is appended after it starts with
\* an answer or a nudge.
CutInv ==
  /\ Rounded(log, messages.tail)
  /\ pc \in {"sync1", "sync2"} => pending = 0
  /\ pending # 0 =>
       LET job == jobs[pending] IN
       /\ job.snapshotLen <= Len(messages.tail)
       /\ BetweenRounds(log, messages.tail, job.snapshotLen)
       /\ CutFrom(log, job.view.tail, messages.tail, job.snapshotLen)
       /\ job.phase = "running" => job.view.tail = SubSeq(messages.tail, 1, job.snapshotLen)

\* partitionMessages cuts after the last tool result of a round.
LEMMA CutAfterResults ==
  ASSUME NEW lg, NEW t \in Seq(Nat), NEW e \in 1..Len(t), IsCompressEnd(lg, t, e)
  PROVE  BetweenRounds(lg, t, e)
PROOF
  <1>0. Len(t) \in Nat /\ DOMAIN t = 1..Len(t)
    OBVIOUS
  <1>1. CASE Rounds(lg, t) \ ActiveRounds(lg, t) = {}
    BY <1>0, <1>1 DEF IsCompressEnd, BetweenRounds
  <1>2. CASE Rounds(lg, t) \ ActiveRounds(lg, t) # {}
    <2>1. PICK last \in Rounds(lg, t) : /\ e \in RoundAt(lg, t, last)
                                        /\ e + 1 \notin RoundAt(lg, t, last)
      BY <1>2 DEF IsCompressEnd
    <2>2. last \in Nat /\ e \in last..Len(t) /\ \A j \in (last + 1)..e : lg[t[j]].role = "tool"
      BY <1>0, <2>1 DEF Rounds, RoundAt
    <2> SUFFICES ASSUME e < Len(t), lg[t[e + 1]].role = "tool" PROVE FALSE
      BY DEF BetweenRounds
    <2>3. e + 1 \in last..Len(t)
      BY <1>0, <2>2
    <2>4. \A j \in (last + 1)..(e + 1) : j \in (last + 1)..e \/ j = e + 1
      BY <2>2
    <2>5. \A j \in (last + 1)..(e + 1) : lg[t[j]].role = "tool"
      BY <2>2, <2>4
    <2> QED
      BY <2>1, <2>3, <2>5 DEF RoundAt
  <1> QED
    BY <1>1, <1>2

\* What runCompression returns is the conversation after such a cut.
LEMMA CompressionCuts ==
  ASSUME NEW lg, NEW m \in View, Rounded(lg, m.tail), NEW v \in Compressions(lg, m)
  PROVE  CutFrom(lg, v.tail, m.tail, Len(m.tail))
PROOF
  <1>1. m.tail \in Seq(Nat) /\ Len(m.tail) \in Nat /\ DOMAIN m.tail = 1..Len(m.tail)
    BY DEF View
  <1>2. CASE v.tail = m.tail
    <2>1. SubSeq(m.tail, 0 + 1, Len(m.tail)) = m.tail
      BY <1>1, SubSeqFull
    <2>2. BetweenRounds(lg, m.tail, 0)
      <3> SUFFICES ASSUME 0 < Len(m.tail), lg[m.tail[1]].role = "tool" PROVE FALSE
        BY DEF BetweenRounds
      <3> QED BY <1>1 DEF Rounded
    <2>3. 0 \in 0..Len(m.tail)
      BY <1>1
    <2> QED BY <1>2, <2>1, <2>2, <2>3 DEF CutFrom
  <1>3. CASE ~AsksModel(m)
    <2>1. v.tail = << >>
      BY <1>3 DEF Compressions, View
    <2>2. SubSeq(m.tail, Len(m.tail) + 1, Len(m.tail)) = << >>
      BY <1>1
    <2>3. BetweenRounds(lg, m.tail, Len(m.tail)) /\ Len(m.tail) \in 0..Len(m.tail)
      BY <1>1 DEF BetweenRounds
    <2> QED BY <2>1, <2>2, <2>3 DEF CutFrom
  <1>4. CASE \E e \in 1..Len(m.tail), s \in SummarySizes :
               IsCompressEnd(lg, m.tail, e) /\ v = Summarised(m, e, s)
    <2>1. PICK e \in 1..Len(m.tail), s \in SummarySizes :
            IsCompressEnd(lg, m.tail, e) /\ v = Summarised(m, e, s)
      BY <1>4
    <2>2. v.tail = SubSeq(m.tail, e + 1, Len(m.tail)) /\ e \in 0..Len(m.tail)
      BY <1>1, <2>1 DEF Summarised
    <2>3. BetweenRounds(lg, m.tail, e)
      BY <1>1, <2>1, CutAfterResults
    <2> QED BY <2>2, <2>3 DEF CutFrom
  <1> QED
    BY <1>2, <1>3, <1>4 DEF Compressions

\* After a cut between rounds the rest is still made of rounds.
LEMMA CutKeepsRounds ==
  ASSUME NEW lg, NEW t \in Seq(Nat), NEW s, Rounded(lg, t), CutFrom(lg, s, t, Len(t))
  PROVE  Rounded(lg, s)
PROOF
  <1>1. PICK e \in 0..Len(t) : s = SubSeq(t, e + 1, Len(t)) /\ BetweenRounds(lg, t, e)
    BY DEF CutFrom
  <1>2. Len(t) \in Nat /\ DOMAIN t = 1..Len(t) /\ Len(t) \in 0..Len(t) /\ e \in 0..Len(t)
    BY <1>1
  <1>3. s \in Seq(Nat) /\ Len(s) = Len(t) - e /\ \A i \in 1..(Len(t) - e) : s[i] = t[e + i]
    BY <1>1, <1>2, SliceFacts
  <1>4. DOMAIN s = 1..(Len(t) - e)
    BY <1>3
  <1> SUFFICES ASSUME NEW i \in 1..(Len(t) - e)
               PROVE  /\ s[i] \in DOMAIN lg
                      /\ lg[s[i]].role = "tool" =>
                           i > 1 /\ s[i - 1] = s[i] - 1 /\ lg[s[i - 1]].role # "user"
    BY <1>4 DEF Rounded
  <1>5. e + i \in DOMAIN t /\ s[i] = t[e + i]
    BY <1>2, <1>3
  <1>6. s[i] \in DOMAIN lg
    BY <1>5 DEF Rounded
  <1>7. ASSUME lg[s[i]].role = "tool"
        PROVE  i > 1 /\ s[i - 1] = s[i] - 1 /\ lg[s[i - 1]].role # "user"
    <2>1. i # 1
      BY <1>1, <1>2, <1>5, <1>7 DEF BetweenRounds
    <2>2. i - 1 \in 1..(Len(t) - e) /\ e + (i - 1) = (e + i) - 1
      BY <1>2, <2>1
    <2>3. s[i - 1] = t[(e + i) - 1]
      BY <1>3, <2>2
    <2>4. t[(e + i) - 1] = t[e + i] - 1 /\ lg[t[(e + i) - 1]].role # "user"
      BY <1>5, <1>7 DEF Rounded
    <2> QED BY <1>5, <2>1, <2>3, <2>4
  <1> QED BY <1>6, <1>7

\* A turn, as it is appended: what starts it is no tool result, and what
\* precedes a tool result is no prompt.
Turn(new) ==
  /\ Len(new) >= 1 /\ new[1].role # "tool"
  /\ \A i \in 2..Len(new) : new[i].role = "tool" => new[i - 1].role # "user"
Turns ==
  \E new \in Seq(Message) : Turn(new) /\ log' = log \o new /\ messages' = Appended(messages, new)

LEMMA TurnsCut ==
  ASSUME TypeOK, CutInv, Turns,
         pending' = 0 \/ (UNCHANGED <<jobs, pending>> /\ pc' \notin {"sync1", "sync2"})
  PROVE  CutInv'
PROOF
  <1> DEFINE t == messages.tail
             n == Len(log)
             w == messages'.tail
             lg == log'
  <1>1. PICK new \in Seq(Message) : Turn(new) /\ log' = log \o new /\ messages' = Appended(messages, new)
    BY DEF Turns
  <1> DEFINE ids == [i \in 1..Len(new) |-> n + i]
  <1>2. log \in Seq(Message) /\ n \in Nat /\ t \in Seq(Nat) /\ Len(t) \in Nat /\ Len(new) \in Nat
    BY DEF TypeOK, View
  <1>3. ids \in Seq(Nat) /\ Len(ids) = Len(new) /\ \A i \in 1..Len(new) : ids[i] = n + i
    BY <1>2
  <1>4. w = t \o ids
    BY <1>1 DEF Appended, TypeOK, View
  <1>5. /\ lg \in Seq(Message) /\ Len(lg) = n + Len(new) /\ DOMAIN lg = 1..(n + Len(new))
        /\ \A i \in 1..n : lg[i] = log[i]
        /\ \A i \in 1..Len(new) : lg[n + i] = new[i]
    <2>1. log \o new \in Seq(Message) /\ Len(log \o new) = n + Len(new)
      BY <1>2, ConcatProperties
    <2>2. \A i \in 1..(n + Len(new)) : (log \o new)[i] = IF i <= n THEN log[i] ELSE new[i - n]
      BY <1>2, ConcatProperties
    <2>3. \A i \in 1..Len(new) : n + i \in 1..(n + Len(new)) /\ ~(n + i <= n) /\ (n + i) - n = i
      BY <1>2
    <2>4. \A i \in 1..n : i \in 1..(n + Len(new)) /\ i <= n
      BY <1>2
    <2>5. \A i \in 1..Len(new) : (log \o new)[n + i] = new[i]
      BY <2>2, <2>3
    <2>6. \A i \in 1..n : (log \o new)[i] = log[i]
      BY <2>2, <2>4
    <2>7. DOMAIN (log \o new) = 1..(n + Len(new))
      BY <2>1
    <2> QED BY <1>1, <2>1, <2>5, <2>6, <2>7
  <1> HIDE DEF ids, n
  <1>6. /\ w \in Seq(Nat) /\ Len(w) = Len(t) + Len(new) /\ DOMAIN w = 1..(Len(t) + Len(new))
        /\ \A i \in 1..Len(t) : w[i] = t[i]
        /\ \A i \in 1..Len(new) : w[Len(t) + i] = n + i
    <2> DEFINE both == t \o ids
    <2>a. /\ both \in Seq(Nat) /\ Len(both) = Len(t) + Len(ids)
          /\ \A i \in 1..(Len(t) + Len(ids)) : both[i] = IF i <= Len(t) THEN t[i] ELSE ids[i - Len(t)]
      <3> HIDE DEF t
      <3> QED BY <1>2, <1>3, ConcatProperties
    <2> HIDE DEF both, t
    <2>1. /\ Len(both) = Len(t) + Len(new)
          /\ \A i \in 1..(Len(t) + Len(new)) : both[i] = IF i <= Len(t) THEN t[i] ELSE ids[i - Len(t)]
      BY <1>3, <2>a
    <2>2. DOMAIN both = 1..(Len(t) + Len(new)) /\ \A i \in 1..Len(t) : both[i] = t[i]
      <3>1. \A i \in 1..Len(t) : i \in 1..(Len(t) + Len(new)) /\ i <= Len(t)
        BY <1>2
      <3> QED BY <2>a, <2>1, <3>1
    <2>3. ASSUME NEW i \in 1..Len(new) PROVE both[Len(t) + i] = n + i
      <3>1. Len(t) + i \in 1..(Len(t) + Len(new)) /\ ~(Len(t) + i <= Len(t)) /\ (Len(t) + i) - Len(t) = i
        BY <1>2
      <3>2. both[Len(t) + i] = ids[i]
        BY <2>1, <3>1
      <3> QED BY <1>3, <3>2
    <2>4. w = both
      BY <1>4 DEF both
    <2> QED BY <2>a, <2>1, <2>2, <2>3, <2>4
  <1> HIDE DEF w, lg, t
  <1>7. Rounded(log, t) /\ Rounded(log, t) => \A i \in 1..Len(t) : t[i] \in 1..n /\ lg[t[i]] = log[t[i]]
    <2>1. DOMAIN t = 1..Len(t) /\ DOMAIN log = 1..n
      BY <1>2 DEF n
    <2> QED BY <1>5, <2>1 DEF CutInv, Rounded, t
  <1>8. Rounded(log, t)
    BY DEF CutInv, t
  <1>9. Rounded(lg, w)
    <2> SUFFICES ASSUME NEW i \in 1..(Len(t) + Len(new))
                 PROVE  /\ w[i] \in DOMAIN lg
                        /\ lg[w[i]].role = "tool" =>
                             i > 1 /\ w[i - 1] = w[i] - 1 /\ lg[w[i - 1]].role # "user"
      BY <1>6 DEF Rounded
    <2>1. CASE i <= Len(t)
      <3>1. i \in 1..Len(t) /\ DOMAIN t = 1..Len(t)
        BY <1>2, <2>1
      <3>2. w[i] = t[i] /\ t[i] \in 1..n /\ lg[t[i]] = log[t[i]]
        BY <1>6, <1>7, <1>8, <3>1
      <3>3. w[i] \in DOMAIN lg
        BY <1>2, <1>5, <3>2
      <3>4. ASSUME lg[w[i]].role = "tool"
            PROVE  i > 1 /\ w[i - 1] = w[i] - 1 /\ lg[w[i - 1]].role # "user"
        <4>1. i > 1 /\ t[i - 1] = t[i] - 1 /\ log[t[i - 1]].role # "user"
          BY <1>8, <3>1, <3>2, <3>4 DEF Rounded
        <4>2. i - 1 \in 1..Len(t)
          BY <3>1, <4>1, <1>2
        <4>3. w[i - 1] = t[i - 1] /\ lg[t[i - 1]] = log[t[i - 1]]
          BY <1>6, <1>7, <1>8, <4>2
        <4> QED BY <3>2, <4>1, <4>3
      <3> QED BY <3>3, <3>4
    <2>2. CASE ~(i <= Len(t))
      <3> DEFINE k == i - Len(t)
      <3>1. k \in 1..Len(new) /\ i = Len(t) + k
        BY <1>2, <2>2
      <3> HIDE DEF k
      <3>2. w[i] = n + k /\ lg[n + k] = new[k]
        BY <1>5, <1>6, <3>1
      <3>3. w[i] \in DOMAIN lg
        BY <1>2, <1>5, <3>1, <3>2 DEF n
      <3>4. ASSUME lg[w[i]].role = "tool"
            PROVE  i > 1 /\ w[i - 1] = w[i] - 1 /\ lg[w[i - 1]].role # "user"
        <4>1. k # 1
          BY <1>1, <3>2, <3>4 DEF Turn
        <4>2. k \in 2..Len(new) /\ k - 1 \in 1..Len(new) /\ i - 1 = Len(t) + (k - 1) /\ i > 1
          BY <1>2, <3>1, <4>1
        <4>3. w[i - 1] = n + (k - 1) /\ lg[n + (k - 1)] = new[k - 1]
          BY <1>5, <1>6, <4>2
        <4>4. new[k - 1].role # "user"
          BY <1>1, <3>2, <3>4, <4>2 DEF Turn
        <4>5. n + (k - 1) = (n + k) - 1
          BY <1>2, <3>1 DEF n
        <4> QED BY <3>2, <4>2, <4>3, <4>4, <4>5
      <3> QED BY <3>3, <3>4
    <2> QED BY <2>1, <2>2
  <1>10. ASSUME NEW e \in 0..Len(t), BetweenRounds(log, t, e)
         PROVE  BetweenRounds(lg, w, e)
    <2>1. CASE e < Len(t)
      <3>1. e + 1 \in 1..Len(t)
        BY <1>2, <2>1
      <3>2. w[e + 1] = t[e + 1] /\ lg[t[e + 1]] = log[t[e + 1]]
        BY <1>6, <1>7, <1>8, <3>1
      <3> QED BY <1>10, <2>1, <3>2 DEF BetweenRounds
    <2>2. CASE e = Len(t)
      <3>1. 1 \in 1..Len(new)
        BY <1>1, <1>2 DEF Turn
      <3>2. w[Len(t) + 1] = n + 1 /\ lg[n + 1] = new[1]
        BY <1>5, <1>6, <3>1
      <3> QED BY <1>1, <2>2, <3>2 DEF BetweenRounds, Turn
    <2> QED BY <1>2, <2>1, <2>2
  <1>11. ASSUME NEW b \in 0..Len(t), NEW e \in 0..b
         PROVE  SubSeq(w, e + 1, b) = SubSeq(t, e + 1, b)
    BY <1>2, <1>3, <1>4, SliceOfLonger DEF w
  <1>12. CASE pending' = 0
    BY <1>9, <1>12 DEF CutInv, w, lg
  <1>13. CASE pending' # 0
    <2>0. UNCHANGED <<jobs, pending>> /\ pc' \notin {"sync1", "sync2"} /\ pending # 0
      BY <1>13
    <2> DEFINE job == jobs[pending]
               b == job.snapshotLen
    <2>1. job \in Job
      <3>1. jobs \in Seq(Job) /\ pending \in 1..Len(jobs)
        BY <2>0 DEF TypeOK
      <3> QED BY <3>1
    <2>2. /\ b <= Len(t) /\ BetweenRounds(log, t, b) /\ CutFrom(log, job.view.tail, t, b)
          /\ job.phase = "running" => job.view.tail = SubSeq(t, 1, b)
      BY <2>0 DEF CutInv, t
    <2>3. b \in 0..Len(t) /\ b \in Nat
      BY <1>2, <2>1, <2>2 DEF Job
    <2>4. PICK e \in 0..b : job.view.tail = SubSeq(t, e + 1, b) /\ BetweenRounds(log, t, e)
      BY <2>2 DEF CutFrom
    <2> HIDE DEF job, b
    <2>5. e \in 0..Len(t) /\ 0 \in 0..b /\ 0 + 1 = 1
      BY <1>2, <2>3
    <2>6. BetweenRounds(lg, w, b) /\ BetweenRounds(lg, w, e)
      BY <1>10, <2>2, <2>3, <2>4, <2>5
    <2>7. SubSeq(w, e + 1, b) = SubSeq(t, e + 1, b) /\ SubSeq(w, 1, b) = SubSeq(t, 1, b)
      BY <1>11, <2>3, <2>5
    <2>8. CutFrom(lg, job.view.tail, w, b)
      BY <2>4, <2>6, <2>7 DEF CutFrom
    <2>9. b <= Len(w)
      BY <1>2, <1>6, <2>3
    <2> QED
      BY <1>9, <2>0, <2>2, <2>6, <2>7, <2>8, <2>9 DEF CutInv, w, lg, job, b
  <1> QED BY <1>12, <1>13

LEMMA CutNext ==
  ASSUME TypeOK, CutInv, [Next]_vars
  PROVE  CutInv'
PROOF
  <1> USE DEF jobVars, runVars, Still
  <1> DEFINE Sync == pc \in {"sync1", "sync2"}
             t == messages.tail
  <1>0. /\ log \in Seq(Message) /\ messages \in View /\ jobs \in Seq(Job)
        /\ t \in Seq(Nat) /\ Len(t) \in Nat /\ Rounded(log, t)
    BY DEF TypeOK, View, CutInv
  <1>a. ASSUME log' = log, Rounded(log, messages'.tail), pending' = 0 PROVE CutInv'
    BY <1>a DEF CutInv
  <1>b. ASSUME Still, CancelPending PROVE CutInv'
    BY <1>0, <1>a, <1>b DEF CancelPending
  <1>c. ASSUME Still, UNCHANGED <<jobs, pending>>, Sync' => Sync PROVE CutInv'
    BY <1>c DEF CutInv
  <1>d. ASSUME Turns, CancelPending \/ (UNCHANGED <<jobs, pending>> /\ ~Sync') PROVE CutInv'
    BY <1>d, TurnsCut DEF CancelPending
  <1>1. CASE SendRequest
    BY <1>1, <1>c DEF SendRequest
  <1>2. CASE StopOnCancel \/ RequestFails \/ GraceAnswer
    BY <1>2, <1>b DEF StopOnCancel, RequestFails, GraceAnswer, Return
  <1>3. CASE AnswerWithoutCalls
    <2>1. PICK body \in BOOLEAN, a \in MessageSizes, u \in MessageSizes :
            LET nudge == [role |-> "user", size |-> u]
                new == IF body THEN <<[role |-> "assistant", size |-> a], nudge>>
                       ELSE <<nudge>>
            IN log' = log \o new /\ messages' = Appended(messages, new)
      BY <1>3 DEF AnswerWithoutCalls
    <2> DEFINE nudge == [role |-> "user", size |-> u]
               asst == [role |-> "assistant", size |-> a]
               new == IF body THEN <<asst, nudge>> ELSE <<nudge>>
    <2>2. log' = log \o new /\ messages' = Appended(messages, new)
      BY <2>1
    <2>3. nudge \in Message /\ asst \in Message /\ nudge.role = "user" /\ asst.role = "assistant"
      BY DEF Message
    <2> HIDE DEF nudge, asst
    <2>4. CASE body
      <3>1. new = <<asst, nudge>> /\ new \in Seq(Message) /\ Len(new) = 2
            /\ new[1] = asst /\ new[2] = nudge
        BY <2>3, <2>4
      <3> HIDE DEF new
      <3>2. Turn(new)
        BY <2>3, <3>1 DEF Turn
      <3> QED BY <1>3, <1>d, <2>2, <3>1, <3>2 DEF Turns, AnswerWithoutCalls
    <2>5. CASE ~body
      <3>1. new = <<nudge>> /\ new \in Seq(Message) /\ Len(new) = 1 /\ new[1] = nudge
        BY <2>3, <2>5
      <3> HIDE DEF new
      <3>2. Turn(new)
        BY <2>3, <3>1 DEF Turn
      <3> QED BY <1>3, <1>d, <2>2, <3>1, <3>2 DEF Turns, AnswerWithoutCalls
    <2> QED BY <2>4, <2>5
  <1>4. CASE AnswerWithCalls
    <2>1. Still
      BY <1>4 DEF AnswerWithCalls
    <2>2. CancelPending \/ (UNCHANGED <<jobs, pending>> /\ pc' = "apply")
      BY <1>4 DEF AnswerWithCalls, TaskFailed, TaskCompleted, TurnContinues, Return
    <2> QED BY <1>b, <1>c, <2>1, <2>2
  <1>5. CASE ApplyPending
    <2>1. CASE CanApply
      <3> DEFINE job == jobs[pending]
                 b == job.snapshotLen
      <3>1. pending # 0 /\ job.phase = "ready" /\ job \in Job /\ CancelPending
        BY <1>5, <2>1 DEF CanApply, ApplyPending, TypeOK
      <3>2. messages' = Spliced(job, messages) /\ log' = log
        BY <1>5, <2>1 DEF ApplyPending
      <3>3. b <= Len(t) /\ BetweenRounds(log, t, b) /\ CutFrom(log, job.view.tail, t, b)
        BY <3>1 DEF CutInv
      <3>4. b \in 0..Len(t) /\ b \in Nat /\ job.view \in View
        BY <1>0, <3>1, <3>3 DEF Job
      <3>5. PICK e \in 0..b : job.view.tail = SubSeq(t, e + 1, b) /\ BetweenRounds(log, t, e)
        BY <3>3 DEF CutFrom
      <3>6. messages'.tail = job.view.tail \o SubSeq(t, b + 1, Len(t))
        BY <3>2, <3>4 DEF Spliced, View
      <3>7. messages'.tail = SubSeq(t, e + 1, Len(t)) /\ e \in 0..Len(t)
        <4> HIDE DEF t, b
        <4>1. SubSeq(t, e + 1, b) \o SubSeq(t, b + 1, Len(t)) = SubSeq(t, e + 1, Len(t))
          BY <1>0, <3>4, <3>5, JoinSlices
        <4>2. e \in 0..Len(t)
          BY <1>0, <3>4, <3>5
        <4> QED BY <3>5, <3>6, <4>1, <4>2
      <3>8. CutFrom(log, messages'.tail, t, Len(t))
        BY <3>5, <3>7 DEF CutFrom
      <3>9. Rounded(log, messages'.tail)
        BY <1>0, <3>8, CutKeepsRounds
      <3> QED BY <1>a, <3>1, <3>2, <3>9 DEF CancelPending
    <2>2. CASE ~CanApply
      <3>1. Still
        BY <1>5, <2>2 DEF ApplyPending
      <3>2. CancelPending \/ (UNCHANGED <<jobs, pending>> /\ pc' = "append")
        BY <1>5, <2>2 DEF ApplyPending
      <3> QED BY <1>b, <1>c, <3>1, <3>2
    <2> QED BY <2>1, <2>2
  <1>6. CASE AppendTurn
    <2>1. PICK a \in MessageSizes, s \in [1..results -> MessageSizes] :
            LET new == <<[role |-> "assistant", size |-> a]>>
                       \o [i \in 1..results |-> [role |-> "tool", size |-> s[i]]]
            IN log' = log \o new /\ messages' = Appended(messages, new)
      BY <1>6 DEF AppendTurn
    <2> DEFINE asst == <<[role |-> "assistant", size |-> a]>>
               tools == [i \in 1..results |-> [role |-> "tool", size |-> s[i]]]
               new == asst \o tools
    <2>2. asst \in Seq(Message) /\ Len(asst) = 1 /\ asst[1].role = "assistant"
      BY DEF Message
    <2>3. results \in Nat
      BY DEF TypeOK
    <2>4. /\ tools \in Seq(Message) /\ Len(tools) = results
          /\ \A i \in 1..results : tools[i].role = "tool"
      <3>1. \A i \in 1..results : [role |-> "tool", size |-> s[i]] \in Message
        BY DEF Message
      <3> QED BY <2>3, <3>1
    <2>5. log' = log \o new /\ messages' = Appended(messages, new)
      BY <2>1
    <2> HIDE DEF asst, tools
    <2>6. /\ new \in Seq(Message) /\ Len(new) = 1 + results
          /\ \A i \in 1..(1 + results) : new[i] = IF i <= 1 THEN asst[i] ELSE tools[i - 1]
      <3>1. /\ new \in Seq(Message) /\ Len(new) = Len(asst) + Len(tools)
            /\ \A i \in 1..(Len(asst) + Len(tools)) :
                 new[i] = IF i <= Len(asst) THEN asst[i] ELSE tools[i - Len(asst)]
        BY <2>2, <2>4, ConcatProperties
      <3> HIDE DEF new
      <3> QED BY <2>2, <2>4, <3>1
    <2> HIDE DEF new
    <2>7. new[1].role = "assistant"
      BY <2>2, <2>3, <2>6
    <2>8. ASSUME NEW i \in 2..Len(new) PROVE new[i - 1].role # "user"
      <3>1. i - 1 \in 1..(1 + results) /\ (i - 1 = 1 \/ (~(i - 1 <= 1) /\ (i - 1) - 1 \in 1..results))
        BY <2>3, <2>6
      <3>2. CASE i - 1 = 1
        BY <2>7, <3>2
      <3>3. CASE ~(i - 1 <= 1) /\ (i - 1) - 1 \in 1..results
        <4>1. new[i - 1] = tools[(i - 1) - 1]
          BY <2>6, <3>1, <3>3
        <4> QED BY <2>4, <3>3, <4>1
      <3> QED BY <3>1, <3>2, <3>3
    <2>9. Turns
      <3>1. Turn(new)
        BY <2>3, <2>6, <2>7, <2>8 DEF Turn
      <3> QED BY <2>5, <2>6, <3>1 DEF Turns
    <2>10. CancelPending \/ (UNCHANGED <<jobs, pending>> /\ pc' = "settle")
      BY <1>6 DEF AppendTurn
    <2> QED BY <1>d, <2>9, <2>10
  <1>7. CASE SyncCompress
    <2>1. pending = 0 /\ pending' = 0 /\ log' = log
      BY <1>7 DEF SyncCompress, CutInv
    <2>2. Rounded(log, messages'.tail)
      <3>1. CASE messages' \in Compressions(log, messages)
        <4>1. CutFrom(log, messages'.tail, t, Len(t))
          BY <1>0, <3>1, CompressionCuts
        <4> QED BY <1>0, <4>1, CutKeepsRounds
      <3>2. CASE messages' = messages
        BY <1>0, <3>2
      <3> QED BY <1>7, <3>1, <3>2 DEF SyncCompress
    <2> QED BY <1>a, <2>1, <2>2
  <1>8. CASE Settle
    <2>1. Still
      BY <1>8 DEF Settle
    <2>2. CASE TriggerAsync(messages) /\ pc' = "loop" /\ pending = 0
      <3> DEFINE new == [phase |-> "running", killed |-> FALSE,
                         snapshotLen |-> Len(messages.tail), view |-> messages]
      <3>1. jobs' = Append(jobs, new) /\ pending' = Len(jobs')
        BY <2>2 DEF TriggerAsync
      <3>2. jobs'[pending'] = new
        BY <1>0, <3>1
      <3>3. SubSeq(t, 0 + 1, Len(t)) = t /\ BetweenRounds(log, t, Len(t)) /\ 0 \in 0..Len(t)
        BY <1>0, SubSeqFull DEF BetweenRounds
      <3>4. BetweenRounds(log, t, 0)
        <4> SUFFICES ASSUME 0 < Len(t), log[t[1]].role = "tool" PROVE FALSE
          BY DEF BetweenRounds
        <4>1. 1 \in DOMAIN t
          BY <1>0
        <4> QED BY <1>0, <4>1 DEF Rounded
      <3>5. CutFrom(log, t, t, Len(t)) /\ SubSeq(t, 1, Len(t)) = t
        BY <3>3, <3>4 DEF CutFrom
      <3> QED BY <1>0, <2>1, <2>2, <3>2, <3>3, <3>5 DEF CutInv
    <2>3. \/ CancelPending
          \/ pc' = "loop" /\ UNCHANGED <<jobs, pending>>
          \/ TriggerAsync(messages) /\ pc' = "loop" /\ pending = 0
      BY <1>8 DEF Settle, Return, TriggerAsync
    <2> QED BY <1>b, <1>c, <2>1, <2>2, <2>3
  <1>9. CASE BudgetSpent
    <2>1. CancelPending \/ (UNCHANGED <<jobs, pending>> /\ pc' = "grace")
      BY <1>9 DEF BudgetSpent, Return
    <2> QED BY <1>9, <1>b, <1>c, <2>1 DEF BudgetSpent
  <1>10. CASE GraceRequest
    <2>1. PICK u \in MessageSizes :
            /\ log' = log \o <<[role |-> "user", size |-> u]>>
            /\ messages' = Appended(messages, <<[role |-> "user", size |-> u]>>)
      BY <1>10 DEF GraceRequest
    <2> DEFINE new == <<[role |-> "user", size |-> u]>>
    <2>2. new \in Seq(Message) /\ Len(new) = 1 /\ new[1].role = "user"
      BY DEF Message
    <2>3. log' = log \o new /\ messages' = Appended(messages, new)
      BY <2>1
    <2> HIDE DEF new
    <2>4. Turn(new)
      BY <2>2 DEF Turn
    <2>5. Turns
      BY <2>2, <2>3, <2>4 DEF Turns
    <2>6. CancelPending \/ (UNCHANGED <<jobs, pending>> /\ pc' = "graceLLM")
      BY <1>10 DEF GraceRequest, Return
    <2> QED BY <1>d, <2>5, <2>6
  <1>11. ASSUME NEW j \in JobIds, JobReturns(j) PROVE CutInv'
    <2>1. Still /\ pc' = pc /\ j \in DOMAIN jobs /\ jobs[j].phase = "running" /\ jobs[j] \in Job
      <3>1. j \in DOMAIN jobs
        BY <1>11 DEF JobReturns
      <3>2. jobs[j] \in Job
        BY <1>0, <3>1
      <3> QED BY <1>11, <3>1, <3>2 DEF JobReturns
    <2>2. CASE pending' = 0
      BY <1>0, <1>a, <2>1, <2>2
    <2>3. CASE pending # j /\ jobs' = [jobs EXCEPT ![j] = GoneJob] /\ pending' = pending
      <3>1. pending # 0 => jobs'[pending] = jobs[pending]
        <4>1. pending # 0 => pending \in DOMAIN jobs
          BY <1>0 DEF TypeOK
        <4> QED BY <2>3, <4>1
      <3> QED BY <2>1, <2>3, <3>1 DEF CutInv
    <2>4. CASE pending = j /\ pending' = pending /\
               \E rebuilt \in Compressions(log, jobs[j].view) :
                 jobs' = [jobs EXCEPT ![j].phase = "ready", ![j].view = rebuilt]
      <3>1. PICK rebuilt \in Compressions(log, jobs[j].view) :
              jobs' = [jobs EXCEPT ![j].phase = "ready", ![j].view = rebuilt]
        BY <2>4
      <3> DEFINE b == jobs[j].snapshotLen
                 snap == jobs[j].view
      <3>2. /\ jobs'[j].phase = "ready" /\ jobs'[j].view = rebuilt /\ jobs'[j].snapshotLen = b
        BY <1>0, <2>1, <3>1 DEF Job
      <3>3. pending # 0
        BY <2>4, LimitsAssumption DEF JobIds
      <3>4. b <= Len(t) /\ BetweenRounds(log, t, b) /\ snap.tail = SubSeq(t, 1, b)
        BY <2>1, <2>4, <3>3 DEF CutInv
      <3>5. snap \in View /\ b \in 0..Len(t) /\ b \in Nat
        BY <1>0, <2>1, <3>4 DEF Job
      <3> HIDE DEF b, t, snap
      <3>6. Len(snap.tail) = b /\ \A i \in 1..b : snap.tail[i] = t[i]
        <4>1. 0 \in 0..b /\ 0 + 1 = 1 /\ b - 0 = b /\ \A i \in 1..b : 0 + i = i
          BY <3>5
        <4>2. Len(SubSeq(t, 0 + 1, b)) = b - 0 /\ \A i \in 1..(b - 0) : SubSeq(t, 0 + 1, b)[i] = t[0 + i]
          BY <1>0, <3>5, <4>1, SliceFacts
        <4> QED BY <3>4, <4>1, <4>2
      <3>7. Rounded(log, snap.tail)
        <4> DEFINE p == snap.tail
        <4>1. p \in Seq(Nat) /\ DOMAIN p = 1..b
          BY <3>5, <3>6 DEF View
        <4>2. ASSUME NEW i \in 1..b
              PROVE  /\ p[i] \in DOMAIN log
                     /\ log[p[i]].role = "tool" =>
                          i > 1 /\ p[i - 1] = p[i] - 1 /\ log[p[i - 1]].role # "user"
          <5>1. i \in DOMAIN t /\ p[i] = t[i]
            BY <1>0, <3>5, <3>6
          <5>2. i > 1 => p[i - 1] = t[i - 1]
            <6>1. i > 1 => i - 1 \in 1..b
              BY <3>5
            <6> QED BY <3>6, <6>1
          <5> QED BY <1>0, <5>1, <5>2 DEF Rounded
        <4> HIDE DEF p
        <4>3. Rounded(log, p)
          BY <4>1, <4>2 DEF Rounded
        <4> QED BY <4>3 DEF p
      <3>8. CutFrom(log, rebuilt.tail, snap.tail, Len(snap.tail))
        <4>1. rebuilt \in Compressions(log, snap)
          BY <3>1 DEF snap
        <4> QED BY <3>5, <3>7, <4>1, CompressionCuts
      <3>9. PICK e \in 0..b : rebuilt.tail = SubSeq(snap.tail, e + 1, b) /\ BetweenRounds(log, snap.tail, e)
        BY <3>6, <3>8 DEF CutFrom
      <3>10. rebuilt.tail = SubSeq(t, e + 1, b)
        BY <1>0, <3>4, <3>5, <3>9, SliceOfPrefix
      <3>11. BetweenRounds(log, t, e)
        <4>1. CASE e < b
          <5>1. e + 1 \in 1..b
            BY <3>5, <4>1
          <5>2. snap.tail[e + 1] = t[e + 1]
            BY <3>6, <5>1
          <5> QED BY <3>6, <3>9, <4>1, <5>2 DEF BetweenRounds
        <4>2. CASE e = b
          BY <3>4, <4>2
        <4> QED BY <3>5, <4>1, <4>2
      <3>12. CutFrom(log, rebuilt.tail, t, b)
        BY <3>10, <3>11 DEF CutFrom
      <3> QED BY <1>0, <2>1, <2>4, <3>2, <3>3, <3>4, <3>12 DEF CutInv, t
    <2> QED BY <1>11, <2>2, <2>3, <2>4 DEF JobReturns
  <1>12. CASE CancelContext \/ UNCHANGED vars
    BY <1>12, <1>c DEF CancelContext, vars
  <1> QED
    BY <1>1, <1>2, <1>3, <1>4, <1>5, <1>6, <1>7, <1>8, <1>9, <1>10, <1>11, <1>12
       DEF Next, LoopStep

\* No tool result is ever sent without the call it answers, with or without a
\* compression template: the cuts of inline and of background compressions
\* fall between rounds, also in a conversation that has grown since.
THEOREM ResultsKeepTheirCalls == Spec => []NoOrphanResults
PROOF
  <1>1. Init => CutInv
    BY DEF Init, CutInv, Rounded
  <1>2. CutInv => NoOrphanResults
    BY DEF CutInv, Rounded, NoOrphanResults
  <1>3. TypeOK /\ CutInv /\ [Next]_vars => CutInv'
    BY CutNext
  <1> QED
    BY <1>1, <1>2, <1>3, TypeCorrect, PTL DEF Spec

-----------------------------------------------------------------------------
(* What is sent fits the window *)

FitInv ==
  pc \in {"loop", "llm"} =>
    \/ CountTokens(log, messages) < WarnLimit
    \/ log = << >> \/ log[Len(log)].role = "user"

LEMMA NudgeIsLast ==
  ASSUME TypeOK, AnswerWithoutCalls
  PROVE  log'[Len(log')].role = "user"
PROOF
  <1>1. PICK body \in BOOLEAN, a \in MessageSizes, u \in MessageSizes :
          LET nudge == [role |-> "user", size |-> u]
              new == IF body THEN <<[role |-> "assistant", size |-> a], nudge>>
                     ELSE <<nudge>>
          IN log' = log \o new
    BY DEF AnswerWithoutCalls
  <1> DEFINE nudge == [role |-> "user", size |-> u]
             asst == [role |-> "assistant", size |-> a]
             new == IF body THEN <<asst, nudge>> ELSE <<nudge>>
  <1>2. log' = log \o new /\ log \in Seq(Message) /\ Len(log) \in Nat
    BY <1>1 DEF TypeOK
  <1>3. nudge \in Message /\ asst \in Message /\ nudge.role = "user"
    BY DEF Message
  <1> HIDE DEF nudge, asst
  <1>4. new \in Seq(Message) /\ Len(new) \in Nat /\ Len(new) >= 1 /\ new[Len(new)] = nudge
    BY <1>3
  <1> HIDE DEF new
  <1>5. /\ Len(log') = Len(log) + Len(new)
        /\ \A i \in 1..(Len(log) + Len(new)) :
             log'[i] = IF i <= Len(log) THEN log[i] ELSE new[i - Len(log)]
    BY <1>2, <1>4, ConcatProperties
  <1>6. /\ Len(log) + Len(new) \in 1..(Len(log) + Len(new))
        /\ ~(Len(log) + Len(new) <= Len(log)) /\ (Len(log) + Len(new)) - Len(log) = Len(new)
    BY <1>2, <1>4
  <1>7. log'[Len(log) + Len(new)] = new[Len(new)]
    BY <1>5, <1>6
  <1> QED BY <1>3, <1>4, <1>5, <1>7

LEMMA FitNext ==
  ASSUME TypeOK, FitInv, [Next]_vars
  PROVE  FitInv'
PROOF
  <1> USE DEF jobVars, runVars
  <1>1. CASE UNCHANGED <<log, messages>> /\ (pc' \in {"loop", "llm"} => pc \in {"loop", "llm"})
    BY <1>1 DEF FitInv
  <1>2. CASE pc' \notin {"loop", "llm"}
    BY <1>2 DEF FitInv
  <1>3. CASE SendRequest
    BY <1>1, <1>3 DEF SendRequest
  <1>4. CASE AnswerWithoutCalls
    BY <1>4, NudgeIsLast DEF FitInv
  <1>5. CASE Settle
    <2>1. CASE CountTokens(log, messages) < WarnLimit
      BY <1>5, <2>1 DEF Settle, FitInv
    <2>2. CASE ~(CountTokens(log, messages) < WarnLimit)
      BY <1>2, <1>5, <2>2 DEF Settle, Return
    <2> QED BY <2>1, <2>2
  <1>6. CASE StopOnCancel \/ RequestFails \/ GraceAnswer \/ BudgetSpent \/ GraceRequest
    BY <1>2, <1>6 DEF StopOnCancel, RequestFails, GraceAnswer, BudgetSpent, GraceRequest, Return
  <1>7. CASE AnswerWithCalls
    BY <1>2, <1>7 DEF AnswerWithCalls, TaskFailed, TaskCompleted, TurnContinues, Return
  <1>8. CASE ApplyPending \/ AppendTurn \/ SyncCompress
    BY <1>2, <1>8 DEF ApplyPending, AppendTurn, SyncCompress
  <1>9. CASE CancelContext \/ (\E j \in JobIds : JobReturns(j)) \/ UNCHANGED vars
    BY <1>1, <1>9 DEF CancelContext, JobReturns, vars
  <1> QED
    BY <1>3, <1>4, <1>5, <1>6, <1>7, <1>8, <1>9 DEF Next, LoopStep

\* Whatever the messages count and whenever a background compression lands,
\* a request is under the warning limit, unless it is the first of the
\* conversation or follows a nudge, which goes back to the model unmeasured.
THEOREM RequestsAreMeasured == Spec => []RequestFits
PROOF
  <1>1. Init => FitInv
    BY DEF Init, FitInv
  <1>2. FitInv => RequestFits
    BY DEF FitInv, RequestFits
  <1>3. TypeOK /\ FitInv /\ [Next]_vars => FitInv'
    BY FitNext
  <1> QED
    BY <1>1, <1>2, <1>3, TypeCorrect, PTL DEF Spec
=============================================================================
