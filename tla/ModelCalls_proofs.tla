-------------------------- MODULE ModelCalls_proofs --------------------------
(***************************************************************************)
(* Three properties of the calls to a model, for every time limit, number  *)
(* of retries, length of a stream and conversation:                        *)
(*                                                                         *)
(*   - a silent server costs one timeout (SilenceCostsOneTimeout);         *)
(*   - the loop goes on only from an answer that was finished              *)
(*     (RepliesAreFinished);                                               *)
(*   - in every request each call of a replayed turn meets its result      *)
(*     before the next turn (CallsMeetResults).                            *)
(***************************************************************************)
EXTENDS ModelCalls, Picking_proofs

States == {"idle", "await", "body", "returned"}

\* An attempt never outlives the deadline: time passes only before it.
ClockInv ==
  /\ pc \in States
  /\ posts \in Nat /\ elapsed \in Nat
  /\ pc = "idle" => elapsed = 0
  /\ pc \in {"await", "body"} => elapsed <= Timeout

LEMMA ExpiredMeans ==
  /\ "deadline" \in Expired <=> elapsed >= Timeout
  /\ "header" \in Expired <=> elapsed >= HeaderTimer(kind)
PROOF
  BY DEF Expired

\* The margin decides the race: the header timer is later than the deadline.
LEMMA HeaderIsLater == HeaderTimer(kind) \in Nat /\ HeaderTimer(kind) > Timeout
PROOF
  BY TimersAssumption DEF HeaderTimer

LEMMA ClockNext == ClockInv /\ [Next]_vars => ClockInv'
PROOF
  <1> SUFFICES ASSUME ClockInv, [Next]_vars PROVE ClockInv'
    OBVIOUS
  <1> USE TimersAssumption DEF ClockInv, States, callVars
  <1>r. ASSUME NEW why, RetryOr(why) PROVE ClockInv'
    BY <1>r DEF RetryOr, Post, Fail
  <1>1. CASE Ask
    <2>1. CASE Fail("init") /\ UNCHANGED <<posts, elapsed>>
      BY <2>1 DEF Fail
    <2>2. CASE pc' = "await" /\ posts' = 1 /\ UNCHANGED elapsed
      BY <1>1, <2>2 DEF Ask
    <2> QED BY <1>1, <2>1, <2>2 DEF Ask
  <1>2. CASE Tick
    BY <1>2, ExpiredMeans DEF Tick
  <1>3. CASE TimerFires
    BY <1>3, <1>r DEF TimerFires, Fail
  <1>4. CASE ConnectionLost
    BY <1>4, <1>r DEF ConnectionLost
  <1>5. ASSUME NEW status \in Statuses, Refused(status) PROVE ClockInv'
    BY <1>5, <1>r DEF Refused, Fail
  <1>6. ASSUME NEW a \in Answers, Accepted(a) PROVE ClockInv'
    BY <1>6 DEF Accepted
  <1>7. CASE BodyRead
    BY <1>7 DEF BodyRead, Fail
  <1>8. CASE BodyCut
    BY <1>8 DEF BodyCut, Fail
  <1>9. CASE Chunk
    BY <1>9 DEF Chunk
  <1>10. ASSUME NEW clean \in BOOLEAN, StreamEnds(clean) PROVE ClockInv'
    BY <1>10 DEF StreamEnds, Fail
  <1>11. CASE Continue
    BY <1>11 DEF Continue
  <1>12. CASE UNCHANGED vars
    BY <1>12 DEF vars
  <1> QED
    BY <1>1, <1>2, <1>3, <1>4, <1>5, <1>6, <1>7, <1>8, <1>9, <1>10, <1>11, <1>12 DEF Next

\* Once the deadline of a request has passed no further request is sent for
\* it, although the SDK would repeat what the header timer cuts off.
THEOREM SilenceCostsOneTimeout == Spec => SilenceIsNotRetried
PROOF
  <1>1. Init => ClockInv
    BY DEF Init, ClockInv, States
  <1>2. ASSUME ClockInv, [Next]_vars, pc \in {"await", "body"}, elapsed >= Timeout
        PROVE  posts' = posts /\ again' = again
    <2>1. Expired # {} /\ "header" \notin Expired
      BY <1>2, ExpiredMeans, HeaderIsLater, TimersAssumption DEF ClockInv
    <2>2. TimerFires \/ UNCHANGED vars
      BY <1>2, <2>1 DEF Next, Ask, Tick, ConnectionLost, Refused, Accepted, BodyRead, BodyCut,
                        Chunk, StreamEnds, Continue
    <2> QED BY <2>1, <2>2 DEF TimerFires, vars
  <1>3. ClockInv /\ [Next]_vars =>
          [(pc \in {"await", "body"} /\ elapsed >= Timeout) => posts' = posts /\ again' = again]_vars
    BY <1>2
  <1> QED
    BY <1>1, <1>3, ClockNext, PTL DEF Spec, SilenceIsNotRetried

-----------------------------------------------------------------------------
(* Answers *)

\* What a stream has delivered: some of its pieces, or all and the reason.
Piece(n) == [pieces |-> n, finished |-> FALSE]
Whole == [pieces |-> Pieces, finished |-> TRUE]
\* What is known of an answer while it comes in, and of a call that has
\* returned: a stream has finished only after its last piece, and only the
\* Responses API sends a body that is not a finished answer.
AnswerInv ==
  /\ seen = Whole \/ \E n \in 0..Pieces : seen = Piece(n)
  /\ result.tag = "reply" => pc = "returned"
  /\ pc = "body" => /\ answer.status # "none"
                    /\ kind = "stream" => answer.status = "completed"
  /\ OnlyFinishedAnswers

\* A piece, or the finish reason, is one field of what was seen.
LEMMA PieceSet ==
  ASSUME NEW n, NEW b, NEW new
  PROVE  [[pieces |-> n, finished |-> b] EXCEPT !.pieces = new] = [pieces |-> new, finished |-> b]
PROOF
  <1> DEFINE s == [[pieces |-> n, finished |-> b] EXCEPT !.pieces = new]
             t == [pieces |-> new, finished |-> b]
  <1>1. DOMAIN s = {"pieces", "finished"} /\ s.pieces = new /\ s.finished = b
    OBVIOUS
  <1>2. DOMAIN t = {"pieces", "finished"} /\ t.pieces = new /\ t.finished = b
    OBVIOUS
  <1>3. s = [x \in {"pieces", "finished"} |-> s[x]]
    BY <1>1
  <1>4. t = [x \in {"pieces", "finished"} |-> t[x]]
    BY <1>2
  <1> HIDE DEF s, t
  <1> QED BY <1>1, <1>2, <1>3, <1>4

LEMMA FinishSet ==
  ASSUME NEW n, NEW b, NEW new
  PROVE  [[pieces |-> n, finished |-> b] EXCEPT !.finished = new] = [pieces |-> n, finished |-> new]
PROOF
  <1> DEFINE s == [[pieces |-> n, finished |-> b] EXCEPT !.finished = new]
             t == [pieces |-> n, finished |-> new]
  <1>1. DOMAIN s = {"pieces", "finished"} /\ s.pieces = n /\ s.finished = new
    OBVIOUS
  <1>2. DOMAIN t = {"pieces", "finished"} /\ t.pieces = n /\ t.finished = new
    OBVIOUS
  <1>3. s = [x \in {"pieces", "finished"} |-> s[x]]
    BY <1>1
  <1>4. t = [x \in {"pieces", "finished"} |-> t[x]]
    BY <1>2
  <1> HIDE DEF s, t
  <1> QED BY <1>1, <1>2, <1>3, <1>4

\* What a stream has delivered at any time.
LEMMA StreamForms ==
  /\ NoSeen = Piece(0) /\ 0 \in 0..Pieces
  /\ Whole.finished /\ \A n : ~Piece(n).finished /\ Piece(n).pieces = n
  /\ \A n \in 0..Pieces : n < Pieces => n + 1 \in 0..Pieces
  /\ \A n : [Piece(n) EXCEPT !.pieces = n + 1] = Piece(n + 1)
  /\ [Piece(Pieces) EXCEPT !.finished = TRUE] = Whole
PROOF
  <1>1. NoSeen = Piece(0)
    BY DEF NoSeen, Piece
  <1>2. Whole.finished /\ \A n : ~Piece(n).finished /\ Piece(n).pieces = n
    BY DEF Piece, Whole
  <1>3. \A n \in 0..Pieces : n < Pieces => n + 1 \in 0..Pieces
    BY TimersAssumption
  <1>4. \A n : [Piece(n) EXCEPT !.pieces = n + 1] = Piece(n + 1)
    BY PieceSet DEF Piece
  <1>5. [Piece(Pieces) EXCEPT !.finished = TRUE] = Whole
    BY FinishSet DEF Piece, Whole
  <1> QED BY <1>1, <1>2, <1>3, <1>4, <1>5, TimersAssumption

LEMMA AnswerNext == AnswerInv /\ [Next]_vars => AnswerInv'
PROOF
  <1> SUFFICES ASSUME AnswerInv, [Next]_vars PROVE AnswerInv'
    OBVIOUS
  <1> USE TimersAssumption DEF AnswerInv, OnlyFinishedAnswers, callVars, Result, Fail
  <1>r. ASSUME NEW why, RetryOr(why), pc # "returned", UNCHANGED callVars PROVE AnswerInv'
    BY <1>r, StreamForms DEF RetryOr, Post
  <1>1. CASE Ask
    BY <1>1 DEF Ask
  <1>2. CASE Tick
    BY <1>2 DEF Tick
  <1>3. CASE TimerFires
    BY <1>3, <1>r DEF TimerFires
  <1>4. CASE ConnectionLost
    BY <1>4, <1>r DEF ConnectionLost
  <1>5. ASSUME NEW status \in Statuses, Refused(status) PROVE AnswerInv'
    BY <1>5, <1>r DEF Refused
  <1>6. ASSUME NEW a \in Answers, Accepted(a) PROVE AnswerInv'
    BY <1>6 DEF Accepted, Answers
  <1>7. CASE BodyRead
    BY <1>7 DEF BodyRead, Accepts
  <1>8. CASE BodyCut
    BY <1>8 DEF BodyCut
  <1>9. CASE Chunk
    <2>1. PICK n \in 0..Pieces : seen = Piece(n)
      BY <1>9, StreamForms DEF Chunk
    <2>2. seen' = Piece(n + 1) \/ seen' = Whole
      BY <1>9, <2>1, StreamForms DEF Chunk
    <2>3. n < Pieces => seen' = Piece(n + 1)
      BY <1>9, <2>1, StreamForms DEF Chunk
    <2>4. ~(n < Pieces) => n = Pieces
      OBVIOUS
    <2> QED BY <1>9, <2>1, <2>2, <2>3, <2>4, StreamForms DEF Chunk
  <1>10. ASSUME NEW clean \in BOOLEAN, StreamEnds(clean) PROVE AnswerInv'
    <2>1. CASE clean /\ StreamComplete(seen)
      <3>1. seen = Whole
        BY <2>1, StreamForms DEF StreamComplete
      <3> QED BY <1>10, <2>1, <3>1 DEF StreamEnds, Whole
    <2>2. CASE ~(clean /\ StreamComplete(seen))
      BY <1>10, <2>2 DEF StreamEnds
    <2> QED BY <2>1, <2>2
  <1>11. CASE Continue
    <2>1. result'.tag # "reply" /\ pc' = "idle" /\ seen' = NoSeen
      BY <1>11 DEF Continue, Pending
    <2> QED BY <2>1, StreamForms
  <1>12. CASE UNCHANGED vars
    BY <1>12 DEF vars
  <1> QED
    BY <1>1, <1>2, <1>3, <1>4, <1>5, <1>6, <1>7, <1>8, <1>9, <1>10, <1>11, <1>12 DEF Next

\* The conversation goes on only from an answer the server finished: all
\* pieces of a stream and its finish reason, or a response that neither failed
\* nor is still running.
THEOREM RepliesAreFinished == Spec => []OnlyFinishedAnswers
PROOF
  <1>1. Init => AnswerInv
    <2> SUFFICES ASSUME Init PROVE AnswerInv
      OBVIOUS
    <2>1. result.tag # "reply" /\ pc = "idle" /\ seen = NoSeen
      BY DEF Init, Pending, Result
    <2> QED BY <2>1, StreamForms DEF AnswerInv, OnlyFinishedAnswers
  <1>2. AnswerInv => OnlyFinishedAnswers
    BY DEF AnswerInv
  <1> QED
    BY <1>1, <1>2, AnswerNext, PTL DEF Spec

-----------------------------------------------------------------------------
(* From the conversation to the wire, message by message *)

\* One message on its way into a request, of the two clients that collect
\* their wire messages one after the other.
Step(k, s, m) == IF k = "responses" THEN ResponsesStep(s, m) ELSE AnthropicStep(s, m)
Start(k) == IF k = "responses" THEN << >> ELSE [out |-> << >>, held |-> << >>]
Along(f, k, ms, n) ==
  f = [i \in 0..n |-> IF i = 0 THEN Start(k) ELSE Step(k, f[i - 1], ms[i])]

\* The loop over the messages reaches every message.
LEMMA LoopReaches ==
  ASSUME NEW S, NEW ms \in Seq(S), NEW k
  PROVE  \A n \in 0..Len(ms) : \E f : Along(f, k, ms, n)
PROOF
  <1> DEFINE T == {n \in 0..Len(ms) : \A f : ~Along(f, k, ms, n)}
  <1> SUFFICES ASSUME T # {} PROVE FALSE
    OBVIOUS
  <1>1. Len(ms) \in Nat
    BY LenProperties
  <1>2. PICK n \in T : \A y \in T : n <= y
    <2>1. T \in SUBSET Nat
      BY <1>1
    <2> HIDE DEF T
    <2> QED BY <2>1, Least
  <1>3. n \in 0..Len(ms) /\ \A f : ~Along(f, k, ms, n)
    OBVIOUS
  <1>4. CASE n = 0
    <2>1. Along([i \in 0..0 |-> Start(k)], k, ms, 0)
      BY DEF Along
    <2> QED BY <1>3, <1>4, <2>1
  <1>5. CASE n # 0
    <2>1. n \in Nat /\ n - 1 \in Nat /\ n - 1 \in 0..Len(ms) /\ ~(n <= n - 1)
      BY <1>1, <1>3, <1>5
    <2>2. PICK f : Along(f, k, ms, n - 1)
      BY <1>2, <2>1
    <2> DEFINE g == [i \in 0..n |-> IF i = n THEN Step(k, f[n - 1], ms[n]) ELSE f[i]]
    <2>3. ASSUME NEW i \in 0..n
          PROVE  g[i] = IF i = 0 THEN Start(k) ELSE Step(k, g[i - 1], ms[i])
      <3>1. CASE i = n
        <4>1. i # 0 /\ i - 1 \in 0..n /\ i - 1 # n
          BY <2>1, <3>1, <1>5
        <4> QED BY <3>1, <4>1
      <3>2. CASE i # n
        <4>1. i \in 0..(n - 1) /\ g[i] = f[i] /\ (i # 0 => i - 1 \in 0..n /\ i - 1 # n)
          BY <2>1, <3>2
        <4>2. f[i] = IF i = 0 THEN Start(k) ELSE Step(k, f[i - 1], ms[i])
          BY <2>2, <4>1 DEF Along
        <4>3. i # 0 => g[i - 1] = f[i - 1]
          BY <4>1
        <4> QED BY <4>1, <4>2, <4>3
      <3> QED BY <3>1, <3>2
    <2>4. Along(g, k, ms, n)
      BY <2>3 DEF Along
    <2> HIDE DEF g
    <2> QED BY <1>3, <2>4
  <1> QED BY <1>4, <1>5

\* What a loop has collected when it has read every message.
Collected(k, ms) ==
  IF k = "responses" THEN ResponsesItems(ms)
  ELSE Folded(AnthropicStep, [out |-> << >>, held |-> << >>], ms)

\* What the loops have collected after each message.
Reads(f, k, ms) ==
  /\ f[0] = Start(k)
  /\ \A n \in 1..Len(ms) : f[n] = Step(k, f[n - 1], ms[n])
  /\ Collected(k, ms) = f[Len(ms)]

LEMMA LoopIsStepwise ==
  ASSUME NEW S, NEW ms \in Seq(S), NEW k
  PROVE  \E f : Reads(f, k, ms)
PROOF
  <1> DEFINE F == CHOOSE f : Along(f, k, ms, Len(ms))
  <1>1. Len(ms) \in Nat
    BY LenProperties
  <1>2. Along(F, k, ms, Len(ms))
    BY <1>1, LoopReaches
  <1>3. F[0] = Start(k) /\ \A n \in 1..Len(ms) : F[n] = Step(k, F[n - 1], ms[n])
    <2> HIDE DEF F
    <2> QED BY <1>1, <1>2 DEF Along
  <1>4. k = "responses" => ResponsesItems(ms) = F[Len(ms)]
    BY DEF ResponsesItems, Folded, Along, Step, Start
  <1>5. k # "responses" => Folded(AnthropicStep, [out |-> << >>, held |-> << >>], ms) = F[Len(ms)]
    BY DEF Folded, Along, Step, Start
  <1> HIDE DEF F
  <1>6. Collected(k, ms) = F[Len(ms)]
    BY <1>4, <1>5 DEF Collected
  <1>7. Reads(F, k, ms)
    BY <1>3, <1>6 DEF Reads
  <1> QED BY <1>7

-----------------------------------------------------------------------------
(* Calls and their results on the wire *)

Blocks == [type : {"use", "result", "reasoning", "text"}, call : Int]
Wires == [role : {"system", "user", "assistant"}, blocks : Seq(Blocks)]

\* The properties' view of the body of a request, of any sequence of wire
\* messages: where the turns after i start, and what lies before the next.
Turns(w, i) == {j \in DOMAIN w : j > i /\ w[j].role = "assistant" /\ w[j - 1].role # "assistant"}
Before(w, i) == {j \in DOMAIN w : j > i /\ \A k \in Turns(w, i) : j < k}

\* Every call is answered before the next turn, or it is one of the owed calls
\* of the last turn; nothing is answered that was not called.  At once means
\* that the answer follows the turn immediately.
PairedTo(w, atOnce, owed) ==
  \A i \in DOMAIN w :
    /\ \A c \in BlocksOf(w[i], "use") :
         \/ \E j \in Before(w, i) : c \in BlocksOf(w[j], "result")
         \/ Turns(w, i) = {} /\ c \in owed
    /\ \A c \in BlocksOf(w[i], "result") :
         \E j \in 1..(i - 1) : /\ c \in BlocksOf(w[j], "use") /\ i \in Before(w, j)
                               /\ atOnce => i = j + 1

\* The last turn made call c.
Calling(w, atOnce, c) ==
  \E j \in DOMAIN w : /\ Turns(w, j) = {} /\ c \in BlocksOf(w[j], "use")
                      /\ atOnce => j = Len(w)

\* More messages leave what came before them where it was.
LEMMA Longer ==
  ASSUME NEW w \in Seq(Wires), NEW v \in Seq(Wires)
  PROVE  /\ w \o v \in Seq(Wires) /\ Len(w \o v) = Len(w) + Len(v)
         /\ Len(w) \in Nat /\ Len(v) \in Nat
         /\ DOMAIN w = 1..Len(w) /\ DOMAIN v = 1..Len(v) /\ DOMAIN (w \o v) = 1..(Len(w) + Len(v))
         /\ \A i \in 1..Len(w) : (w \o v)[i] = w[i]
         /\ \A i \in 1..Len(v) : (w \o v)[Len(w) + i] = v[i]
         /\ \A i \in 1..Len(w) : Turns(w, i) = Turns(w \o v, i) \cap (1..Len(w))
         /\ \A i \in 1..Len(w) : Before(w, i) \subseteq Before(w \o v, i)
PROOF
  <1> DEFINE u == w \o v
  <1>1. /\ u \in Seq(Wires) /\ Len(u) = Len(w) + Len(v)
        /\ Len(w) \in Nat /\ Len(v) \in Nat
        /\ DOMAIN w = 1..Len(w) /\ DOMAIN v = 1..Len(v) /\ DOMAIN u = 1..(Len(w) + Len(v))
    BY LenProperties, ConcatProperties
  <1>2. \A i \in 1..Len(w) : u[i] = w[i]
    BY <1>1, ConcatProperties
  <1>3. \A i \in 1..Len(v) : u[Len(w) + i] = v[i]
    <2> TAKE i \in 1..Len(v)
    <2>1. Len(w) + i \in 1..(Len(w) + Len(v)) /\ ~(Len(w) + i <= Len(w))
          /\ (Len(w) + i) - Len(w) = i
      BY <1>1
    <2> QED BY <1>1, <2>1, ConcatProperties
  <1> HIDE DEF u
  <1>4. \A i \in 1..Len(w) : Turns(w, i) = Turns(u, i) \cap (1..Len(w))
    <2> TAKE i \in 1..Len(w)
    <2>1. ASSUME NEW j \in 1..Len(w), j > i
          PROVE  w[j] = u[j] /\ w[j - 1] = u[j - 1] /\ j \in DOMAIN u
      BY <1>1, <1>2, <2>1
    <2> QED BY <1>1, <2>1 DEF Turns
  <1>5. \A i \in 1..Len(w) : Before(w, i) \subseteq Before(u, i)
    <2> SUFFICES ASSUME NEW i \in 1..Len(w), NEW j \in Before(w, i)
                 PROVE  j \in Before(u, i)
      OBVIOUS
    <2>1. j \in 1..Len(w) /\ j > i /\ j \in DOMAIN u /\ \A k \in Turns(w, i) : j < k
      BY <1>1 DEF Before
    <2>2. ASSUME NEW k \in Turns(u, i) PROVE j < k
      <3>1. k \in 1..(Len(w) + Len(v))
        BY <1>1 DEF Turns
      <3>2. CASE k \in 1..Len(w)
        BY <1>4, <2>1, <3>2
      <3>3. CASE k \notin 1..Len(w)
        BY <1>1, <2>1, <3>1, <3>3
      <3> QED BY <3>2, <3>3
    <2> QED BY <2>1, <2>2 DEF Before
  <1> QED BY <1>1, <1>2, <1>3, <1>4, <1>5 DEF u

\* A turn, as one message or as several, is said after everything is answered.
LEMMA TurnOnWire ==
  ASSUME NEW w \in Seq(Wires), NEW v \in Seq(Wires), NEW atOnce \in BOOLEAN, NEW owed,
         PairedTo(w, atOnce, {}), w = << >> \/ w[Len(w)].role # "assistant",
         \A i \in DOMAIN v : /\ v[i].role = "assistant" /\ BlocksOf(v[i], "result") = {}
                             /\ BlocksOf(v[i], "use") \subseteq owed,
         \A c \in owed : \E i \in DOMAIN v : c \in BlocksOf(v[i], "use"),
         atOnce => Len(v) = 1
  PROVE  /\ PairedTo(w \o v, atOnce, owed)
         /\ \A c \in owed : Calling(w \o v, atOnce, c)
PROOF
  <1> DEFINE u == w \o v
  <1>1. /\ u \in Seq(Wires) /\ Len(u) = Len(w) + Len(v)
        /\ Len(w) \in Nat /\ Len(v) \in Nat
        /\ DOMAIN w = 1..Len(w) /\ DOMAIN v = 1..Len(v) /\ DOMAIN u = 1..(Len(w) + Len(v))
        /\ \A i \in 1..Len(w) : u[i] = w[i]
        /\ \A i \in 1..Len(v) : u[Len(w) + i] = v[i]
        /\ \A i \in 1..Len(w) : Before(w, i) \subseteq Before(u, i)
    BY Longer
  <1> HIDE DEF u
  <1>2. ASSUME NEW i \in 1..(Len(w) + Len(v)), i > Len(w)
        PROVE  i - Len(w) \in 1..Len(v) /\ u[i] = v[i - Len(w)] /\ Turns(u, i) = {}
    <2>1. \A j \in 1..(Len(w) + Len(v)) : j > Len(w) =>
            j - Len(w) \in 1..Len(v) /\ Len(w) + (j - Len(w)) = j
      <3>1. Len(w) \in Nat /\ Len(v) \in Nat
        BY <1>1
      <3> QED BY <3>1
    <2>2. ASSUME NEW j \in 1..(Len(w) + Len(v)), j > Len(w)
          PROVE  u[j] = v[j - Len(w)] /\ u[j].role = "assistant"
      <3>1. j - Len(w) \in 1..Len(v) /\ Len(w) + (j - Len(w)) = j
        BY <2>1, <2>2
      <3>2. u[Len(w) + (j - Len(w))] = v[j - Len(w)]
        BY <1>1, <3>1
      <3> QED BY <1>1, <3>1, <3>2
    <2>3. ASSUME NEW j \in Turns(u, i) PROVE FALSE
      <3>1. j \in 1..(Len(w) + Len(v)) /\ j > i /\ u[j - 1].role # "assistant"
        BY <1>1 DEF Turns
      <3>2. j - 1 \in 1..(Len(w) + Len(v)) /\ j - 1 > Len(w)
        BY <1>1, <1>2, <3>1
      <3> QED BY <2>2, <3>1, <3>2
    <2> QED BY <1>2, <2>1, <2>2, <2>3
  <1>3. ASSUME NEW i \in DOMAIN u, NEW c \in BlocksOf(u[i], "use")
        PROVE  \/ \E j \in Before(u, i) : c \in BlocksOf(u[j], "result")
               \/ Turns(u, i) = {} /\ c \in owed
    <2>1. CASE i <= Len(w)
      <3>1. i \in DOMAIN w /\ u[i] = w[i]
        BY <1>1, <2>1
      <3>2. PICK j \in Before(w, i) : c \in BlocksOf(w[j], "result")
        BY <3>1 DEF PairedTo
      <3>3. j \in 1..Len(w)
        BY <1>1 DEF Before
      <3> QED BY <1>1, <3>1, <3>2, <3>3
    <2>2. CASE ~(i <= Len(w))
      <3>1. i \in 1..(Len(w) + Len(v)) /\ i > Len(w)
        BY <1>1, <2>2
      <3> QED BY <1>1, <1>2, <3>1
    <2> QED BY <2>1, <2>2
  <1>4. ASSUME NEW i \in DOMAIN u, NEW c \in BlocksOf(u[i], "result")
        PROVE  \E j \in 1..(i - 1) : /\ c \in BlocksOf(u[j], "use") /\ i \in Before(u, j)
                                     /\ atOnce => i = j + 1
    <2>1. CASE i <= Len(w)
      <3>1. i \in DOMAIN w /\ u[i] = w[i]
        BY <1>1, <2>1
      <3>2. PICK j \in 1..(i - 1) : /\ c \in BlocksOf(w[j], "use") /\ i \in Before(w, j)
                                    /\ atOnce => i = j + 1
        BY <3>1 DEF PairedTo
      <3>3. j \in 1..Len(w)
        BY <1>1, <2>1, <3>1
      <3> QED BY <1>1, <3>2, <3>3
    <2>2. CASE ~(i <= Len(w))
      <3>1. i \in 1..(Len(w) + Len(v)) /\ i > Len(w)
        BY <1>1, <2>2
      <3> QED BY <1>1, <1>2, <3>1
    <2> QED BY <2>1, <2>2
  <1>5. ASSUME NEW c \in owed PROVE Calling(u, atOnce, c)
    <2>1. PICK i \in DOMAIN v : c \in BlocksOf(v[i], "use")
      OBVIOUS
    <2>2. i \in 1..Len(v) /\ Len(w) \in Nat /\ Len(v) \in Nat
      BY <1>1
    <2>3. Len(w) + i \in 1..(Len(w) + Len(v)) /\ Len(w) + i > Len(w)
      BY <2>2
    <2>4. u[Len(w) + i] = v[i]
      BY <1>1, <2>2
    <2>5. atOnce => Len(w) + i = Len(u)
      BY <1>1, <2>2
    <2> QED BY <1>1, <1>2, <2>1, <2>3, <2>4, <2>5 DEF Calling
  <1> QED BY <1>3, <1>4, <1>5 DEF PairedTo, u

\* A message that is no turn answers calls of the last turn.
LEMMA ReplyOnWire ==
  ASSUME NEW w \in Seq(Wires), NEW m \in Wires, NEW atOnce \in BOOLEAN, NEW owed,
         PairedTo(w, atOnce, owed), m.role # "assistant", BlocksOf(m, "use") = {},
         \A c \in BlocksOf(m, "result") : Calling(w, atOnce, c)
  PROVE  /\ PairedTo(w \o <<m>>, atOnce, owed \ BlocksOf(m, "result"))
         /\ ~atOnce => \A c : Calling(w, atOnce, c) => Calling(w \o <<m>>, atOnce, c)
PROOF
  <1> DEFINE u == w \o <<m>>
  <1>1. /\ <<m>> \in Seq(Wires) /\ Len(<<m>>) = 1 /\ <<m>>[1] = m
    OBVIOUS
  <1>2. /\ u \in Seq(Wires) /\ Len(w) \in Nat /\ Len(u) = Len(w) + 1
        /\ DOMAIN w = 1..Len(w) /\ DOMAIN u = 1..(Len(w) + 1)
        /\ \A i \in 1..Len(w) : u[i] = w[i]
        /\ u[Len(w) + 1] = m
        /\ \A i \in 1..Len(w) : Turns(w, i) = Turns(u, i) \cap (1..Len(w))
        /\ \A i \in 1..Len(w) : Before(w, i) \subseteq Before(u, i)
    <2> DEFINE v == <<m>>
    <2>1. v \in Seq(Wires) /\ Len(v) = 1 /\ v[1] = m
      BY <1>1
    <2> HIDE DEF v
    <2>2. u = w \o v
      BY DEF v
    <2> HIDE DEF u
    <2>3. /\ w \o v \in Seq(Wires) /\ Len(w \o v) = Len(w) + Len(v)
          /\ Len(w) \in Nat
          /\ DOMAIN w = 1..Len(w) /\ DOMAIN (w \o v) = 1..(Len(w) + Len(v))
          /\ \A i \in 1..Len(w) : (w \o v)[i] = w[i]
          /\ \A i \in 1..Len(v) : (w \o v)[Len(w) + i] = v[i]
          /\ \A i \in 1..Len(w) : Turns(w, i) = Turns(w \o v, i) \cap (1..Len(w))
          /\ \A i \in 1..Len(w) : Before(w, i) \subseteq Before(w \o v, i)
      BY <2>1, Longer
    <2>4. 1 \in 1..Len(v)
      BY <2>1
    <2> QED BY <2>1, <2>2, <2>3, <2>4
  <1> HIDE DEF u
  <1>3. \A i \in 1..Len(w) : Turns(u, i) = Turns(w, i)
    <2> SUFFICES ASSUME NEW i \in 1..Len(w), NEW j \in Turns(u, i) PROVE j \in 1..Len(w)
      BY <1>2
    <2>1. j \in 1..(Len(w) + 1) /\ u[j].role = "assistant"
      BY <1>2 DEF Turns
    <2>2. j # Len(w) + 1
      BY <1>2, <2>1
    <2> QED BY <1>2, <2>1, <2>2
  <1>4. \A i \in 1..Len(w) : Turns(w, i) = {} => Len(w) + 1 \in Before(u, i)
    BY <1>2, <1>3 DEF Before
  <1>5. ASSUME NEW i \in DOMAIN u, NEW c \in BlocksOf(u[i], "use")
        PROVE  \/ \E j \in Before(u, i) : c \in BlocksOf(u[j], "result")
               \/ Turns(u, i) = {} /\ c \in owed \ BlocksOf(m, "result")
    <2>1. i # Len(w) + 1
      BY <1>2
    <2>2. i \in 1..Len(w) /\ u[i] = w[i]
      BY <1>2, <2>1
    <2>3. CASE \E j \in Before(w, i) : c \in BlocksOf(w[j], "result")
      <3>1. PICK j \in Before(w, i) : c \in BlocksOf(w[j], "result")
        BY <2>3
      <3>2. j \in 1..Len(w)
        BY <1>2 DEF Before
      <3> QED BY <1>2, <2>2, <3>1, <3>2
    <2>4. CASE Turns(w, i) = {} /\ c \in owed
      BY <1>2, <1>3, <1>4, <2>2, <2>4
    <2> QED BY <1>2, <2>2, <2>3, <2>4 DEF PairedTo
  <1>6. ASSUME NEW i \in DOMAIN u, NEW c \in BlocksOf(u[i], "result")
        PROVE  \E j \in 1..(i - 1) : /\ c \in BlocksOf(u[j], "use") /\ i \in Before(u, j)
                                     /\ atOnce => i = j + 1
    <2>1. CASE i <= Len(w)
      <3>1. i \in DOMAIN w /\ u[i] = w[i]
        BY <1>2, <2>1
      <3>2. PICK j \in 1..(i - 1) : /\ c \in BlocksOf(w[j], "use") /\ i \in Before(w, j)
                                    /\ atOnce => i = j + 1
        BY <3>1 DEF PairedTo
      <3>3. j \in 1..Len(w)
        BY <1>2, <2>1, <3>1
      <3> QED BY <1>2, <3>2, <3>3
    <2>2. CASE ~(i <= Len(w))
      <3>1. i = Len(w) + 1 /\ u[i] = m
        BY <1>2, <2>2
      <3>2. PICK j \in DOMAIN w : /\ Turns(w, j) = {} /\ c \in BlocksOf(w[j], "use")
                                  /\ atOnce => j = Len(w)
        BY <3>1 DEF Calling
      <3>3. j \in 1..Len(w) /\ j \in 1..(i - 1) /\ i \in Before(u, j)
        BY <1>2, <1>4, <3>1, <3>2
      <3> QED BY <1>2, <3>1, <3>2, <3>3
    <2> QED BY <2>1, <2>2
  <1>7. ASSUME ~atOnce, NEW c, Calling(w, atOnce, c) PROVE Calling(u, atOnce, c)
    <2>1. PICK j \in 1..Len(w) : Turns(w, j) = {} /\ c \in BlocksOf(w[j], "use")
      BY <1>2, <1>7 DEF Calling
    <2> QED BY <1>2, <1>3, <1>7, <2>1 DEF Calling
  <1> QED BY <1>5, <1>6, <1>7 DEF PairedTo, u

\* The calls of the blocks of a kind.
Marks(b, t) == {b[i].call : i \in {i \in DOMAIN b : b[i].type = t}}

\* Blocks of a turn that makes these calls.
Says(b, calls) == b \in Seq(Blocks) /\ Marks(b, "use") = ToSet(calls) /\ Marks(b, "result") = {}

LEMMA MarksConcat ==
  ASSUME NEW b \in Seq(Blocks), NEW c \in Seq(Blocks), NEW t
  PROVE  b \o c \in Seq(Blocks) /\ Marks(b \o c, t) = Marks(b, t) \cup Marks(c, t)
PROOF
  <1> DEFINE d == b \o c
  <1>1. /\ d \in Seq(Blocks) /\ Len(d) = Len(b) + Len(c)
        /\ Len(b) \in Nat /\ Len(c) \in Nat
        /\ DOMAIN b = 1..Len(b) /\ DOMAIN c = 1..Len(c) /\ DOMAIN d = 1..(Len(b) + Len(c))
        /\ \A i \in 1..Len(d) : d[i] = IF i <= Len(b) THEN b[i] ELSE c[i - Len(b)]
    BY LenProperties, ConcatProperties
  <1> HIDE DEF d
  <1>2. ASSUME NEW x \in Marks(d, t) PROVE x \in Marks(b, t) \cup Marks(c, t)
    <2>1. PICK i \in DOMAIN d : d[i].type = t /\ x = d[i].call
      BY DEF Marks
    <2>2. CASE i <= Len(b)
      <3>1. i \in DOMAIN b /\ d[i] = b[i]
        BY <1>1, <2>1, <2>2
      <3> QED BY <2>1, <3>1 DEF Marks
    <2>3. CASE ~(i <= Len(b))
      <3>1. i - Len(b) \in DOMAIN c
        BY <1>1, <2>1, <2>3
      <3>2. d[i] = c[i - Len(b)]
        BY <1>1, <2>1, <2>3
      <3> QED BY <2>1, <3>1, <3>2 DEF Marks
    <2> QED BY <2>2, <2>3
  <1>3. ASSUME NEW x \in Marks(b, t) PROVE x \in Marks(d, t)
    <2>1. PICK i \in DOMAIN b : b[i].type = t /\ x = b[i].call
      BY DEF Marks
    <2>2. i \in DOMAIN d /\ d[i] = b[i]
      BY <1>1, <2>1
    <2> QED BY <2>1, <2>2 DEF Marks
  <1>4. ASSUME NEW x \in Marks(c, t) PROVE x \in Marks(d, t)
    <2>1. PICK i \in DOMAIN c : c[i].type = t /\ x = c[i].call
      BY DEF Marks
    <2>2. Len(b) + i \in DOMAIN d /\ ~(Len(b) + i <= Len(b)) /\ (Len(b) + i) - Len(b) = i
      BY <1>1
    <2>3. d[Len(b) + i] = c[i]
      BY <1>1, <2>2
    <2> QED BY <2>1, <2>2, <2>3 DEF Marks
  <1> QED BY <1>1, <1>2, <1>3, <1>4 DEF d

LEMMA MarksOne ==
  ASSUME NEW m \in Blocks, NEW t
  PROVE  /\ <<m>> \in Seq(Blocks)
         /\ Marks(<<m>>, t) = IF m.type = t THEN {m.call} ELSE {}
PROOF
  <1>1. DOMAIN <<m>> = {1} /\ <<m>>[1] = m
    OBVIOUS
  <1> QED BY <1>1 DEF Marks

LEMMA OneBlock ==
  ASSUME NEW t \in {"reasoning", "text"}
  PROVE  Says(<<Block(t, 0)>>, << >>) /\ Says(<< >>, << >>)
PROOF
  <1>1. Block(t, 0) \in Blocks /\ Block(t, 0).type = t /\ t # "use" /\ t # "result"
    BY DEF Block, Blocks
  <1>2. ToSet(<< >>) = {} /\ Marks(<< >>, "use") = {} /\ Marks(<< >>, "result") = {} /\ << >> \in Seq(Blocks)
    BY DEF ToSet, Marks
  <1> QED BY <1>1, <1>2, MarksOne DEF Says

LEMMA UsesSay ==
  ASSUME NEW calls \in Seq(Int)
  PROVE  Says(Uses(calls), calls)
PROOF
  <1>1. DOMAIN Uses(calls) = 1..Len(calls) /\ Len(calls) \in Nat
        /\ \A i \in 1..Len(calls) : Uses(calls)[i] = Block("use", calls[i]) /\ calls[i] \in Int
    BY LenProperties, ElementOfSeq DEF Uses
  <1>2. Uses(calls) \in Seq(Blocks)
    <2>1. \A i \in 1..Len(calls) : Block("use", calls[i]) \in Blocks
      BY <1>1 DEF Block, Blocks
    <2>2. Uses(calls) = [i \in 1..Len(calls) |-> Block("use", calls[i])]
      BY LenProperties DEF Uses
    <2> QED BY <1>1, <2>1, <2>2
  <1>3. \A i \in 1..Len(calls) : Uses(calls)[i].type = "use" /\ Uses(calls)[i].call = calls[i]
    BY <1>1 DEF Block
  <1>4. DOMAIN calls = 1..Len(calls)
    BY LenProperties
  <1> QED BY <1>1, <1>2, <1>3, <1>4 DEF Says, Marks, ToSet

\* What is said before or after a turn's calls and is no call adds none.
LEMMA SaysMore ==
  ASSUME NEW b, NEW c, NEW calls, Says(b, << >>), Says(c, calls)
  PROVE  Says(b \o c, calls) /\ Says(c \o b, calls)
PROOF
  <1>1. ToSet(<< >>) = {}
    BY DEF ToSet
  <1>2. /\ b \in Seq(Blocks) /\ Marks(b, "use") = {} /\ Marks(b, "result") = {}
        /\ c \in Seq(Blocks) /\ Marks(c, "use") = ToSet(calls) /\ Marks(c, "result") = {}
    BY <1>1 DEF Says
  <1>3. \A t : b \o c \in Seq(Blocks) /\ Marks(b \o c, t) = Marks(b, t) \cup Marks(c, t)
    BY <1>2, MarksConcat
  <1>4. \A t : c \o b \in Seq(Blocks) /\ Marks(c \o b, t) = Marks(c, t) \cup Marks(b, t)
    BY <1>2, MarksConcat
  <1>5. Marks(b \o c, "use") = ToSet(calls) /\ Marks(c \o b, "use") = ToSet(calls)
    <2>1. {} \cup ToSet(calls) = ToSet(calls) /\ ToSet(calls) \cup {} = ToSet(calls)
      OBVIOUS
    <2>2. /\ Marks(b \o c, "use") = Marks(b, "use") \cup Marks(c, "use")
          /\ Marks(c \o b, "use") = Marks(c, "use") \cup Marks(b, "use")
      BY <1>3, <1>4, Zenon
    <2>3. Marks(b, "use") = {} /\ Marks(c, "use") = ToSet(calls)
      BY <1>2, Zenon
    <2> QED BY <2>1, <2>2, <2>3, Zenon
  <1>6. Marks(b \o c, "result") = {} /\ Marks(c \o b, "result") = {}
    <2>1. {} \cup {} = {}
      OBVIOUS
    <2>2. /\ Marks(b \o c, "result") = Marks(b, "result") \cup Marks(c, "result")
          /\ Marks(c \o b, "result") = Marks(c, "result") \cup Marks(b, "result")
      BY <1>3, <1>4, Zenon
    <2>3. Marks(b, "result") = {} /\ Marks(c, "result") = {}
      BY <1>2, Zenon
    <2> QED BY <2>1, <2>2, <2>3, Zenon
  <1> QED BY <1>3, <1>4, <1>5, <1>6 DEF Says

-----------------------------------------------------------------------------
(* A turn of the three clients *)

AnswerTypes == [reasoning : BOOLEAN, text : BOOLEAN, calls : Seq(Int),
                status : {"none", "completed", "incomplete", "failed", "queued"}]

LEMMA TurnSays ==
  ASSUME NEW k, NEW a \in AnswerTypes
  PROVE  /\ k \in Anthropics => Says(AssistantBlocks(Turn(k, a)), a.calls)
         /\ k = "responses" =>
              Says(IF Turn(k, a).native # << >> THEN Turn(k, a).native
                   ELSE TextBlocks(Turn(k, a)) \o Uses(a.calls), a.calls)
         /\ k \notin Anthropics /\ k # "responses" =>
              Says((IF a.text \/ a.calls = << >> THEN <<Block("text", 0)>> ELSE << >>)
                     \o Uses(a.calls) \o Turn(k, a).native, a.calls)
PROOF
  <1>1. a.calls \in Seq(Int) /\ a.text \in BOOLEAN /\ a.reasoning \in BOOLEAN
    BY DEF AnswerTypes
  <1>2. Says(Uses(a.calls), a.calls)
    BY <1>1, UsesSay
  <1>3. Says(Reasoning(a), << >>) /\ Says(Content(a), << >>) /\ Says(TextBlocks(Turn(k, a)), << >>)
        /\ Says(IF a.text \/ a.calls = << >> THEN <<Block("text", 0)>> ELSE << >>, << >>)
    BY OneBlock DEF Reasoning, Content, TextBlocks, Turn
  <1>4. Says(TextBlocks(Turn(k, a)) \o Uses(a.calls), a.calls)
    BY <1>2, <1>3, SaysMore
  <1>5. Says(Reasoning(a) \o Content(a) \o Uses(a.calls), a.calls)
    <2>1. Says(Reasoning(a) \o Content(a), << >>)
      BY <1>3, SaysMore
    <2> QED BY <1>2, <2>1, SaysMore
  <1>6. /\ Turn(k, a).native = Native(k, a) /\ Turn(k, a).calls = a.calls /\ Turn(k, a).text = a.text
    BY DEF Turn
  <1>7. CASE k \in Anthropics
    <2>1. Native(k, a) = IF a.reasoning THEN Reasoning(a) \o Content(a) \o Uses(a.calls) ELSE << >>
      BY <1>7 DEF Native, NativeAnthropic, Anthropics
    <2>2. AssistantBlocks(Turn(k, a)) =
            IF Native(k, a) # << >> THEN Native(k, a)
            ELSE IF a.text \/ a.calls # << >> THEN TextBlocks(Turn(k, a)) \o Uses(a.calls)
            ELSE <<Block("text", 0)>>
      BY <1>6 DEF AssistantBlocks
    <2>3. ~(a.text \/ a.calls # << >>) => Says(<<Block("text", 0)>>, a.calls)
      BY OneBlock
    <2>4. "responses" \notin Anthropics
      BY DEF Anthropics
    <2> QED BY <1>4, <1>5, <1>7, <2>1, <2>2, <2>3, <2>4
  <1>8. CASE k = "responses"
    <2>1. Native(k, a) = IF a.text \/ a.calls # << >>
                         THEN Reasoning(a) \o Content(a) \o Uses(a.calls) ELSE << >>
      BY <1>8 DEF Native, NativeResponses, Anthropics
    <2>2. "responses" \notin Anthropics
      BY DEF Anthropics
    <2> QED BY <1>4, <1>5, <1>6, <1>8, <2>1, <2>2
  <1>9. CASE k \notin Anthropics /\ k # "responses"
    <2>1. Native(k, a) = Reasoning(a)
      BY <1>9 DEF Native, NativeOpenAI
    <2> DEFINE t == IF a.text \/ a.calls = << >> THEN <<Block("text", 0)>> ELSE << >>
    <2>2. Says(t, << >>)
      BY <1>3
    <2> HIDE DEF t
    <2>3. Says(t \o Uses(a.calls), a.calls)
      BY <1>2, <2>2, SaysMore
    <2>4. Says(t \o Uses(a.calls) \o Reasoning(a), a.calls)
      BY <1>3, <2>3, SaysMore
    <2> QED BY <1>6, <1>9, <2>1, <2>4 DEF t
  <1> QED BY <1>7, <1>8, <1>9

-----------------------------------------------------------------------------
(* The conversation grows, and so does the request *)

\* A longer conversation is read from where the shorter one ended.
ReadsFurther(g, k, ms, ns) ==
  /\ g[0] = Collected(k, ms)
  /\ \A n \in 1..Len(ns) : g[n] = Step(k, g[n - 1], ns[n])
  /\ Collected(k, ms \o ns) = g[Len(ns)]

LEMMA LoopContinues ==
  ASSUME NEW S, NEW ms \in Seq(S), NEW ns \in Seq(S), NEW k
  PROVE  \E g : ReadsFurther(g, k, ms, ns)
PROOF
  <1> DEFINE all == ms \o ns
  <1>1. /\ all \in Seq(S) /\ Len(all) = Len(ms) + Len(ns)
        /\ Len(ms) \in Nat /\ Len(ns) \in Nat
        /\ \A i \in 1..Len(all) : all[i] = IF i <= Len(ms) THEN ms[i] ELSE ns[i - Len(ms)]
    BY LenProperties, ConcatProperties
  <1> HIDE DEF all
  <1>p. PICK f : Reads(f, k, ms)
    BY LoopIsStepwise
  <1>q. PICK h : Reads(h, k, all)
    BY <1>1, LoopIsStepwise
  <1>2. /\ f[0] = Start(k)
        /\ \A n \in 1..Len(ms) : f[n] = Step(k, f[n - 1], ms[n])
        /\ Collected(k, ms) = f[Len(ms)]
    BY <1>p DEF Reads
  <1>3. /\ h[0] = Start(k)
        /\ \A n \in 1..Len(all) : h[n] = Step(k, h[n - 1], all[n])
        /\ Collected(k, all) = h[Len(all)]
    BY <1>q DEF Reads
  <1>4. \A n \in 0..Len(ms) : h[n] = f[n]
    <2> DEFINE T == {n \in 0..Len(ms) : h[n] # f[n]}
    <2> SUFFICES ASSUME T # {} PROVE FALSE
      OBVIOUS
    <2>1. PICK n \in T : \A y \in T : n <= y
      <3>1. T \in SUBSET Nat
        BY <1>1
      <3> HIDE DEF T
      <3> QED BY <3>1, Least
    <2>2. n \in 0..Len(ms) /\ h[n] # f[n] /\ n # 0
      BY <1>2, <1>3
    <2>3. n \in 1..Len(ms) /\ n - 1 \in 0..Len(ms) /\ ~(n <= n - 1) /\ n \in 1..Len(all) /\ n <= Len(ms)
      BY <1>1, <2>2
    <2>4. h[n - 1] = f[n - 1]
      BY <2>1, <2>3
    <2>5. all[n] = ms[n]
      BY <1>1, <2>3
    <2> HIDE DEF T
    <2>6. f[n] = Step(k, f[n - 1], ms[n]) /\ h[n] = Step(k, h[n - 1], all[n])
      BY <1>2, <1>3, <2>3
    <2> QED BY <2>2, <2>4, <2>5, <2>6
  <1> DEFINE g == [n \in 0..Len(ns) |-> h[Len(ms) + n]]
  <1>5. g[0] = Collected(k, ms) /\ Collected(k, all) = g[Len(ns)]
    <2>1. 0 \in 0..Len(ns) /\ Len(ns) \in 0..Len(ns) /\ Len(ms) + 0 = Len(ms) /\ Len(ms) \in 0..Len(ms)
      BY <1>1
    <2>2. g[0] = h[Len(ms)] /\ g[Len(ns)] = h[Len(ms) + Len(ns)]
      BY <2>1
    <2> HIDE DEF g
    <2> QED BY <1>1, <1>2, <1>3, <1>4, <2>1, <2>2
  <1>6. ASSUME NEW n \in 1..Len(ns) PROVE g[n] = Step(k, g[n - 1], ns[n])
    <2>1. /\ n \in 0..Len(ns) /\ n - 1 \in 0..Len(ns)
          /\ Len(ms) + n \in 1..Len(all) /\ ~(Len(ms) + n <= Len(ms))
          /\ (Len(ms) + n) - Len(ms) = n /\ (Len(ms) + n) - 1 = Len(ms) + (n - 1)
      BY <1>1
    <2>2. g[n] = h[Len(ms) + n] /\ g[n - 1] = h[Len(ms) + (n - 1)]
      BY <2>1
    <2>3. all[Len(ms) + n] = ns[n]
      BY <1>1, <2>1
    <2> HIDE DEF g
    <2>4. h[Len(ms) + n] = Step(k, h[(Len(ms) + n) - 1], all[Len(ms) + n])
      BY <1>3, <2>1
    <2> QED BY <2>1, <2>2, <2>3, <2>4
  <1> HIDE DEF g
  <1>7. ReadsFurther(g, k, ms, ns)
    BY <1>5, <1>6 DEF ReadsFurther, all
  <1> QED BY <1>7

Messages == [role : {"system", "user", "assistant", "tool"}, text : BOOLEAN,
             calls : Seq(Int), native : Seq(Blocks)]

\* What the loop appends after an answer.
LEMMA NextAre ==
  ASSUME NEW k, NEW a \in AnswerTypes
  PROVE  /\ NextMessages(k, a) \in Seq(Messages)
         /\ a.calls # << >> =>
              /\ Len(NextMessages(k, a)) = Len(a.calls) + 1
              /\ NextMessages(k, a)[1] = Turn(k, a)
              /\ \A i \in 1..Len(a.calls) : NextMessages(k, a)[i + 1] = ToolResult(a.calls[i])
         /\ a.calls = << >> /\ (a.text \/ a.reasoning) =>
              /\ Len(NextMessages(k, a)) = 2
              /\ NextMessages(k, a)[1] = Turn(k, a) /\ NextMessages(k, a)[2] = Text("user")
         /\ a.calls = << >> /\ ~(a.text \/ a.reasoning) =>
              /\ Len(NextMessages(k, a)) = 1 /\ NextMessages(k, a)[1] = Text("user")
PROOF
  <1>1. a.calls \in Seq(Int) /\ a.text \in BOOLEAN /\ a.reasoning \in BOOLEAN
    BY DEF AnswerTypes
  <1>2. Native(k, a) \in Seq(Blocks)
    <2>1. Says(Uses(a.calls), a.calls) /\ Says(Reasoning(a), << >>) /\ Says(Content(a), << >>)
      BY <1>1, UsesSay, OneBlock DEF Reasoning, Content
    <2>2. Says(Reasoning(a) \o Content(a), << >>)
      BY <2>1, SaysMore
    <2>3. Says(Reasoning(a) \o Content(a) \o Uses(a.calls), a.calls)
      BY <2>1, <2>2, SaysMore
    <2>4. << >> \in Seq(Blocks)
      OBVIOUS
    <2> QED BY <2>1, <2>3, <2>4 DEF Says, Native, NativeAnthropic, NativeResponses, NativeOpenAI, Anthropics
  <1>3. Turn(k, a) \in Messages
    BY <1>1, <1>2 DEF Turn, Messages
  <1>4. Text("user") \in Messages
    BY DEF Text, Messages
  <1> DEFINE r == [i \in DOMAIN a.calls |-> ToolResult(a.calls[i])]
  <1>5. /\ r \in Seq(Messages) /\ Len(r) = Len(a.calls) /\ Len(r) \in Nat
        /\ \A i \in 1..Len(r) : r[i] = ToolResult(a.calls[i])
    <2>1. DOMAIN a.calls = 1..Len(a.calls) /\ Len(a.calls) \in Nat
      BY <1>1, LenProperties
    <2>2. \A i \in 1..Len(a.calls) : ToolResult(a.calls[i]) \in Messages
      BY <1>1, <2>1, ElementOfSeq DEF ToolResult, Messages
    <2> QED BY <2>1, <2>2
  <1>6. CASE a.calls # << >>
    <2>1. NextMessages(k, a) = <<Turn(k, a)>> \o r
      BY <1>6 DEF NextMessages
    <2> HIDE DEF r
    <2> DEFINE t == <<Turn(k, a)>>
    <2>2. t \in Seq(Messages) /\ Len(t) = 1 /\ t[1] = Turn(k, a)
      BY <1>3
    <2> HIDE DEF t
    <2>0. r \in Seq(Messages)
      BY <1>5
    <2>6. /\ t \o r \in Seq(Messages) /\ Len(t \o r) = Len(t) + Len(r)
          /\ \A i \in 1..(Len(t) + Len(r)) : (t \o r)[i] = IF i <= Len(t) THEN t[i] ELSE r[i - Len(t)]
      BY <2>0, <2>2, ConcatProperties
    <2>3. /\ t \o r \in Seq(Messages) /\ Len(t \o r) = 1 + Len(r)
          /\ \A i \in 1..(1 + Len(r)) : (t \o r)[i] = IF i <= 1 THEN t[i] ELSE r[i - 1]
      BY <2>2, <2>6
    <2>4. (t \o r)[1] = Turn(k, a)
      BY <1>5, <2>2, <2>3
    <2>5. ASSUME NEW i \in 1..Len(r) PROVE (t \o r)[i + 1] = r[i]
      <3>1. i + 1 \in 1..(1 + Len(r)) /\ ~(i + 1 <= 1) /\ (i + 1) - 1 = i
        BY <1>5
      <3> QED BY <2>3, <3>1
    <2> QED BY <1>5, <1>6, <2>1, <2>3, <2>4, <2>5 DEF t
  <1>7. CASE a.calls = << >> /\ (a.text \/ a.reasoning)
    <2>1. NextMessages(k, a) = <<Turn(k, a)>> \o <<Text("user")>>
      BY <1>7 DEF NextMessages
    <2> DEFINE t == <<Turn(k, a)>>
               u == <<Text("user")>>
    <2>2. t \in Seq(Messages) /\ u \in Seq(Messages) /\ Len(t) = 1 /\ Len(u) = 1
          /\ t[1] = Turn(k, a) /\ u[1] = Text("user")
      BY <1>3, <1>4
    <2>3. NextMessages(k, a) = t \o u
      BY <2>1
    <2> HIDE DEF t, u
    <2>4. /\ t \o u \in Seq(Messages) /\ Len(t \o u) = Len(t) + Len(u)
          /\ \A i \in 1..(Len(t) + Len(u)) : (t \o u)[i] = IF i <= Len(t) THEN t[i] ELSE u[i - Len(t)]
      BY <2>2, ConcatProperties
    <2> QED BY <1>7, <2>2, <2>3, <2>4
  <1>8. CASE a.calls = << >> /\ ~(a.text \/ a.reasoning)
    <2>1. NextMessages(k, a) = <<Text("user")>>
      BY <1>8 DEF NextMessages
    <2> QED BY <1>4, <1>8, <2>1
  <1> QED BY <1>6, <1>7, <1>8

-----------------------------------------------------------------------------
(* One exchange of the conversation on the wire *)

\* Every call made so far is answered, and the next turn may speak.
Settled(w, atOnce) ==
  /\ w \in Seq(Wires)
  /\ PairedTo(w, atOnce, {})
  /\ w = << >> \/ w[Len(w)].role # "assistant"

\* Only these calls, all of the last turn, are still to be answered.
Awaiting(w, atOnce, owed) ==
  /\ w \in Seq(Wires)
  /\ PairedTo(w, atOnce, owed)
  /\ \A c \in owed : Calling(w, atOnce, c)

LEMMA Appended ==
  ASSUME NEW w \in Seq(Wires), NEW m \in Wires
  PROVE  /\ w \o <<m>> \in Seq(Wires) /\ w \o <<m>> # << >>
         /\ (w \o <<m>>)[Len(w \o <<m>>)] = m
PROOF
  <1> DEFINE v == <<m>>
  <1>1. v \in Seq(Wires) /\ Len(v) = 1 /\ v[1] = m
    OBVIOUS
  <1> HIDE DEF v
  <1>2. /\ w \o v \in Seq(Wires) /\ Len(w \o v) = Len(w) + Len(v) /\ Len(w) \in Nat
        /\ \A i \in 1..Len(v) : (w \o v)[Len(w) + i] = v[i]
    BY <1>1, Longer
  <1>3. 1 \in 1..Len(v)
    BY <1>1
  <1>4. (w \o v)[Len(w) + 1] = m /\ Len(w \o v) = Len(w) + 1 /\ Len(w) + 1 # 0
    BY <1>1, <1>2, <1>3
  <1>5. Len(<< >>) = 0
    OBVIOUS
  <1> QED BY <1>2, <1>4, <1>5 DEF v

LEMMA MarksAre == ASSUME NEW m, NEW t PROVE BlocksOf(m, t) = Marks(m.blocks, t)
PROOF
  BY DEF BlocksOf, Marks

\* A user message without results follows a turn without calls.
LEMMA Nudged ==
  ASSUME NEW w, NEW atOnce \in BOOLEAN, NEW m \in Wires, Awaiting(w, atOnce, {}),
         m.role # "assistant", BlocksOf(m, "use") = {}, BlocksOf(m, "result") = {}
  PROVE  Settled(w \o <<m>>, atOnce)
PROOF
  <1>1. w \in Seq(Wires) /\ PairedTo(w, atOnce, {})
    BY DEF Awaiting
  <1>2. PairedTo(w \o <<m>>, atOnce, {} \ BlocksOf(m, "result"))
    BY <1>1, ReplyOnWire
  <1>3. {} \ BlocksOf(m, "result") = {}
    OBVIOUS
  <1> QED BY <1>1, <1>2, <1>3, Appended DEF Settled

\* All the results in one message.
LEMMA AnsweredAtOnce ==
  ASSUME NEW w, NEW calls \in Seq(Int), Awaiting(w, TRUE, ToSet(calls))
  PROVE  Settled(w \o <<WireMsg("user", [i \in DOMAIN calls |-> Block("result", calls[i])])>>, TRUE)
PROOF
  <1> DEFINE b == [i \in DOMAIN calls |-> Block("result", calls[i])]
             m == WireMsg("user", b)
  <1>1. DOMAIN calls = 1..Len(calls) /\ Len(calls) \in Nat
        /\ \A i \in 1..Len(calls) : calls[i] \in Int
    BY LenProperties, ElementOfSeq
  <1>2. b \in Seq(Blocks)
    <2>1. \A i \in 1..Len(calls) : Block("result", calls[i]) \in Blocks
      BY <1>1 DEF Block, Blocks
    <2> QED BY <1>1, <2>1
  <1>3. DOMAIN b = DOMAIN calls /\ \A i \in DOMAIN calls : b[i].type = "result" /\ b[i].call = calls[i]
    BY DEF Block
  <1> HIDE DEF b
  <1>4. m \in Wires /\ m.role = "user" /\ m.blocks = b
    BY <1>2 DEF WireMsg, Wires
  <1> HIDE DEF m
  <1>5. BlocksOf(m, "use") = {} /\ BlocksOf(m, "result") = ToSet(calls)
    BY <1>3, <1>4 DEF BlocksOf, ToSet
  <1>6. w \in Seq(Wires) /\ PairedTo(w, TRUE, ToSet(calls)) /\ \A c \in BlocksOf(m, "result") : Calling(w, TRUE, c)
    BY <1>5 DEF Awaiting
  <1>7. PairedTo(w \o <<m>>, TRUE, ToSet(calls) \ BlocksOf(m, "result"))
    BY <1>4, <1>5, <1>6, ReplyOnWire
  <1>8. ToSet(calls) \ BlocksOf(m, "result") = {}
    BY <1>5
  <1>9. Settled(w \o <<m>>, TRUE)
    BY <1>4, <1>6, <1>7, <1>8, Appended DEF Settled
  <1> QED BY <1>9 DEF m, b

\* A message for each result, one after the other.
ResultMsg(c) == WireMsg("user", <<Block("result", c)>>)

LEMMA ResultMsgs ==
  ASSUME NEW c \in Int
  PROVE  /\ ResultMsg(c) \in Wires /\ ResultMsg(c).role = "user"
         /\ BlocksOf(ResultMsg(c), "use") = {} /\ BlocksOf(ResultMsg(c), "result") = {c}
PROOF
  <1>1. Block("result", c) \in Blocks /\ Block("result", c).type = "result" /\ Block("result", c).call = c
    BY DEF Block, Blocks
  <1>2. <<Block("result", c)>> \in Seq(Blocks)
    BY <1>1
  <1>3. ResultMsg(c) \in Wires /\ ResultMsg(c).role = "user" /\ ResultMsg(c).blocks = <<Block("result", c)>>
    BY <1>2 DEF ResultMsg, WireMsg, Wires
  <1>4. "use" # "result"
    OBVIOUS
  <1> QED BY <1>1, <1>3, <1>4, MarksAre, MarksOne

LEMMA AnsweredOneByOne ==
  ASSUME NEW calls \in Seq(Int), NEW f, Awaiting(f[0], FALSE, ToSet(calls)), calls # << >>,
         \A q \in 1..Len(calls) : f[q] = f[q - 1] \o <<ResultMsg(calls[q])>>
  PROVE  Settled(f[Len(calls)], FALSE)
PROOF
  <1> DEFINE Owed(q) == {calls[p] : p \in (q + 1)..Len(calls)}
             Ok(q) == /\ f[q] \in Seq(Wires)
                      /\ PairedTo(f[q], FALSE, Owed(q))
                      /\ \A c \in ToSet(calls) : Calling(f[q], FALSE, c)
             T == {q \in 0..Len(calls) : ~Ok(q)}
  <1>1. DOMAIN calls = 1..Len(calls) /\ Len(calls) \in Nat /\ Len(calls) # 0
        /\ \A i \in 1..Len(calls) : calls[i] \in Int
    BY LenProperties, ElementOfSeq, EmptySeq
  <1>2. Ok(0)
    <2>1. Owed(0) = ToSet(calls)
      BY <1>1 DEF ToSet
    <2> QED BY <2>1 DEF Awaiting
  <1>3. ASSUME NEW q \in 1..Len(calls), Ok(q - 1) PROVE Ok(q)
    <2> DEFINE m == ResultMsg(calls[q])
    <2>1. /\ m \in Wires /\ m.role # "assistant" /\ BlocksOf(m, "use") = {}
          /\ BlocksOf(m, "result") = {calls[q]}
      BY <1>1, ResultMsgs
    <2> HIDE DEF m
    <2>2. f[q] = f[q - 1] \o <<m>>
      BY DEF m
    <2>3. f[q - 1] \in Seq(Wires) /\ PairedTo(f[q - 1], FALSE, Owed(q - 1))
          /\ \A c \in ToSet(calls) : Calling(f[q - 1], FALSE, c)
      BY <1>3
    <2>4. calls[q] \in ToSet(calls)
      BY <1>1 DEF ToSet
    <2>5. PairedTo(f[q], FALSE, Owed(q - 1) \ {calls[q]})
          /\ \A c : Calling(f[q - 1], FALSE, c) => Calling(f[q], FALSE, c)
      <3> HIDE DEF Owed
      <3> QED BY <2>1, <2>2, <2>3, <2>4, ReplyOnWire
    <2>6. ASSUME NEW c \in Owed(q - 1) \ {calls[q]} PROVE c \in Owed(q)
      <3>1. PICK p \in ((q - 1) + 1)..Len(calls) : c = calls[p]
        OBVIOUS
      <3>2. p # q
        BY <3>1
      <3>3. p \in (q + 1)..Len(calls)
        BY <1>1, <3>2
      <3> QED BY <3>1, <3>3
    <2>7. PairedTo(f[q], FALSE, Owed(q))
      <3> HIDE DEF Owed
      <3> QED BY <2>5, <2>6 DEF PairedTo
    <2>8. f[q] \in Seq(Wires)
      BY <2>1, <2>2, <2>3, Appended
    <2> HIDE DEF Owed
    <2> QED BY <2>3, <2>5, <2>7, <2>8
  <1>4. T = {}
    <2> SUFFICES ASSUME T # {} PROVE FALSE
      OBVIOUS
    <2> HIDE DEF Ok
    <2>1. T \in SUBSET Nat
      <3>1. Len(calls) \in Nat
        BY <1>1
      <3> QED BY <3>1
    <2>2. PICK q \in T : \A y \in T : q <= y
      <3> HIDE DEF T
      <3> QED BY <2>1, Least
    <2>3. q \in 0..Len(calls) /\ ~Ok(q) /\ q # 0
      BY <1>2
    <2>4. q \in 1..Len(calls) /\ q - 1 \in 0..Len(calls) /\ ~(q <= q - 1)
      BY <1>1, <2>3
    <2> QED BY <1>3, <2>2, <2>3, <2>4
  <1>5. Ok(Len(calls))
    <2> HIDE DEF Ok
    <2>1. Len(calls) \in 0..Len(calls)
      BY <1>1
    <2> QED BY <1>4, <2>1
  <1>6. Owed(Len(calls)) = {}
    BY <1>1
  <1>7. f[Len(calls)] # << >> /\ f[Len(calls)][Len(f[Len(calls)])].role # "assistant"
    <2> DEFINE n == Len(calls)
    <2>1. n \in 1..Len(calls) /\ n - 1 \in 0..Len(calls)
      BY <1>1
    <2> HIDE DEF n
    <2>2. f[n - 1] \in Seq(Wires)
      BY <1>4, <2>1
    <2>3. f[n] = f[n - 1] \o <<ResultMsg(calls[n])>> /\ calls[n] \in Int
      BY <1>1, <2>1
    <2>4. ResultMsg(calls[n]) \in Wires /\ ResultMsg(calls[n]).role # "assistant"
      BY <2>3, ResultMsgs
    <2>5. f[n] # << >> /\ f[n][Len(f[n])].role # "assistant"
      BY <2>2, <2>3, <2>4, Appended
    <2> QED BY <2>5 DEF n
  <1> QED BY <1>5, <1>6, <1>7 DEF Settled

-----------------------------------------------------------------------------
(* The conversation goes on *)

\* The wire messages of one message, of the clients that send it by itself.
Items(k, m) == IF k = "responses" THEN ResponsesInput(m) ELSE <<OpenAIMessage(m)>>

\* The body a client sends for a conversation.
Sent(k, ms) == Request(k, ms, 0, 0).msgs

LEMMA SentMeans ==
  ASSUME NEW k, NEW ms, NEW budget, NEW max
  PROVE  /\ Request(k, ms, budget, max).msgs = Sent(k, ms)
         /\ k \in Anthropics => Sent(k, ms) = Flush(Collected(k, ms)).out
         /\ k = "responses" => Sent(k, ms) = Collected(k, ms)
         /\ k \notin Anthropics /\ k # "responses" => Sent(k, ms) = OpenAIMessages(ms)
PROOF
  <1>1. CASE k \in Anthropics
    <2>1. k # "responses"
      BY <1>1 DEF Anthropics
    <2>2. \A b, m : Request(k, ms, b, m).msgs = AnthropicMessages(ms)
      BY <1>1, <2>1 DEF Request, AnthropicRequest, Anthropics
    <2>3. AnthropicMessages(ms) = Flush(Collected(k, ms)).out
      BY <2>1 DEF AnthropicMessages, Collected
    <2> QED BY <1>1, <2>1, <2>2, <2>3 DEF Sent
  <1>2. CASE k = "responses"
    <2>1. k \notin Anthropics
      BY <1>2 DEF Anthropics
    <2>2. \A b, m : Request(k, ms, b, m).msgs = ResponsesItems(ms)
      BY <1>2, <2>1 DEF Request, ResponsesRequest
    <2>3. ResponsesItems(ms) = Collected(k, ms)
      BY <1>2 DEF Collected
    <2> QED BY <1>2, <2>1, <2>2, <2>3 DEF Sent
  <1>3. CASE k \notin Anthropics /\ k # "responses"
    <2>1. \A b, m : Request(k, ms, b, m).msgs = OpenAIMessages(ms)
      BY <1>3 DEF Request, OpenAIRequest
    <2> QED BY <1>3, <2>1 DEF Sent
  <1> QED BY <1>1, <1>2, <1>3

\* A longer conversation adds the items of its messages, one after the other.
GoesOn(g, k, ms, ns) ==
  /\ g[0] = Sent(k, ms)
  /\ \A n \in 1..Len(ns) : g[n] = g[n - 1] \o Items(k, ns[n])
  /\ Sent(k, ms \o ns) = g[Len(ns)]

LEMMA SentContinues ==
  ASSUME NEW ms \in Seq(Messages), NEW ns \in Seq(Messages), NEW k, k \notin Anthropics
  PROVE  \E g : GoesOn(g, k, ms, ns)
PROOF
  <1>1. CASE k = "responses"
    <2>p. PICK g : ReadsFurther(g, k, ms, ns)
      BY LoopContinues
    <2>1. /\ g[0] = Collected(k, ms)
          /\ \A n \in 1..Len(ns) : g[n] = Step(k, g[n - 1], ns[n])
          /\ Collected(k, ms \o ns) = g[Len(ns)]
      BY <2>p DEF ReadsFurther
    <2>2. Collected(k, ms) = Sent(k, ms) /\ Collected(k, ms \o ns) = Sent(k, ms \o ns)
      BY <1>1, SentMeans
    <2>3. \A n \in 1..Len(ns) : g[n] = g[n - 1] \o Items(k, ns[n])
      BY <1>1, <2>1 DEF Step, ResponsesStep, Items
    <2> QED BY <2>1, <2>2, <2>3 DEF GoesOn
  <1>2. CASE k # "responses"
    <2>1. /\ Sent(k, ms) = OpenAIMessages(ms) /\ Sent(k, ms \o ns) = OpenAIMessages(ms \o ns)
          /\ \A m : Items(k, m) = <<OpenAIMessage(m)>>
      BY <1>2, SentMeans DEF Items
    <2> DEFINE all == OpenAIMessages(ms \o ns)
               g == [n \in 0..Len(ns) |-> [i \in 1..(Len(ms) + n) |-> all[i]]]
    <2>2. /\ Len(ms) \in Nat /\ Len(ns) \in Nat
          /\ DOMAIN ms = 1..Len(ms) /\ DOMAIN (ms \o ns) = 1..(Len(ms) + Len(ns))
          /\ \A i \in 1..(Len(ms) + Len(ns)) : (ms \o ns)[i] = IF i <= Len(ms) THEN ms[i] ELSE ns[i - Len(ms)]
      BY LenProperties, ConcatProperties
    <2>3. DOMAIN all = 1..(Len(ms) + Len(ns)) /\ \A i \in DOMAIN all : all[i] = OpenAIMessage((ms \o ns)[i])
      BY <2>2 DEF OpenAIMessages
    <2> HIDE DEF all
    <2>4. g[0] = Sent(k, ms)
      <3>1. g[0] = [i \in 1..Len(ms) |-> all[i]]
        BY <2>2
      <3>2. \A i \in 1..Len(ms) : all[i] = OpenAIMessage(ms[i])
        BY <2>2, <2>3
      <3> HIDE DEF g
      <3> QED BY <2>1, <2>2, <3>1, <3>2 DEF OpenAIMessages
    <2>5. Sent(k, ms \o ns) = g[Len(ns)]
      <3>1. g[Len(ns)] = [i \in 1..(Len(ms) + Len(ns)) |-> all[i]]
        BY <2>2
      <3>2. all = [i \in 1..(Len(ms) + Len(ns)) |-> all[i]]
        BY <2>2 DEF all, OpenAIMessages
      <3> HIDE DEF g
      <3> QED BY <2>1, <3>1, <3>2 DEF all
    <2>6. ASSUME NEW n \in 1..Len(ns) PROVE g[n] = g[n - 1] \o Items(k, ns[n])
      <3>1. /\ n \in 0..Len(ns) /\ n - 1 \in 0..Len(ns)
            /\ Len(ms) + n \in 1..(Len(ms) + Len(ns)) /\ ~(Len(ms) + n <= Len(ms))
            /\ (Len(ms) + n) - Len(ms) = n /\ Len(ms) + (n - 1) \in Nat
            /\ (Len(ms) + (n - 1)) + 1 = Len(ms) + n
        BY <2>2
      <3>2. g[n] = [i \in 1..(Len(ms) + n) |-> all[i]] /\ g[n - 1] = [i \in 1..(Len(ms) + (n - 1)) |-> all[i]]
        BY <3>1
      <3> HIDE DEF g
      <3>3. all[Len(ms) + n] = OpenAIMessage(ns[n])
        BY <2>2, <2>3, <3>1
      <3> DEFINE l == Len(ms) + (n - 1)
                 x == OpenAIMessage(ns[n])
      <3>4. l \in Nat /\ Len(ms) + n = l + 1 /\ all[l + 1] = x
        BY <3>1, <3>3
      <3>5. g[n] = [i \in 1..(l + 1) |-> all[i]] /\ g[n - 1] = [i \in 1..l |-> all[i]] /\ Items(k, ns[n]) = <<x>>
        BY <2>1, <3>2, <3>4
      <3> HIDE DEF l, x
      <3>6. g[n - 1] \o <<x>> = [i \in 1..(l + 1) |-> IF i <= l THEN all[i] ELSE x]
        BY <3>4, <3>5
      <3>7. \A i \in 1..(l + 1) : i <= l \/ i = l + 1
        BY <3>4
      <3> QED BY <3>4, <3>5, <3>6, <3>7
    <2> HIDE DEF g
    <2> QED BY <2>4, <2>5, <2>6 DEF GoesOn
  <1> QED BY <1>1, <1>2

\* The items of an assistant turn are what TurnOnWire asks for.
LEMMA TurnIsWaitedFor ==
  ASSUME NEW k, k \notin Anthropics, NEW a \in AnswerTypes, NEW w, Settled(w, FALSE)
  PROVE  Awaiting(w \o Items(k, Turn(k, a)), FALSE, ToSet(a.calls))
PROOF
  <1> DEFINE v == Items(k, Turn(k, a))
  <1>1. /\ Turn(k, a).role = "assistant" /\ Turn(k, a).calls = a.calls /\ Turn(k, a).text = a.text
    BY DEF Turn
  <1>2. /\ v \in Seq(Wires)
        /\ \A i \in DOMAIN v : /\ v[i].role = "assistant" /\ BlocksOf(v[i], "result") = {}
                               /\ BlocksOf(v[i], "use") \subseteq ToSet(a.calls)
        /\ \A c \in ToSet(a.calls) : \E i \in DOMAIN v : c \in BlocksOf(v[i], "use")
    <2>1. CASE k = "responses"
      <3> DEFINE b == IF Turn(k, a).native # << >> THEN Turn(k, a).native
                      ELSE TextBlocks(Turn(k, a)) \o Uses(a.calls)
      <3>1. Says(b, a.calls)
        BY <2>1, TurnSays
      <3>2. v = [i \in DOMAIN b |-> WireMsg("assistant", <<b[i]>>)]
        BY <1>1, <2>1 DEF Items, ResponsesInput, TurnItems
      <3> HIDE DEF b, v
      <3>3. b \in Seq(Blocks) /\ Marks(b, "use") = ToSet(a.calls) /\ Marks(b, "result") = {}
        BY <3>1 DEF Says
      <3>4. DOMAIN b = 1..Len(b) /\ Len(b) \in Nat /\ \A i \in DOMAIN b : b[i] \in Blocks
        BY <3>3, LenProperties, ElementOfSeq
      <3>5. ASSUME NEW i \in DOMAIN b
            PROVE  /\ v[i] \in Wires /\ v[i].role = "assistant"
                   /\ \A t : BlocksOf(v[i], t) = IF b[i].type = t THEN {b[i].call} ELSE {}
        <4>1. v[i].role = "assistant" /\ v[i].blocks = <<b[i]>> /\ v[i] = WireMsg("assistant", <<b[i]>>)
          BY <3>2 DEF WireMsg
        <4>2. <<b[i]>> \in Seq(Blocks) /\ \A t : Marks(<<b[i]>>, t) = IF b[i].type = t THEN {b[i].call} ELSE {}
          BY <3>4, MarksOne
        <4>3. \A t : BlocksOf(v[i], t) = Marks(<<b[i]>>, t)
          BY <4>1, MarksAre
        <4> QED BY <4>1, <4>2, <4>3 DEF WireMsg, Wires
      <3>6. v \in Seq(Wires) /\ DOMAIN v = DOMAIN b
        <4>1. \A i \in 1..Len(b) : v[i] \in Wires
          BY <3>4, <3>5
        <4>2. v = [i \in 1..Len(b) |-> v[i]]
          BY <3>2, <3>4
        <4>3. [i \in 1..Len(b) |-> v[i]] \in Seq(Wires)
          BY <3>4, <4>1
        <4> QED BY <3>2, <4>2, <4>3
      <3>7. ASSUME NEW i \in DOMAIN b
            PROVE  BlocksOf(v[i], "result") = {} /\ BlocksOf(v[i], "use") \subseteq ToSet(a.calls)
        <4>1. b[i].type # "result"
          <5>1. b[i].type = "result" => b[i].call \in Marks(b, "result")
            BY DEF Marks
          <5> QED BY <3>3, <5>1
        <4>2. b[i].type = "use" => b[i].call \in ToSet(a.calls)
          BY <3>3 DEF Marks
        <4> QED BY <3>5, <4>1, <4>2
      <3>8. ASSUME NEW c \in ToSet(a.calls) PROVE \E i \in DOMAIN b : c \in BlocksOf(v[i], "use")
        <4>1. PICK i \in DOMAIN b : b[i].type = "use" /\ b[i].call = c
          BY <3>3 DEF Marks
        <4> QED BY <3>5, <4>1
      <3> QED BY <3>5, <3>6, <3>7, <3>8
    <2>2. CASE k # "responses"
      <3> DEFINE b == (IF a.text \/ a.calls = << >> THEN <<Block("text", 0)>> ELSE << >>)
                        \o Uses(a.calls) \o Turn(k, a).native
                 m == WireMsg("assistant", b)
      <3>1. Says(b, a.calls)
        BY <2>2, TurnSays
      <3>2. v = <<m>>
        BY <1>1, <2>2 DEF Items, OpenAIMessage
      <3> HIDE DEF b
      <3>3. b \in Seq(Blocks) /\ Marks(b, "use") = ToSet(a.calls) /\ Marks(b, "result") = {}
        BY <3>1 DEF Says
      <3>4. m \in Wires /\ m.role = "assistant" /\ m.blocks = b
        BY <3>3 DEF WireMsg, Wires
      <3> HIDE DEF m, v
      <3>5. BlocksOf(m, "use") = ToSet(a.calls) /\ BlocksOf(m, "result") = {}
        BY <3>3, <3>4, MarksAre
      <3>6. v \in Seq(Wires) /\ DOMAIN v = {1} /\ v[1] = m
        BY <3>2, <3>4
      <3> QED BY <3>4, <3>5, <3>6
    <2> QED BY <2>1, <2>2
  <1> HIDE DEF v
  <1>3. w \in Seq(Wires) /\ PairedTo(w, FALSE, {}) /\ (w = << >> \/ w[Len(w)].role # "assistant")
    BY DEF Settled
  <1>4. w \o v \in Seq(Wires)
    BY <1>2, <1>3, Longer
  <1>5. PairedTo(w \o v, FALSE, ToSet(a.calls)) /\ \A c \in ToSet(a.calls) : Calling(w \o v, FALSE, c)
    BY <1>2, <1>3, TurnOnWire
  <1> QED BY <1>4, <1>5 DEF Awaiting, v

\* The nudge on the wire.
UserMsg == WireMsg("user", <<Block("text", 0)>>)

LEMMA NudgeMsg ==
  /\ UserMsg \in Wires /\ UserMsg.role = "user" /\ UserMsg.blocks = TextBlocks(Text("user"))
  /\ BlocksOf(UserMsg, "use") = {} /\ BlocksOf(UserMsg, "result") = {}
PROOF
  <1>1. Says(<<Block("text", 0)>>, << >>)
    BY OneBlock
  <1>2. <<Block("text", 0)>> \in Seq(Blocks) /\ Marks(<<Block("text", 0)>>, "use") = {}
        /\ Marks(<<Block("text", 0)>>, "result") = {}
    BY <1>1 DEF Says, ToSet
  <1>3. UserMsg.role = "user" /\ UserMsg.blocks = <<Block("text", 0)>> /\ UserMsg \in Wires
    BY <1>2 DEF UserMsg, WireMsg, Wires
  <1> QED BY <1>2, <1>3, MarksAre DEF TextBlocks, Text

LEMMA SettledAwaits ==
  ASSUME NEW w, NEW atOnce, Settled(w, atOnce) PROVE Awaiting(w, atOnce, {})
PROOF
  BY DEF Settled, Awaiting

\* The chat and the responses client: the items of an exchange, one by one.
LEMMA ItemsSettle ==
  ASSUME NEW k, k \notin Anthropics, NEW a \in AnswerTypes, NEW g, Settled(g[0], FALSE),
         \A n \in 1..Len(NextMessages(k, a)) : g[n] = g[n - 1] \o Items(k, NextMessages(k, a)[n])
  PROVE  Settled(g[Len(NextMessages(k, a))], FALSE)
PROOF
  <1> DEFINE ns == NextMessages(k, a)
  <1>1. a.calls \in Seq(Int) /\ a.text \in BOOLEAN /\ a.reasoning \in BOOLEAN
    BY DEF AnswerTypes
  <1>2. \A c : Items(k, ToolResult(c)) = <<ResultMsg(c)>>
    BY DEF Items, ResponsesInput, OpenAIMessage, ToolResult, ResultMsg
  <1>3. Items(k, Text("user")) = <<UserMsg>>
    BY DEF Items, ResponsesInput, OpenAIMessage, Text, UserMsg
  <1>4. CASE a.calls # << >>
    <2>1. /\ Len(ns) = Len(a.calls) + 1 /\ ns[1] = Turn(k, a)
          /\ \A i \in 1..Len(a.calls) : ns[i + 1] = ToolResult(a.calls[i])
      BY <1>4, NextAre
    <2> DEFINE f == [q \in 0..Len(a.calls) |-> g[q + 1]]
    <2>2. Len(a.calls) \in Nat
      BY <1>1, LenProperties
    <2> HIDE DEF ns
    <2>3. g[1] = g[0] \o Items(k, Turn(k, a))
      <3>1. 1 \in 1..Len(ns) /\ 1 - 1 = 0
        BY <2>1, <2>2
      <3>2. g[1] = g[1 - 1] \o Items(k, ns[1])
        BY <3>1 DEF ns
      <3> QED BY <2>1, <3>1, <3>2
    <2>4. f[0] = g[1] /\ f[Len(a.calls)] = g[Len(ns)]
      BY <2>1, <2>2
    <2>5. ASSUME NEW q \in 1..Len(a.calls) PROVE f[q] = f[q - 1] \o <<ResultMsg(a.calls[q])>>
      <3>1. q + 1 \in 1..Len(ns) /\ q \in 0..Len(a.calls) /\ q - 1 \in 0..Len(a.calls)
            /\ (q + 1) - 1 = q /\ (q - 1) + 1 = q
        BY <2>1, <2>2
      <3>2. f[q] = g[q + 1] /\ f[q - 1] = g[q]
        BY <3>1
      <3> HIDE DEF f
      <3>3. g[q + 1] = g[(q + 1) - 1] \o Items(k, ns[q + 1])
        BY <3>1 DEF ns
      <3> QED BY <1>2, <2>1, <3>1, <3>2, <3>3
    <2> HIDE DEF f
    <2>6. Awaiting(f[0], FALSE, ToSet(a.calls))
      BY <2>3, <2>4, TurnIsWaitedFor
    <2>7. Settled(f[Len(a.calls)], FALSE)
      BY <1>1, <1>4, <2>5, <2>6, AnsweredOneByOne
    <2> QED BY <2>4, <2>7 DEF ns
  <1>5. CASE a.calls = << >> /\ (a.text \/ a.reasoning)
    <2>1. Len(ns) = 2 /\ ns[1] = Turn(k, a) /\ ns[2] = Text("user")
      BY <1>5, NextAre
    <2> HIDE DEF ns
    <2>2. g[1] = g[0] \o Items(k, ns[1]) /\ g[2] = g[1] \o Items(k, ns[2])
      <3>1. 1 \in 1..Len(ns) /\ 2 \in 1..Len(ns) /\ 1 - 1 = 0 /\ 2 - 1 = 1
        BY <2>1
      <3>2. \A n \in 1..Len(ns) : g[n] = g[n - 1] \o Items(k, ns[n])
        BY DEF ns
      <3> QED BY <3>1, <3>2
    <2>3. ToSet(a.calls) = {}
      BY <1>5 DEF ToSet
    <2>4. Awaiting(g[1], FALSE, {})
      <3>1. Awaiting(g[0] \o Items(k, Turn(k, a)), FALSE, ToSet(a.calls))
        BY TurnIsWaitedFor
      <3> QED BY <2>1, <2>2, <2>3, <3>1
    <2>5. Settled(g[2], FALSE)
      BY <1>3, <2>1, <2>2, <2>4, Nudged, NudgeMsg
    <2> QED BY <2>1, <2>5 DEF ns
  <1>6. CASE a.calls = << >> /\ ~(a.text \/ a.reasoning)
    <2>1. Len(ns) = 1 /\ ns[1] = Text("user")
      BY <1>6, NextAre
    <2> HIDE DEF ns
    <2>2. g[1] = g[0] \o Items(k, ns[1])
      <3>1. 1 \in 1..Len(ns) /\ 1 - 1 = 0
        BY <2>1
      <3>2. \A n \in 1..Len(ns) : g[n] = g[n - 1] \o Items(k, ns[n])
        BY DEF ns
      <3> QED BY <3>1, <3>2
    <2>3. Settled(g[1], FALSE)
      BY <1>3, <2>1, <2>2, SettledAwaits, Nudged, NudgeMsg
    <2> QED BY <2>1, <2>3 DEF ns
  <1> QED BY <1>1, <1>4, <1>5, <1>6

\* What buildAnthropicParams has read of a conversation that may go on.
Collects(s) == s \in [out : Seq(Wires), held : Seq(Int)] /\ Settled(Flush(s).out, TRUE)

LEMMA FlushIs ==
  ASSUME NEW s \in [out : Seq(Wires), held : Seq(Int)]
  PROVE  /\ Flush(s).held = << >>
         /\ s.held = << >> => Flush(s).out = s.out
         /\ s.held # << >> =>
              Flush(s).out = s.out \o <<WireMsg("user", [i \in DOMAIN s.held |-> Block("result", s.held[i])])>>
PROOF
  <1>1. CASE s.held = << >>
    BY <1>1 DEF Flush
  <1>2. CASE s.held # << >>
    <2> DEFINE m == WireMsg("user", [i \in DOMAIN s.held |-> Block("result", s.held[i])])
    <2>1. Flush(s) = [out |-> Append(s.out, m), held |-> << >>]
      BY <1>2 DEF Flush
    <2> HIDE DEF m
    <2>2. Append(s.out, m) = s.out \o <<m>>
      <3>1. s.out \in Seq(Wires)
        OBVIOUS
      <3> QED BY <3>1
    <2>3. Flush(s).held = << >> /\ Flush(s).out = s.out \o <<m>>
      BY <2>1, <2>2
    <2> QED BY <1>2, <2>3 DEF m
  <1> QED BY <1>1, <1>2

LEMMA Replaced ==
  ASSUME NEW o, NEW h, NEW y, NEW f, f = [out |-> o, held |-> h]
  PROVE  /\ [f EXCEPT !.out = y] = [out |-> y, held |-> h]
         /\ [f EXCEPT !.held = y] = [out |-> o, held |-> y]
PROOF
  <1> DEFINE P == {o, y}
             Q == {h, y}
  <1>1. o \in P /\ y \in P /\ h \in Q /\ y \in Q
    OBVIOUS
  <1> HIDE DEF P, Q
  <1> QED BY <1>1

\* One message that is no result ends what was held.
LEMMA StepAppends ==
  ASSUME NEW s \in [out : Seq(Wires), held : Seq(Int)], Flush(s).out \in Seq(Wires), NEW m
  PROVE  /\ m.role = "assistant" =>
              AnthropicStep(s, m) =
                [out |-> Flush(s).out \o <<WireMsg("assistant", AssistantBlocks(m))>>, held |-> << >>]
         /\ m.role = "user" =>
              AnthropicStep(s, m) =
                [out |-> Flush(s).out \o <<WireMsg("user", TextBlocks(m))>>, held |-> << >>]
PROOF
  <1> DEFINE o == Flush(s).out
  <1>1. Flush(s) = [out |-> o, held |-> << >>] /\ o \in Seq(Wires)
    BY FlushIs DEF Flush
  <1> HIDE DEF o
  <1>2. ASSUME NEW x PROVE [Flush(s) EXCEPT !.out = Append(@, x)] = [out |-> o \o <<x>>, held |-> << >>]
    <2> DEFINE f == Flush(s)
               h == << >>
               y == o \o <<x>>
    <2>1. f = [out |-> o, held |-> h]
      BY <1>1
    <2> HIDE DEF f, h
    <2>2. [f EXCEPT !.out = Append(@, x)] = [f EXCEPT !.out = Append(o, x)]
      BY <2>1
    <2>3. Append(o, x) = y
      BY <1>1
    <2> HIDE DEF y
    <2>4. [f EXCEPT !.out = y] = [out |-> y, held |-> h]
      BY <2>1, Replaced
    <2> QED BY <2>2, <2>3, <2>4 DEF f, h, y
  <1>3. m.role = "assistant" =>
          AnthropicStep(s, m) = [Flush(s) EXCEPT !.out = Append(@, WireMsg("assistant", AssistantBlocks(m)))]
    BY DEF AnthropicStep
  <1>4. m.role = "user" =>
          AnthropicStep(s, m) = [Flush(s) EXCEPT !.out = Append(@, WireMsg("user", TextBlocks(m)))]
    BY DEF AnthropicStep
  <1> QED BY <1>2, <1>3, <1>4 DEF o

\* The turn of a Messages API client.
LEMMA TurnIsWaitedForAtOnce ==
  ASSUME NEW k \in Anthropics, NEW a \in AnswerTypes, NEW s, Collects(s)
  PROVE  \E w : /\ AnthropicStep(s, Turn(k, a)) = [out |-> w, held |-> << >>]
                /\ Awaiting(w, TRUE, ToSet(a.calls))
PROOF
  <1> DEFINE t == Turn(k, a)
             b == AssistantBlocks(t)
             m == WireMsg("assistant", b)
             v == <<m>>
             w == Flush(s).out
  <1>1. t.role = "assistant" /\ s \in [out : Seq(Wires), held : Seq(Int)] /\ Settled(w, TRUE)
    BY DEF Turn, Collects
  <1>2. Says(b, a.calls)
    BY TurnSays
  <1>3. w \in Seq(Wires) /\ PairedTo(w, TRUE, {}) /\ (w = << >> \/ w[Len(w)].role # "assistant")
    BY <1>1 DEF Settled
  <1>4. AnthropicStep(s, t) = [out |-> w \o v, held |-> << >>]
    BY <1>1, <1>3, StepAppends
  <1> HIDE DEF t, b, w
  <1>5. b \in Seq(Blocks) /\ Marks(b, "use") = ToSet(a.calls) /\ Marks(b, "result") = {}
    BY <1>2 DEF Says
  <1>6. m \in Wires /\ m.role = "assistant" /\ m.blocks = b
    BY <1>5 DEF WireMsg, Wires
  <1> HIDE DEF m
  <1>7. BlocksOf(m, "use") = ToSet(a.calls) /\ BlocksOf(m, "result") = {}
    BY <1>5, <1>6, MarksAre
  <1>8. v \in Seq(Wires) /\ DOMAIN v = {1} /\ v[1] = m /\ Len(v) = 1
    BY <1>6
  <1> HIDE DEF v
  <1>9. PairedTo(w \o v, TRUE, ToSet(a.calls)) /\ \A c \in ToSet(a.calls) : Calling(w \o v, TRUE, c)
    BY <1>3, <1>6, <1>7, <1>8, TurnOnWire
  <1>10. w \o v \in Seq(Wires)
    BY <1>3, <1>8, Longer
  <1> QED BY <1>4, <1>9, <1>10 DEF Awaiting, t

\* The results of a turn are held until the conversation goes on.
LEMMA ResultsAreHeld ==
  ASSUME NEW calls \in Seq(Int), NEW f, NEW w,
         f[0] = [out |-> w, held |-> << >>],
         \A q \in 1..Len(calls) : f[q] = AnthropicStep(f[q - 1], ToolResult(calls[q]))
  PROVE  f[Len(calls)] = [out |-> w, held |-> calls]
PROOF
  <1> DEFINE Ok(q) == \E h \in Seq(Int) : /\ f[q] = [out |-> w, held |-> h] /\ Len(h) = q
                                          /\ \A i \in 1..q : h[i] = calls[i]
             T == {q \in 0..Len(calls) : ~Ok(q)}
  <1>1. DOMAIN calls = 1..Len(calls) /\ Len(calls) \in Nat
        /\ \A i \in 1..Len(calls) : calls[i] \in Int
    BY LenProperties, ElementOfSeq
  <1>2. Ok(0)
    <2>1. << >> \in Seq(Int) /\ Len(<< >>) = 0 /\ \A i \in 1..0 : <<>>[i] = calls[i]
      OBVIOUS
    <2> QED BY <2>1
  <1>3. ASSUME NEW q \in 1..Len(calls), Ok(q - 1) PROVE Ok(q)
    <2>1. PICK h \in Seq(Int) : /\ f[q - 1] = [out |-> w, held |-> h] /\ Len(h) = q - 1
                                /\ \A i \in 1..(q - 1) : h[i] = calls[i]
      BY <1>3
    <2> DEFINE u == <<calls[q]>>
               r == ToolResult(calls[q])
    <2>2. r.role = "tool" /\ r.calls = u
      BY DEF ToolResult
    <2>3. u \in Seq(Int) /\ Len(u) = 1 /\ u[1] = calls[q]
      BY <1>1
    <2>4. f[q] = AnthropicStep(f[q - 1], r)
      OBVIOUS
    <2> HIDE DEF u, r
    <2>5. f[q] = [f[q - 1] EXCEPT !.held = @ \o r.calls]
      BY <2>2, <2>4 DEF AnthropicStep
    <2>6. f[q] = [out |-> w, held |-> h \o u]
      <3>1. f[q] = [f[q - 1] EXCEPT !.held = h \o u]
        BY <2>1, <2>2, <2>5
      <3> DEFINE p == f[q - 1]
                 y == h \o u
      <3>2. p = [out |-> w, held |-> h] /\ f[q] = [p EXCEPT !.held = y]
        BY <2>1, <3>1
      <3> HIDE DEF p, y
      <3>3. [p EXCEPT !.held = y] = [out |-> w, held |-> y]
        BY <3>2, Replaced
      <3> QED BY <3>2, <3>3 DEF y
    <2>7. h \o u \in Seq(Int) /\ Len(h \o u) = Len(h) + Len(u)
          /\ \A i \in 1..(Len(h) + Len(u)) : (h \o u)[i] = IF i <= Len(h) THEN h[i] ELSE u[i - Len(h)]
      BY <2>3, ConcatProperties
    <2>8. Len(h) + Len(u) = q /\ Len(h) = q - 1
      BY <1>1, <2>1, <2>3
    <2>9. ASSUME NEW i \in 1..q PROVE (h \o u)[i] = calls[i]
      <3>1. CASE i <= q - 1
        BY <1>1, <2>1, <2>7, <2>8, <3>1
      <3>2. CASE ~(i <= q - 1)
        <4>1. i = q /\ i - (q - 1) = 1
          BY <1>1, <3>2
        <4> QED BY <2>3, <2>7, <2>8, <3>2, <4>1
      <3> QED BY <3>1, <3>2
    <2> QED BY <2>6, <2>7, <2>8, <2>9
  <1>4. Ok(Len(calls))
    <2> HIDE DEF Ok
    <2>1. T \in SUBSET Nat
      <3>1. Len(calls) \in Nat
        BY <1>1
      <3> QED BY <3>1
    <2>2. ASSUME T # {} PROVE FALSE
      <3>1. PICK q \in T : \A y \in T : q <= y
        <4> HIDE DEF T
        <4> QED BY <2>1, <2>2, Least
      <3>2. q \in 0..Len(calls) /\ ~Ok(q) /\ q # 0
        BY <1>2
      <3>3. q \in 1..Len(calls) /\ q - 1 \in 0..Len(calls) /\ ~(q <= q - 1)
        BY <1>1, <3>2
      <3> QED BY <1>3, <3>1, <3>2, <3>3
    <2>3. Len(calls) \in 0..Len(calls)
      BY <1>1
    <2> QED BY <2>2, <2>3
  <1>5. PICK h \in Seq(Int) : /\ f[Len(calls)] = [out |-> w, held |-> h] /\ Len(h) = Len(calls)
                              /\ \A i \in 1..Len(calls) : h[i] = calls[i]
    BY <1>4
  <1>6. h = calls
    BY <1>5, SeqEqual
  <1> QED BY <1>5, <1>6

\* The nudge ends what was held.
LEMMA NudgeCollects ==
  ASSUME NEW s \in [out : Seq(Wires), held : Seq(Int)], Awaiting(Flush(s).out, TRUE, {})
  PROVE  Collects(AnthropicStep(s, Text("user")))
PROOF
  <1>0. /\ Text("user").role = "user" /\ WireMsg("user", TextBlocks(Text("user"))) = UserMsg
    BY DEF Text, TextBlocks, UserMsg
  <1> DEFINE r == AnthropicStep(s, Text("user"))
             o == Flush(s).out
             t == Text("user")
  <1>1. o \in Seq(Wires) /\ t.role = "user"
    BY <1>0 DEF Awaiting
  <1>2. r = [out |-> o \o <<WireMsg("user", TextBlocks(t))>>, held |-> << >>]
    BY <1>1, StepAppends
  <1>3. WireMsg("user", TextBlocks(t)) = UserMsg
    BY <1>0
  <1>4. Settled(o \o <<UserMsg>>, TRUE)
    <2>1. Awaiting(o, TRUE, {}) /\ TRUE \in BOOLEAN
      OBVIOUS
    <2>2. /\ UserMsg \in Wires /\ UserMsg.role # "assistant"
          /\ BlocksOf(UserMsg, "use") = {} /\ BlocksOf(UserMsg, "result") = {}
      BY NudgeMsg
    <2> HIDE DEF o
    <2> QED BY <2>1, <2>2, Nudged
  <1> HIDE DEF r, o, t
  <1> DEFINE p == o \o <<UserMsg>>
  <1>5. r = [out |-> p, held |-> << >>] /\ Settled(p, TRUE) /\ p \in Seq(Wires)
    BY <1>2, <1>3, <1>4 DEF Settled
  <1> HIDE DEF p
  <1>6. r \in [out : Seq(Wires), held : Seq(Int)] /\ r.held = << >> /\ r.out = p
    BY <1>5
  <1>7. Flush(r).out = p
    BY <1>6, FlushIs
  <1> QED BY <1>5, <1>6, <1>7 DEF Collects, r

\* The Messages API client: an exchange is read whole.
LEMMA CollectsOn ==
  ASSUME NEW k \in Anthropics, NEW a \in AnswerTypes, NEW g, Collects(g[0]),
         \A n \in 1..Len(NextMessages(k, a)) : g[n] = AnthropicStep(g[n - 1], NextMessages(k, a)[n])
  PROVE  Collects(g[Len(NextMessages(k, a))])
PROOF
  <1> DEFINE ns == NextMessages(k, a)
  <1>1. a.calls \in Seq(Int) /\ a.text \in BOOLEAN /\ a.reasoning \in BOOLEAN
    BY DEF AnswerTypes
  <1>4. CASE a.calls # << >>
    <2>1. /\ Len(ns) = Len(a.calls) + 1 /\ ns[1] = Turn(k, a)
          /\ \A i \in 1..Len(a.calls) : ns[i + 1] = ToolResult(a.calls[i])
      BY <1>4, NextAre
    <2> DEFINE f == [q \in 0..Len(a.calls) |-> g[q + 1]]
    <2>2. Len(a.calls) \in Nat
      BY <1>1, LenProperties
    <2> HIDE DEF ns
    <2>3. g[1] = AnthropicStep(g[0], Turn(k, a))
      <3>1. 1 \in 1..Len(ns) /\ 1 - 1 = 0
        BY <2>1, <2>2
      <3>2. g[1] = AnthropicStep(g[1 - 1], ns[1])
        BY <3>1 DEF ns
      <3> QED BY <2>1, <3>1, <3>2
    <2>4. f[0] = g[1] /\ f[Len(a.calls)] = g[Len(ns)]
      BY <2>1, <2>2
    <2>5. ASSUME NEW q \in 1..Len(a.calls)
          PROVE  f[q] = AnthropicStep(f[q - 1], ToolResult(a.calls[q]))
      <3>1. q + 1 \in 1..Len(ns) /\ q \in 0..Len(a.calls) /\ q - 1 \in 0..Len(a.calls)
            /\ (q + 1) - 1 = q /\ (q - 1) + 1 = q
        BY <2>1, <2>2
      <3>2. f[q] = g[q + 1] /\ f[q - 1] = g[q]
        BY <3>1
      <3> HIDE DEF f
      <3>3. g[q + 1] = AnthropicStep(g[(q + 1) - 1], ns[q + 1])
        BY <3>1 DEF ns
      <3> QED BY <2>1, <3>1, <3>2, <3>3
    <2> HIDE DEF f
    <2> DEFINE s == g[Len(ns)]
    <2>6. PICK w : f[0] = [out |-> w, held |-> << >>] /\ Awaiting(w, TRUE, ToSet(a.calls))
      <3>1. \E w : /\ AnthropicStep(g[0], Turn(k, a)) = [out |-> w, held |-> << >>]
                   /\ Awaiting(w, TRUE, ToSet(a.calls))
        BY TurnIsWaitedForAtOnce
      <3> QED BY <2>3, <2>4, <3>1
    <2>7. s = [out |-> w, held |-> a.calls]
      <3> HIDE DEF s
      <3>1. f[Len(a.calls)] = [out |-> w, held |-> a.calls]
        BY <1>1, <2>5, <2>6, ResultsAreHeld
      <3> QED BY <2>4, <3>1 DEF s
    <2> HIDE DEF s
    <2>8. s \in [out : Seq(Wires), held : Seq(Int)] /\ s.held # << >> /\ s.held = a.calls /\ s.out = w
      BY <1>1, <1>4, <2>6, <2>7 DEF Awaiting
    <2>9. Flush(s).out = w \o <<WireMsg("user", [i \in DOMAIN a.calls |-> Block("result", a.calls[i])])>>
      BY <2>8, FlushIs
    <2>10. Settled(Flush(s).out, TRUE)
      BY <1>1, <2>6, <2>9, AnsweredAtOnce
    <2> QED BY <2>8, <2>10 DEF Collects, s, ns
  <1>5. CASE a.calls = << >> /\ (a.text \/ a.reasoning)
    <2>1. Len(ns) = 2 /\ ns[1] = Turn(k, a) /\ ns[2] = Text("user")
      BY <1>5, NextAre
    <2> HIDE DEF ns
    <2>2. g[1] = AnthropicStep(g[0], ns[1]) /\ g[2] = AnthropicStep(g[1], ns[2])
      <3>1. 1 \in 1..Len(ns) /\ 2 \in 1..Len(ns) /\ 1 - 1 = 0 /\ 2 - 1 = 1
        BY <2>1
      <3>2. \A n \in 1..Len(ns) : g[n] = AnthropicStep(g[n - 1], ns[n])
        BY DEF ns
      <3> QED BY <3>1, <3>2
    <2>3. ToSet(a.calls) = {}
      BY <1>5 DEF ToSet
    <2> DEFINE s == g[1]
    <2>4. PICK w : s = [out |-> w, held |-> << >>] /\ Awaiting(w, TRUE, {})
      <3>1. \E w : /\ AnthropicStep(g[0], Turn(k, a)) = [out |-> w, held |-> << >>]
                   /\ Awaiting(w, TRUE, ToSet(a.calls))
        BY TurnIsWaitedForAtOnce
      <3> QED BY <2>1, <2>2, <2>3, <3>1
    <2> HIDE DEF s
    <2>5. s \in [out : Seq(Wires), held : Seq(Int)] /\ s.held = << >> /\ s.out = w
      BY <2>4 DEF Awaiting
    <2>6. Flush(s).out = w
      BY <2>5, FlushIs
    <2>7. Collects(AnthropicStep(s, Text("user")))
      BY NudgeCollects, <2>4, <2>5, <2>6
    <2> QED BY <2>1, <2>2, <2>7 DEF ns, s
  <1>6. CASE a.calls = << >> /\ ~(a.text \/ a.reasoning)
    <2>1. Len(ns) = 1 /\ ns[1] = Text("user")
      BY <1>6, NextAre
    <2> HIDE DEF ns
    <2>2. g[1] = AnthropicStep(g[0], ns[1])
      <3>1. 1 \in 1..Len(ns) /\ 1 - 1 = 0
        BY <2>1
      <3>2. \A n \in 1..Len(ns) : g[n] = AnthropicStep(g[n - 1], ns[n])
        BY DEF ns
      <3> QED BY <3>1, <3>2
    <2>3. g[0] \in [out : Seq(Wires), held : Seq(Int)] /\ Awaiting(Flush(g[0]).out, TRUE, {})
      BY SettledAwaits DEF Collects
    <2> QED BY NudgeCollects, <2>1, <2>2, <2>3 DEF ns
  <1> QED BY <1>1, <1>4, <1>5, <1>6

-----------------------------------------------------------------------------
(* Calls meet their results *)

\* What a client would send for the conversation as it stands.
ReadsWell(k, ms) ==
  IF k \in Anthropics THEN Collects(Collected(k, ms)) ELSE Settled(Sent(k, ms), FALSE)

\* The conversation between two calls is one whose calls are all answered,
\* and the request in flight, if there is one, was made of it.
ConvInv ==
  /\ kind \in Kinds
  /\ conv \in Seq(Messages)
  /\ answer \in AnswerTypes
  /\ ReadsWell(kind, conv)
  /\ wire.msgs = << >> \/ wire.msgs = Sent(kind, conv)

LEMMA ReadsOn ==
  ASSUME NEW k, NEW ms \in Seq(Messages), NEW a \in AnswerTypes, ReadsWell(k, ms)
  PROVE  ReadsWell(k, ms \o NextMessages(k, a))
PROOF
  <1> DEFINE ns == NextMessages(k, a)
  <1>1. ns \in Seq(Messages)
    BY NextAre
  <1>2. CASE k \in Anthropics
    <2>p. PICK g : ReadsFurther(g, k, ms, ns)
      <3> HIDE DEF ns
      <3> QED BY <1>1, LoopContinues
    <2>1. /\ g[0] = Collected(k, ms)
          /\ \A n \in 1..Len(ns) : g[n] = Step(k, g[n - 1], ns[n])
          /\ Collected(k, ms \o ns) = g[Len(ns)]
      BY <2>p DEF ReadsFurther
    <2>2. k # "responses"
      BY <1>2 DEF Anthropics
    <2>3. \A n \in 1..Len(ns) : g[n] = AnthropicStep(g[n - 1], ns[n])
      BY <2>1, <2>2 DEF Step
    <2>4. Collects(g[0])
      BY <1>2, <2>1 DEF ReadsWell
    <2>5. Collects(g[Len(ns)])
      BY <1>2, <2>3, <2>4, CollectsOn
    <2> QED BY <1>2, <2>1, <2>5 DEF ReadsWell
  <1>3. CASE k \notin Anthropics
    <2>1. Settled(Sent(k, ms), FALSE)
      BY <1>3 DEF ReadsWell
    <2>2. PICK g : GoesOn(g, k, ms, ns)
      <3> HIDE DEF ns
      <3> QED BY <1>1, <1>3, SentContinues
    <2>3. /\ g[0] = Sent(k, ms)
          /\ \A n \in 1..Len(ns) : g[n] = g[n - 1] \o Items(k, ns[n])
          /\ Sent(k, ms \o ns) = g[Len(ns)]
      BY <2>2 DEF GoesOn
    <2>4. Settled(g[Len(ns)], FALSE)
      BY <1>3, <2>1, <2>3, ItemsSettle
    <2> QED BY <1>3, <2>3, <2>4 DEF ReadsWell
  <1> QED BY <1>2, <1>3

LEMMA NothingSent == Settled(<< >>, TRUE) /\ Settled(<< >>, FALSE)
PROOF
  <1>1. << >> \in Seq(Wires) /\ DOMAIN << >> = {}
    OBVIOUS
  <1> QED BY <1>1 DEF Settled, PairedTo

LEMMA FirstReadsWell ==
  ASSUME NEW k
  PROVE  /\ <<Text("system"), Text("user")>> \in Seq(Messages)
         /\ ReadsWell(k, <<Text("system"), Text("user")>>)
PROOF
  <1> DEFINE ms == <<Text("system"), Text("user")>>
  <1>1. ms \in Seq(Messages) /\ Len(ms) = 2 /\ ms[1] = Text("system") /\ ms[2] = Text("user")
    <2>1. Text("system") \in Messages /\ Text("user") \in Messages
      BY DEF Text, Messages
    <2> QED BY <2>1
  <1> HIDE DEF ms
  <1>2. 1 \in 1..Len(ms) /\ 2 \in 1..Len(ms) /\ 1 - 1 = 0 /\ 2 - 1 = 1
    BY <1>1
  <1>3. CASE k \in Anthropics
    <2>1. k # "responses"
      BY <1>3 DEF Anthropics
    <2>p. PICK f : Reads(f, k, ms)
      BY <1>1, LoopIsStepwise
    <2>2. /\ f[0] = Start(k)
          /\ \A n \in 1..Len(ms) : f[n] = Step(k, f[n - 1], ms[n])
          /\ Collected(k, ms) = f[Len(ms)]
      BY <2>p DEF Reads
    <2>3. f[1] = AnthropicStep(f[0], Text("system")) /\ f[2] = AnthropicStep(f[1], Text("user"))
      BY <1>1, <1>2, <2>1, <2>2 DEF Step
    <2> DEFINE s == [out |-> << >>, held |-> << >>]
    <2>4. f[0] = s
      BY <2>1, <2>2 DEF Start
    <2>5. s.held = << >> /\ s.out = << >> /\ s \in [out : Seq(Wires), held : Seq(Int)]
      OBVIOUS
    <2> HIDE DEF s
    <2>6. Flush(s) = s
      BY <2>5 DEF Flush
    <2>7. AnthropicStep(s, Text("system")) = s
      <3>1. Text("system").role = "system"
        BY DEF Text
      <3> QED BY <2>6, <3>1 DEF AnthropicStep
    <2>8. Awaiting(Flush(s).out, TRUE, {})
      BY <2>5, <2>6, NothingSent, SettledAwaits
    <2>9. Collects(f[2])
      BY <2>3, <2>4, <2>5, <2>7, <2>8, NudgeCollects
    <2> QED BY <1>1, <1>3, <2>2, <2>9 DEF ReadsWell, ms
  <1>4. CASE k \notin Anthropics
    <2> DEFINE none == << >>
    <2>1. none \in Seq(Messages) /\ none \o ms = ms
      BY <1>1, ConcatEmptySeq
    <2>2. Sent(k, none) = << >>
      <3>1. CASE k = "responses"
        <4>1. Sent(k, none) = ResponsesItems(none)
          BY <3>1, <1>4 DEF Sent, Request, ResponsesRequest
        <4>2. ResponsesItems(none) = << >>
          <5>1. PICK f : Reads(f, "responses", none)
            <6> HIDE DEF none
            <6> QED BY <2>1, LoopIsStepwise
          <5>2. Len(none) = 0
            OBVIOUS
          <5>3. f[0] = Start("responses") /\ Collected("responses", none) = f[0]
            BY <5>1, <5>2 DEF Reads
          <5> QED BY <5>3 DEF Collected, Start
        <4> QED BY <4>1, <4>2
      <3>2. CASE k # "responses"
        <4>1. Sent(k, none) = OpenAIMessages(none)
          BY <1>4, <3>2, SentMeans
        <4> QED BY <4>1 DEF OpenAIMessages
      <3> QED BY <3>1, <3>2
    <2> HIDE DEF none
    <2>3. Sent(k, none) \in Seq(Wires) /\ Settled(Sent(k, none), FALSE)
      BY <2>2, NothingSent DEF Settled
    <2>p. PICK g : GoesOn(g, k, none, ms)
      BY <1>1, <1>4, <2>1, SentContinues
    <2>4. /\ g[0] = Sent(k, none)
          /\ \A n \in 1..Len(ms) : g[n] = g[n - 1] \o Items(k, ms[n])
          /\ Sent(k, none \o ms) = g[Len(ms)]
      BY <2>p DEF GoesOn
    <2>5. g[1] = g[0] \o Items(k, Text("system")) /\ g[2] = g[1] \o Items(k, Text("user"))
      BY <1>1, <1>2, <2>4
    <2>6. Settled(g[1], FALSE)
      <3>1. CASE k = "responses"
        <4>1. Items(k, Text("system")) = << >>
          BY <3>1 DEF Items, ResponsesInput, Text
        <4>2. g[0] \in Seq(Wires)
          BY <2>3, <2>4
        <4>3. g[0] \o << >> = g[0]
          BY <4>2, ConcatEmptySeq
        <4> QED BY <2>3, <2>4, <2>5, <4>1, <4>3
      <3>2. CASE k # "responses"
        <4> DEFINE b == <<Block("text", 0)>>
                   m == WireMsg("system", b)
        <4>1. Items(k, Text("system")) = <<m>>
          BY <3>2 DEF Items, OpenAIMessage, Text
        <4>2. b \in Seq(Blocks) /\ Marks(b, "use") = {} /\ Marks(b, "result") = {}
          BY OneBlock DEF Says, ToSet
        <4> HIDE DEF b
        <4>3. m \in Wires /\ m.role = "system" /\ m.blocks = b
          BY <4>2 DEF WireMsg, Wires
        <4> HIDE DEF m
        <4>4. BlocksOf(m, "use") = {} /\ BlocksOf(m, "result") = {}
          BY <4>2, <4>3, MarksAre
        <4>5. Awaiting(g[0], FALSE, {}) /\ FALSE \in BOOLEAN /\ m.role # "assistant"
          BY <2>3, <2>4, <4>3, SettledAwaits
        <4>6. Settled(g[0] \o <<m>>, FALSE)
          BY <4>3, <4>4, <4>5, Nudged
        <4> QED BY <2>5, <4>1, <4>6
      <3> QED BY <3>1, <3>2
    <2>7. Items(k, Text("user")) = <<UserMsg>>
      BY DEF Items, ResponsesInput, OpenAIMessage, Text, UserMsg
    <2>8. Settled(g[2], FALSE)
      BY <2>5, <2>6, <2>7, SettledAwaits, Nudged, NudgeMsg
    <2> QED BY <1>1, <1>4, <2>1, <2>4, <2>8 DEF ReadsWell, ms
  <1> QED BY <1>1, <1>3, <1>4 DEF ms

LEMMA AnswersAre == ConvInv => Answers \subseteq AnswerTypes
PROOF
  <1> SUFFICES ASSUME ConvInv, NEW a \in Answers PROVE a \in AnswerTypes
    OBVIOUS
  <1>1. a.calls \in CallSeqs /\ a \in [reasoning : BOOLEAN, text : BOOLEAN, calls : CallSeqs,
                                        status : {"completed", "incomplete", "failed", "queued"}]
    BY DEF Answers
  <1>2. PICK n \in {0, MaxCalls} : a.calls = [i \in 1..n |-> Len(conv) * MaxCalls + i]
    BY <1>1 DEF CallSeqs
  <1>3. Len(conv) \in Nat /\ n \in Nat
    BY LenProperties, CallsAssumption DEF ConvInv
  <1>4. \A i \in 1..n : Len(conv) * MaxCalls + i \in Int
    BY <1>3, CallsAssumption
  <1>5. a.calls \in Seq(Int)
    BY <1>2, <1>3, <1>4
  <1> QED BY <1>1, <1>5 DEF AnswerTypes

LEMMA ConvNext == ConvInv /\ [Next]_vars => ConvInv'
PROOF
  <1> SUFFICES ASSUME ConvInv, [Next]_vars PROVE ConvInv'
    OBVIOUS
  <1>a. NoAnswer \in AnswerTypes
    BY DEF NoAnswer, AnswerTypes
  <1>i. /\ kind \in Kinds /\ conv \in Seq(Messages) /\ answer \in AnswerTypes
        /\ ReadsWell(kind, conv)
        /\ wire.msgs = << >> \/ wire.msgs = Sent(kind, conv)
    BY DEF ConvInv
  <1>k. ASSUME UNCHANGED callVars, answer' \in AnswerTypes PROVE ConvInv'
    <2>1. kind' = kind /\ conv' = conv /\ wire' = wire
      BY <1>k DEF callVars
    <2> QED BY <1>i, <1>k, <2>1 DEF ConvInv
  <1>r. ASSUME NEW why, RetryOr(why) PROVE answer' \in AnswerTypes
    BY <1>i, <1>a, <1>r DEF RetryOr, Post
  <1>1. CASE Ask
    <2>1. CASE UNCHANGED <<callVars, posts, again, elapsed, answer, seen>>
      BY <1>i, <1>k, <2>1
    <2>2. CASE wire' = Request(kind, conv, thinking, cap)
               /\ UNCHANGED <<kind, thinking, cap, turn, conv, again, elapsed, answer, seen, result>>
      <3>1. wire'.msgs = Sent(kind, conv)
        BY <2>2, SentMeans
      <3> QED BY <1>i, <2>2, <3>1 DEF ConvInv
    <2> QED BY <1>1, <2>1, <2>2 DEF Ask
  <1>2. CASE Tick
    BY <1>2, <1>i, <1>k DEF Tick
  <1>3. CASE TimerFires
    BY <1>3, <1>i, <1>k, <1>r DEF TimerFires
  <1>4. CASE ConnectionLost
    BY <1>4, <1>k, <1>r DEF ConnectionLost
  <1>5. ASSUME NEW status \in Statuses, Refused(status) PROVE ConvInv'
    BY <1>5, <1>i, <1>k, <1>r DEF Refused
  <1>6. ASSUME NEW a \in Answers, Accepted(a) PROVE ConvInv'
    BY <1>6, <1>k, AnswersAre DEF Accepted
  <1>7. CASE BodyRead
    BY <1>7, <1>i, <1>k DEF BodyRead
  <1>8. CASE BodyCut
    BY <1>8, <1>a, <1>i, <1>k DEF BodyCut
  <1>9. CASE Chunk
    BY <1>9, <1>i, <1>k DEF Chunk
  <1>10. ASSUME NEW clean \in BOOLEAN, StreamEnds(clean) PROVE ConvInv'
    BY <1>10, <1>i, <1>k DEF StreamEnds
  <1>11. CASE Continue
    <2>1. /\ conv' = conv \o NextMessages(kind, answer) /\ kind' = kind
          /\ wire' = NoWire /\ answer' = NoAnswer
      BY <1>11 DEF Continue
    <2>2. NextMessages(kind, answer) \in Seq(Messages)
      BY <1>i, NextAre
    <2>3. conv' \in Seq(Messages)
      BY <1>i, <2>1, <2>2, ConcatProperties
    <2>4. ReadsWell(kind, conv')
      BY <1>i, <2>1, ReadsOn
    <2>5. wire'.msgs = << >>
      BY <2>1 DEF NoWire
    <2> QED BY <1>a, <1>i, <2>1, <2>3, <2>4, <2>5 DEF ConvInv
  <1>12. CASE UNCHANGED vars
    BY <1>12, <1>i, <1>k DEF vars, callVars
  <1> QED BY <1>1, <1>2, <1>3, <1>4, <1>5, <1>6, <1>7, <1>8, <1>9, <1>10, <1>11, <1>12 DEF Next

LEMMA ConvImplies == ConvInv => CallsArePaired
PROOF
  <1> SUFFICES ASSUME ConvInv PROVE CallsArePaired
    OBVIOUS
  <1> DEFINE w == wire.msgs
  <1>1. PairedTo(w, kind \in Anthropics, {})
    <2>1. CASE w = << >>
      <3>1. DOMAIN w = {}
        BY <2>1
      <3> QED BY <3>1 DEF PairedTo
    <2>2. CASE w = Sent(kind, conv) /\ kind \in Anthropics
      <3>1. Collects(Collected(kind, conv))
        BY <2>2 DEF ConvInv, ReadsWell
      <3>2. w = Flush(Collected(kind, conv)).out
        BY <2>2, SentMeans
      <3>3. PairedTo(w, TRUE, {})
        BY <3>1, <3>2 DEF Collects, Settled
      <3> QED BY <2>2, <3>3
    <2>3. CASE w = Sent(kind, conv) /\ kind \notin Anthropics
      <3>1. PairedTo(w, FALSE, {})
        BY <2>3 DEF ConvInv, ReadsWell, Settled
      <3>2. (kind \in Anthropics) = FALSE
        BY <2>3
      <3> QED BY <3>1, <3>2
    <2> QED BY <2>1, <2>2, <2>3 DEF ConvInv
  <1>2. \A i : Turns(w, i) = NextTurn(i) /\ Before(w, i) = Answering(i)
    BY DEF Turns, Before, NextTurn, Answering, Speaker
  <1> QED BY <1>1, <1>2 DEF PairedTo, CallsArePaired

\* Every request of every client, in a conversation of any length, answers
\* each call before the next turn and nothing that was not called.
THEOREM CallsMeetResults == Spec => []CallsArePaired
PROOF
  <1>1. Init => ConvInv
    <2> SUFFICES ASSUME Init PROVE ConvInv
      OBVIOUS
    <2>1. kind \in Kinds /\ conv = <<Text("system"), Text("user")>> /\ wire = NoWire /\ answer = NoAnswer
      BY DEF Init
    <2>2. conv \in Seq(Messages) /\ ReadsWell(kind, conv)
      BY <2>1, FirstReadsWell
    <2>3. answer \in AnswerTypes /\ wire.msgs = << >>
      BY <2>1 DEF NoAnswer, NoWire, AnswerTypes
    <2> QED BY <2>1, <2>2, <2>3 DEF ConvInv
  <1> QED BY <1>1, ConvNext, ConvImplies, PTL DEF Spec
=============================================================================
