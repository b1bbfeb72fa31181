----------------------------- MODULE ModelCalls -----------------------------
(***************************************************************************)
(* One conversation through the model client, internal/llm: the three wire *)
(* protocols (client.go, responses_client.go), the retries around a call,  *)
(* the timers that end it, a streamed answer, and the turn the next call   *)
(* replays.                                                                *)
(*                                                                         *)
(* The SDKs and the server are external.  Of the SDKs the model keeps what *)
(* the source relies on: an attempt without a response, or with a status   *)
(* that asks for it, is repeated up to five times, a call whose context    *)
(* ended is not, and a body that ends early is the caller's business.      *)
(***************************************************************************)
EXTENDS Folding, FiniteSets, SequencesExt

CONSTANTS
  MaxRetries,   \* WithMaxRetries
  Timeout,      \* cfg.Timeout, in ticks
  Margin,       \* responseHeaderTimeoutMargin, in ticks
  Pieces,       \* bound: text pieces of a streamed answer
  MaxTurns,     \* bound: calls of the conversation
  MaxCalls,     \* bound: tool calls of one answer
  RetryCodes,   \* cfg.RetryCodes
  Statuses,     \* HTTP statuses of a refused request
  LoopCap,      \* req.MaxTokens of the review loop
  JsonCaps,     \* req.MaxTokens of the one-call JSON tasks
  Budgets       \* extra_body.thinking.budget_tokens, 0 when not configured

\* The margin is a positive constant of the source.
ASSUME TimersAssumption ==
  Timeout \in Nat /\ Margin \in Nat \ {0} /\ MaxRetries \in Nat /\ Pieces \in Nat
ASSUME CallsAssumption == MaxCalls \in Nat

\* NewLLMClient.  "stream" is the chat client with extra_body.stream; an
\* "unstarted" client is a Bedrock client whose AWS configuration failed.
Kinds == {"openai", "stream", "anthropic", "bedrock", "unstarted", "responses"}
Anthropics == {"anthropic", "bedrock"}

VARIABLES
  kind,     \* the client
  thinking, \* extra_body.thinking.budget_tokens
  cap,      \* req.MaxTokens of this caller
  turn,     \* answers the conversation has continued from
  conv,     \* req.Messages
  pc,       \* where the call is
  wire,     \* the body of the request being sent
  posts,    \* HTTP requests of this SDK call
  again,    \* the call was repeated after an unexpected EOF
  elapsed,  \* ticks since the current attempt started
  answer,   \* what the server is answering
  seen,     \* what the stream has delivered: pieces and the finish reason
  result    \* what CompletionsWithCtx returned

vars == <<kind, thinking, cap, turn, conv, pc, wire, posts, again, elapsed, answer, seen, result>>
callVars == <<kind, thinking, cap, turn, conv, wire>>

\* A message of the conversation.  native is the turn as the provider sent
\* it: what buildXxxParams replays in place of text and calls.
Text(role) == [role |-> role, text |-> TRUE, calls |-> << >>, native |-> << >>]
ToolResult(c) == [role |-> "tool", text |-> TRUE, calls |-> <<c>>, native |-> << >>]

NoAnswer == [reasoning |-> FALSE, text |-> FALSE, calls |-> << >>, status |-> "none"]
NoWire == [msgs |-> << >>, max |-> 0, budget |-> 0]
NoSeen == [pieces |-> 0, finished |-> FALSE]
Result(tag, why) == [tag |-> tag, why |-> why]
Pending == Result("none", "")

-----------------------------------------------------------------------------
(* Timers *)

\* Mutant of HeaderTimer: the header timeout is the request timeout.
HeaderTimer_NoMargin(k) == Timeout

\* httpClientWithHeaderTimeout; a Bedrock client gets none.
HeaderTimer(k) == IF k = "bedrock" THEN 2 * (Timeout + Margin) ELSE Timeout + Margin

Expired == {t \in {"deadline", "header"} :
              elapsed >= IF t = "deadline" THEN Timeout ELSE HeaderTimer(kind)}

\* The statuses the SDK repeats, with the codes retryCodesMiddleware marks.
Retried(status) == status \in {408, 409, 429} \cup RetryCodes \/ status >= 500

-----------------------------------------------------------------------------
(* From the conversation to the wire *)

Block(t, c) == [type |-> t, call |-> c]
Uses(calls) == [i \in DOMAIN calls |-> Block("use", calls[i])]
TextBlocks(m) == IF m.text THEN <<Block("text", 0)>> ELSE << >>
WireMsg(role, blocks) == [role |-> role, blocks |-> blocks]

\* The results read so far become one user message.
Flush(s) ==
  IF s.held = << >> THEN s
  ELSE [out  |-> Append(s.out, WireMsg("user", [i \in DOMAIN s.held |-> Block("result", s.held[i])])),
        held |-> << >>]

AssistantBlocks(m) ==
  IF m.native # << >> THEN m.native
  ELSE IF m.text \/ m.calls # << >> THEN TextBlocks(m) \o Uses(m.calls)
  ELSE <<Block("text", 0)>>

\* Mutant of AnthropicStep: the results of a turn are held over the next turn.
AnthropicStep_NoFlush(s, m) ==
  CASE m.role = "tool" -> [s EXCEPT !.held = @ \o m.calls]
    [] m.role = "assistant" -> [s EXCEPT !.out = Append(@, WireMsg("assistant", AssistantBlocks(m)))]
    [] m.role = "system" -> s
    [] OTHER -> [s EXCEPT !.out = Append(@, WireMsg("user", TextBlocks(m)))]

\* buildAnthropicParams: one message of the conversation.
AnthropicStep(s, m) ==
  LET f == Flush(s) IN
    CASE m.role = "tool" -> [s EXCEPT !.held = @ \o m.calls]
      [] m.role = "assistant" -> [f EXCEPT !.out = Append(@, WireMsg("assistant", AssistantBlocks(m)))]
      [] m.role = "system" -> f
      [] OTHER -> [f EXCEPT !.out = Append(@, WireMsg("user", TextBlocks(m)))]

AnthropicMessages(ms) ==
  Flush(Folded(AnthropicStep, [out |-> << >>, held |-> << >>], ms)).out

\* buildOpenAIParams: one wire message for each message of the conversation.
OpenAIMessage(m) ==
  CASE m.role = "tool" -> WireMsg("user", <<Block("result", m.calls[1])>>)
    [] m.role = "assistant" ->
         WireMsg("assistant", (IF m.text \/ m.calls = << >> THEN <<Block("text", 0)>> ELSE << >>)
                                \o Uses(m.calls) \o m.native)
    [] OTHER -> WireMsg(m.role, <<Block("text", 0)>>)
OpenAIMessages(ms) == [i \in DOMAIN ms |-> OpenAIMessage(ms[i])]

\* buildResponsesParams: the system prompt is not an input item, a replayed
\* turn is the provider's own items, and an empty turn leaves nothing.
TurnItems(m) ==
  LET blocks == IF m.native # << >> THEN m.native ELSE TextBlocks(m) \o Uses(m.calls)
  IN [b \in DOMAIN blocks |-> WireMsg("assistant", <<blocks[b]>>)]
ResponsesInput(m) ==
  CASE m.role = "system" -> << >>
    [] m.role = "tool" -> <<WireMsg("user", <<Block("result", m.calls[1])>>)>>
    [] m.role = "assistant" -> TurnItems(m)
    [] OTHER -> <<WireMsg("user", <<Block("text", 0)>>)>>
ResponsesStep(items, m) == items \o ResponsesInput(m)
ResponsesItems(ms) == Folded(ResponsesStep, << >>, ms)

OpenAIOutputCap == 16384
DefaultAnthropicMaxTokens == 8192

\* The output cap on the wire; 0 when the field is left out.
MaxOnWire(k, max) ==
  CASE k \in {"openai", "stream"} -> IF max > OpenAIOutputCap THEN OpenAIOutputCap ELSE max
    [] k \in Anthropics -> IF max <= 0 THEN DefaultAnthropicMaxTokens ELSE max
    [] OTHER -> max

\* extra_body.thinking, dropped when it would not leave room for an answer.
ThinkingOnWire(k, budget, max) ==
  IF k \in Anthropics /\ budget >= MaxOnWire(k, max) THEN 0 ELSE budget

OpenAIRequest(k, ms, budget, max) ==
  [msgs |-> OpenAIMessages(ms), max |-> MaxOnWire(k, max), budget |-> 0]

AnthropicRequest(k, ms, budget, max) ==
  [msgs   |-> AnthropicMessages(ms),
   max    |-> MaxOnWire(k, max),
   budget |-> ThinkingOnWire(k, budget, max)]

ResponsesRequest(k, ms, budget, max) ==
  [msgs |-> ResponsesItems(ms), max |-> MaxOnWire(k, max), budget |-> 0]

Request(k, ms, budget, max) ==
  CASE k \in Anthropics -> AnthropicRequest(k, ms, budget, max)
    [] k = "responses" -> ResponsesRequest(k, ms, budget, max)
    [] OTHER -> OpenAIRequest(k, ms, budget, max)

-----------------------------------------------------------------------------
(* From the answer to the next turn *)

Reasoning(a) == IF a.reasoning THEN <<Block("reasoning", 0)>> ELSE << >>
Content(a) == IF a.text THEN <<Block("text", 0)>> ELSE << >>

\* mapOpenAIResponse: the reasoning text is replayed beside the turn.
NativeOpenAI(a) == Reasoning(a)

\* mapAnthropicResponse: a turn with thinking is replayed whole.
NativeAnthropic(a) ==
  IF a.reasoning THEN Reasoning(a) \o Content(a) \o Uses(a.calls) ELSE << >>

\* mapResponsesResponse: reasoning alone is not an input the API accepts.
NativeResponses(a) ==
  IF a.text \/ a.calls # << >> THEN Reasoning(a) \o Content(a) \o Uses(a.calls) ELSE << >>

Native(k, a) ==
  CASE k \in Anthropics -> NativeAnthropic(a)
    [] k = "responses" -> NativeResponses(a)
    [] OTHER -> NativeOpenAI(a)

Turn(k, a) == [role |-> "assistant", text |-> a.text, calls |-> a.calls, native |-> Native(k, a)]

\* What the loop appends: the turn with a result for each call, or a nudge.
NextMessages(k, a) ==
  IF a.calls # << >>
  THEN <<Turn(k, a)>> \o [i \in DOMAIN a.calls |-> ToolResult(a.calls[i])]
  ELSE (IF a.text \/ a.reasoning THEN <<Turn(k, a)>> ELSE << >>) \o <<Text("user")>>

\* explainError: the advice for the first phrase a Bedrock rejection holds.
Phrases == <<"Invalid API Key format", "don't have access to the model",
             "model identifier is invalid", "ExpiredToken", "AccessDenied">>
Advice(phrases) ==
  IF phrases = {} THEN "as worded"
  ELSE Phrases[CHOOSE i \in DOMAIN Phrases :
                 Phrases[i] \in phrases /\ \A j \in 1..(i - 1) : Phrases[j] \notin phrases]

-----------------------------------------------------------------------------

\* The provider numbers the calls of an answer.
CallSeqs == {[i \in 1..n |-> Len(conv) * MaxCalls + i] : n \in {0, MaxCalls}}
Answers ==
  {a \in [reasoning : BOOLEAN, text : BOOLEAN, calls : CallSeqs,
          status : {"completed", "incomplete", "failed", "queued"}] :
     /\ a.status = "completed" \/ (kind = "responses" /\ (a.status # "incomplete" => a.calls = << >>))
     /\ kind # "stream" \/ a.text}

Fail(why) == pc' = "returned" /\ result' = Result("error", why)
Post ==
  /\ posts' = posts + 1
  /\ elapsed' = 0
  /\ answer' = NoAnswer
  /\ seen' = NoSeen

Init ==
  /\ kind \in Kinds
  /\ thinking \in IF kind \in Anthropics THEN Budgets ELSE {0}
  /\ cap \in {LoopCap} \cup JsonCaps
  /\ turn = 0
  /\ conv = <<Text("system"), Text("user")>>
  /\ pc = "idle"
  /\ wire = NoWire
  /\ posts = 0 /\ again = FALSE /\ elapsed = 0
  /\ answer = NoAnswer /\ seen = NoSeen
  /\ result = Pending

\* CompletionsWithCtx: build the request and send it.  A Bedrock client whose
\* construction failed answers every call with that error.
Ask ==
  /\ pc = "idle" /\ turn < MaxTurns
  /\ \/ /\ kind = "unstarted"
        /\ Fail("init")
        /\ UNCHANGED <<callVars, posts, again, elapsed, answer, seen>>
     \/ /\ kind # "unstarted"
        /\ wire' = Request(kind, conv, thinking, cap)
        /\ pc' = "await"
        /\ posts' = 1
        /\ UNCHANGED <<kind, thinking, cap, turn, conv, again, elapsed, answer, seen, result>>

\* An attempt that ended without an answer: the SDK repeats it or gives up.
RetryOr(why) ==
  IF posts <= MaxRetries
  THEN pc' = "await" /\ Post /\ UNCHANGED result
  ELSE Fail(why) /\ UNCHANGED <<posts, elapsed, answer, seen>>

Tick ==
  /\ pc \in {"await", "body"}
  /\ Expired = {}
  /\ elapsed' = elapsed + 1
  /\ UNCHANGED <<callVars, pc, posts, again, answer, seen, result>>

\* A timer ends the attempt.  The deadline is the context's, which is never
\* retried; a header timeout is a transport error without a response.
TimerFires ==
  /\ pc \in {"await", "body"}
  /\ \E t \in Expired :
       IF t = "header" /\ pc = "await" THEN RetryOr("transport")
       ELSE t = "deadline" /\ Fail("deadline") /\ UNCHANGED <<posts, elapsed, answer, seen>>
  /\ UNCHANGED <<callVars, again>>

ConnectionLost ==
  /\ pc = "await" /\ Expired = {}
  /\ RetryOr("transport")
  /\ UNCHANGED <<callVars, again>>

\* The server refuses the request.
Refused(status) ==
  /\ pc = "await" /\ Expired = {}
  /\ IF Retried(status) THEN RetryOr("status")
     ELSE /\ \E phrases \in IF kind = "bedrock" THEN SUBSET ToSet(Phrases) ELSE {{}} :
               Fail(IF kind = "bedrock" THEN Advice(phrases) ELSE "status")
          /\ UNCHANGED <<posts, elapsed, answer, seen>>
  /\ UNCHANGED <<callVars, again>>

\* The headers of an answer arrive.
Accepted(a) ==
  /\ pc = "await" /\ Expired = {}
  /\ pc' = "body"
  /\ answer' = a
  /\ UNCHANGED <<callVars, posts, again, elapsed, seen, result>>

\* A whole body arrived.  The Responses API answers 200 for a response that
\* failed or has not finished.

\* Mutant of Accepts: a 200 is a reply, whatever the response says of itself.
Accepts_AnyStatus(a) == TRUE

Accepts(a) == a.status \in {"completed", "incomplete"}

BodyRead ==
  /\ pc = "body" /\ kind # "stream" /\ Expired = {}
  /\ IF Accepts(answer)
     THEN pc' = "returned" /\ result' = Result("reply", answer.status)
     ELSE Fail(answer.status)
  /\ UNCHANGED <<callVars, posts, again, elapsed, answer, seen>>

\* Mutant of BodyCut: the call is repeated as often as its body is cut.
BodyCut_Always ==
  /\ pc = "body" /\ kind # "stream" /\ Expired = {}
  /\ IF kind = "openai"
     THEN /\ pc' = "await" /\ again' = TRUE
          /\ posts' = 1 /\ elapsed' = 0 /\ answer' = NoAnswer
          /\ UNCHANGED <<seen, result>>
     ELSE Fail("eof") /\ UNCHANGED <<posts, again, elapsed, answer, seen>>
  /\ UNCHANGED callVars

\* The body ends early.  The chat client repeats the whole call once.
BodyCut ==
  /\ pc = "body" /\ kind # "stream" /\ Expired = {}
  /\ IF kind = "openai" /\ ~again
     THEN /\ pc' = "await" /\ again' = TRUE
          /\ posts' = 1 /\ elapsed' = 0 /\ answer' = NoAnswer
          /\ UNCHANGED <<seen, result>>
     ELSE Fail("eof") /\ UNCHANGED <<posts, again, elapsed, answer, seen>>
  /\ UNCHANGED callVars

\* One event of the stream: a piece of the text, then the finish reason.
Chunk ==
  /\ pc = "body" /\ kind = "stream" /\ Expired = {} /\ ~seen.finished
  /\ seen' = IF seen.pieces < Pieces THEN [seen EXCEPT !.pieces = @ + 1]
             ELSE [seen EXCEPT !.finished = TRUE]
  /\ UNCHANGED <<callVars, pc, posts, again, elapsed, answer, result>>

\* Mutant of StreamComplete: a stream with a choice is a reply.
StreamComplete_AnyChoice(s) == s.pieces > 0 \/ s.finished

\* completionsStreamingInner: at least one choice, and each of them finished.
StreamComplete(s) ==
  LET choice == s.pieces > 0 \/ s.finished IN choice /\ (choice => s.finished)

\* The stream ends: cleanly, or with an error or a chunk that does not fit.
StreamEnds(clean) ==
  /\ pc = "body" /\ kind = "stream" /\ Expired = {}
  /\ IF clean /\ StreamComplete(seen)
     THEN pc' = "returned" /\ result' = Result("reply", "completed")
     ELSE Fail(IF clean THEN "integrity" ELSE "stream")
  /\ UNCHANGED <<callVars, posts, again, elapsed, answer, seen>>

\* The loop appends the turn and goes on; a JSON task is done.
Continue ==
  /\ pc = "returned" /\ result.tag = "reply" /\ cap = LoopCap
  /\ turn' = turn + 1
  /\ conv' = conv \o NextMessages(kind, answer)
  /\ pc' = "idle"
  /\ posts' = 0 /\ again' = FALSE /\ elapsed' = 0
  /\ wire' = NoWire /\ answer' = NoAnswer /\ seen' = NoSeen
  /\ result' = Pending
  /\ UNCHANGED <<kind, thinking, cap>>

Next ==
  \/ Ask
  \/ Tick
  \/ TimerFires
  \/ ConnectionLost
  \/ \E status \in Statuses : Refused(status)
  \/ \E a \in Answers : Accepted(a)
  \/ BodyRead
  \/ BodyCut
  \/ Chunk
  \/ \E clean \in BOOLEAN : StreamEnds(clean)
  \/ Continue

\* Time passes and an expired timer is acted on.  Nothing is assumed of the
\* server: it may be silent for ever.
Fairness == WF_vars(Tick) /\ WF_vars(TimerFires)

Spec == Init /\ [][Next]_vars /\ Fairness

-----------------------------------------------------------------------------
(* Properties *)

\* A request the server never answered costs one timeout, not one for every
\* retry: once the deadline has passed no further request is sent for it.
\* The header timer and the context's deadline race for the same silence,
\* and only the margin between them decides the race.
SilenceIsNotRetried ==
  [][(pc \in {"await", "body"} /\ elapsed >= Timeout) => posts' = posts /\ again' = again]_vars

\* The loop continues from an answer only when the server finished it: every
\* piece of a stream and its finish reason, and a response that neither
\* failed nor is still running.
OnlyFinishedAnswers ==
  result.tag = "reply" =>
    /\ kind = "stream" => seen = [pieces |-> Pieces, finished |-> TRUE]
    /\ answer.status \notin {"failed", "queued", "none"}

BlocksOf(m, t) == {m.blocks[b].call : b \in {b \in DOMAIN m.blocks : m.blocks[b].type = t}}
Speaker(i) == wire.msgs[i].role
NextTurn(i) == {j \in DOMAIN wire.msgs : j > i /\ Speaker(j) = "assistant"
                                         /\ Speaker(j - 1) # "assistant"}
Answering(i) == {j \in DOMAIN wire.msgs : j > i /\ \A k \in NextTurn(i) : j < k}

\* On the wire every tool call a replayed turn makes is answered before the
\* next turn speaks, and nothing is answered that was not called, whichever
\* of the native turn and the loop's own record the client replays; the
\* Messages API wants all of them in the one message after the turn.
CallsArePaired ==
  \A i \in DOMAIN wire.msgs :
    /\ \A c \in BlocksOf(wire.msgs[i], "use") :
         \E j \in Answering(i) : c \in BlocksOf(wire.msgs[j], "result")
    /\ \A c \in BlocksOf(wire.msgs[i], "result") :
         \E j \in 1..(i - 1) : /\ c \in BlocksOf(wire.msgs[j], "use")
                               /\ i \in Answering(j)
                               /\ kind \in Anthropics => i = j + 1

\* A call returns, whatever the server does or fails to do.
CallsReturn == (pc \in {"await", "body"}) ~> (pc = "returned")
=============================================================================
