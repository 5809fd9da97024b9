--------------------------- MODULE LlmConnectors ---------------------------
(***************************************************************************)
(* The language-model stage of a cascaded call: LlmProcessor in front of   *)
(* one of the connectors. run_llm shapes a request, posts it and turns the *)
(* bytes of the answer into frames; LlmProcessor pushes them one by one    *)
(* and stops when a barge-in moves the generation counter. The answer is a *)
(* sequence of lines (or event-stream messages) of three bytes: a          *)
(* character of two bytes and the end of the line. The network cuts the    *)
(* bytes into chunks wherever it likes, and may break off.                 *)
(***************************************************************************)
EXTENDS Integers, Sequences, SequencesExt, FiniteSetsExt

CONSTANT
  MaxLlmRuns \* bound: completions

ASSUME LlmAssumption == MaxLlmRuns \in Nat

VARIABLES
  llm,      \* the connector
  ctxTools, \* the context carries the brain's tools
  asked,    \* the request in progress
  script,   \* lines the provider sends (external)
  arrived,  \* bytes that have arrived
  split,    \* the line in the buffer, if its character was cut in two
  sse,      \* SseState: started, finished, pending, tool_acc, usage
  llmRun,   \* "idle" or "stream"
  truncated,\* the connection broke off before the end of the answer
  bargedIn, \* the generation counter has moved since the run began
  cancelled,\* the run was cancelled
  pushed,   \* frames pushed down by the run
  llmRuns   \* completions so far

llmWire == <<script, arrived, split, truncated>>
llmVars == <<llm, ctxTools, asked, llmWire, sse, llmRun, bargedIn, cancelled, pushed, llmRuns>>

-----------------------------------------------------------------------------
(* Profiles. body: the shape of the request. lines: "sse" or "event" (the  *)
(* AWS event stream, buffered as bytes). ends: the answer has a closing    *)
(* line of its own. calls: how a tool call arrives.                        *)

OpenAiLlm == [body |-> "openai", lines |-> "sse", ends |-> TRUE, calls |-> "delta"]
AzureLlm == [body |-> "azure", lines |-> "sse", ends |-> TRUE, calls |-> "delta"]
AnthropicLlm == [body |-> "anthropic", lines |-> "sse", ends |-> TRUE, calls |-> "block"]
AwsBedrockLlm == [body |-> "bedrock", lines |-> "event", ends |-> FALSE, calls |-> "block"]
OpenAiResponsesLlm == [body |-> "responses", lines |-> "sse", ends |-> TRUE, calls |-> "block"]
GoogleLlm == [body |-> "gemini", lines |-> "sse", ends |-> FALSE, calls |-> "whole"]
GoogleVertexLlm == GoogleLlm

CerebrasLlm == OpenAiLlm
DeepSeekLlm == OpenAiLlm
FireworksLlm == OpenAiLlm
GrokLlm == OpenAiLlm
GroqLlm == OpenAiLlm
MiniMaxLlm == OpenAiLlm
MistralLlm == OpenAiLlm
NebiusLlm == OpenAiLlm
NovitaLlm == OpenAiLlm
NvidiaNimLlm == OpenAiLlm
OllamaLlm == OpenAiLlm
OpenRouterLlm == OpenAiLlm
PerplexityLlm == OpenAiLlm
QwenLlm == OpenAiLlm
SambaNovaLlm == OpenAiLlm
SarvamLlm == OpenAiLlm
SpeachesLlm == OpenAiLlm
TogetherLlm == OpenAiLlm

LlmProfile ==
  [openai |-> OpenAiLlm, azure |-> AzureLlm, anthropic |-> AnthropicLlm,
   aws_bedrock |-> AwsBedrockLlm, openai_responses |-> OpenAiResponsesLlm,
   google |-> GoogleLlm, google_vertex |-> GoogleVertexLlm, cerebras |-> CerebrasLlm,
   deepseek |-> DeepSeekLlm, fireworks |-> FireworksLlm, grok |-> GrokLlm,
   groq |-> GroqLlm, minimax |-> MiniMaxLlm, mistral |-> MistralLlm, nebius |-> NebiusLlm,
   novita |-> NovitaLlm, nvidia_nim |-> NvidiaNimLlm, ollama |-> OllamaLlm,
   openrouter |-> OpenRouterLlm, perplexity |-> PerplexityLlm, qwen |-> QwenLlm,
   sambanova |-> SambaNovaLlm, sarvam |-> SarvamLlm, speaches |-> SpeachesLlm,
   together |-> TogetherLlm]

\* One connector for each profile.
LlmNames ==
  {CHOOSE n \in DOMAIN LlmProfile : LlmProfile[n] = p : p \in Range(LlmProfile)}
L == LlmProfile[llm]

-----------------------------------------------------------------------------
(* Requests. A message of the context is its role, with or without text; a *)
(* tool is "decl" (the brain's declaration) or "shaped" for the provider.  *)

System == "system"

\* ctx.tools, or the service's own tools when there are none.
ShapedTools == IF ctxTools THEN {"shaped"} ELSE {}
VerbatimTools == IF ctxTools THEN {"decl"} ELSE {}

Request(system, messages, tools) == [system |-> system, messages |-> messages, tools |-> tools]

OpenAiBody(ctx) == Request(0, ctx, ShapedTools)
AzureBody(ctx) == Request(0, ctx, VerbatimTools)

Systems(ctx) == Len(SelectSeq(ctx, LAMBDA m : m = System))
Others(ctx) == SelectSeq(ctx, LAMBDA m : m # System)

\* The system prompt is lifted out of the messages.
AnthropicBody(ctx) == Request(Systems(ctx), Others(ctx), VerbatimTools)
AwsBedrockBody(ctx) == Request(Systems(ctx), Others(ctx), VerbatimTools)

\* The same, and an empty list of messages becomes one user turn ("Hello").
OpenAiResponsesBody(ctx) ==
  Request(Systems(ctx), IF Others(ctx) = <<>> THEN <<"user">> ELSE Others(ctx), ShapedTools)

\* Every message but the assistant's is the user's.
GeminiRole(m) == IF m = "assistant" THEN "model" ELSE "user"
GeminiBody(ctx) ==
  LET contents == [k \in DOMAIN Others(ctx) |-> GeminiRole(Others(ctx)[k])] IN
  Request(Systems(ctx), IF contents = <<>> THEN <<"user">> ELSE contents, ShapedTools)

RequestBody(ctx) ==
  CASE L.body = "openai" -> OpenAiBody(ctx)
    [] L.body = "azure" -> AzureBody(ctx)
    [] L.body = "anthropic" -> AnthropicBody(ctx)
    [] L.body = "bedrock" -> AwsBedrockBody(ctx)
    [] L.body = "responses" -> OpenAiResponsesBody(ctx)
    [] L.body = "gemini" -> GeminiBody(ctx)

\* The kickoff greeting has only the system prompt; a later turn has a history.
Contexts == {<<System>>, <<System, "user", "assistant", "tool">>}

-----------------------------------------------------------------------------
(* Lines of an answer: text n, the opening of tool call i, a fragment of   *)
(* its arguments, usage, the closing line, or something else.              *)

Line(what, call, n) == [what |-> what, call |-> call, n |-> n]

\* Fragment 0 opens a call, fragments 1 and 2 are its arguments.
Fragments == 2
Whole == [n \in 1..Fragments |-> n]

\* Answers: text, two calls whose fragments interleave, usage, and noise.
LlmAnswers ==
  LET T(n) == Line("text", 0, n)
      C(i, n) == Line("call", i, n) IN
  {<<T(1), Line("other", 0, 0), T(2)>>,
   <<T(1), C(1, 0), C(2, 0), C(1, 1), C(2, 1), C(1, 2), C(2, 2)>>,
   <<C(2, 0), C(2, 1), C(2, 2), T(1)>>}

\* A provider that sends a call whole sends no fragments.
AsSent(body) ==
  IF L.calls = "whole" THEN SelectSeq(body, LAMBDA l : l.what = "call" => l.n = 0) ELSE body

\* Calls are made only of tools that were offered.
Offered(body) == ctxTools \/ \A l \in Range(body) : l.what # "call"

LlmScripts ==
  {AsSent(b) \o <<Line("usage", 0, 0)>> \o (IF L.ends THEN <<Line("done", 0, 0)>> ELSE <<>>) :
     b \in {a \in LlmAnswers : Offered(a)}}

-----------------------------------------------------------------------------
(* accumulate, drain_tool_calls and finish.                                *)

Fresh == [started |-> FALSE, finished |-> FALSE, pending |-> <<>>, acc |-> <<>>, usage |-> FALSE]

Text(n, cut) == <<[kind |-> "text", n |-> n, garbled |-> cut]>>

\* acc is tool_acc: a function from the index of a call to its arguments so far, and
\* whether a character of the call was cut in two.
Opened(acc, i, cut) ==
  [j \in DOMAIN acc \union {i} |-> IF j = i THEN [args |-> <<>>, garbled |-> cut] ELSE acc[j]]
Extended(acc, i, n, cut) ==
  [acc EXCEPT ![i] = [args |-> Append(@.args, n), garbled |-> @.garbled \/ cut]]

\* chat completions: the first fragment of an index opens its entry.
AccumulateDelta(acc, l, cut) ==
  LET have == IF l.call \in DOMAIN acc THEN acc ELSE Opened(acc, l.call, cut) IN
  IF l.n = 0 THEN have ELSE Extended(have, l.call, l.n, cut)

\* content_block_start / output_item.added opens it, a delta without one is dropped.
AccumulateBlock(acc, l, cut) ==
  IF l.n = 0 THEN Opened(acc, l.call, cut)
  ELSE IF l.call \in DOMAIN acc THEN Extended(acc, l.call, l.n, cut) ELSE acc

\* Gemini sends calls whole and without an id: they are numbered as they come.
AccumulateWhole(acc, l, cut) == Append(acc, [args |-> Whole, garbled |-> cut])

\* The calls in the order of their index, in one frame, if there are any.
DrainToolCalls(st) ==
  IF DOMAIN st.acc = {} THEN <<>>
  ELSE <<[kind |-> "calls", calls |-> st.acc]>>

Finish(st) ==
  IF st.finished THEN st
  ELSE [st EXCEPT !.finished = TRUE, !.started = TRUE, !.acc = <<>>, !.usage = FALSE,
          !.pending = @ \o (IF st.started THEN <<>> ELSE <<[kind |-> "start"]>>)
                        \o DrainToolCalls(st)
                        \o (IF st.usage THEN <<[kind |-> "usage"]>> ELSE <<>>)
                        \o <<[kind |-> "end"]>>]

\* A line that parses starts the response, whatever it holds.
Begun(st) ==
  IF st.started THEN st
  ELSE [st EXCEPT !.started = TRUE, !.pending = Append(@, [kind |-> "start"])]

WithText(st, l, cut) == LET b == Begun(st) IN [b EXCEPT !.pending = @ \o Text(l.n, cut)]
WithCalls(st, acc) == [Begun(st) EXCEPT !.acc = acc]

\* What a line of each provider does; cut: it holds a character cut in two. Usage is read
\* from chat completions only, and not by the Azure client.
OpenAiLine(st, l, cut) ==
  CASE l.what = "done" -> Finish(st)
    [] l.what = "text" -> WithText(st, l, cut)
    [] l.what = "call" -> WithCalls(st, AccumulateDelta(st.acc, l, cut))
    [] l.what = "usage" -> [Begun(st) EXCEPT !.usage = TRUE]
    [] l.what = "other" -> st
AzureLine(st, l, cut) ==
  CASE l.what = "done" -> Finish(st)
    [] l.what = "text" -> WithText(st, l, cut)
    [] l.what = "call" -> WithCalls(st, AccumulateDelta(st.acc, l, cut))
    [] l.what = "usage" -> Begun(st)
    [] l.what = "other" -> st
\* message_stop, text_delta, content_block_start or input_json_delta.
AnthropicLine(st, l, cut) ==
  CASE l.what = "done" -> Finish(st)
    [] l.what = "text" -> WithText(st, l, cut)
    [] l.what = "call" -> WithCalls(st, AccumulateBlock(st.acc, l, cut))
    [] l.what = "usage" -> Begun(st)
    [] l.what = "other" -> st
\* response.completed, output_text.delta, output_item.added or function_call_arguments.delta.
OpenAiResponsesLine(st, l, cut) ==
  CASE l.what = "done" -> Finish(st)
    [] l.what = "text" -> WithText(st, l, cut)
    [] l.what = "call" -> WithCalls(st, AccumulateBlock(st.acc, l, cut))
    [] l.what = "usage" -> Begun(st)
    [] l.what = "other" -> st
\* A chunk of the event stream, complete in its own frame; the end of the stream is the
\* end of the answer.
AwsBedrockLine(st, l, cut) ==
  CASE l.what = "text" -> WithText(st, l, cut)
    [] l.what = "call" -> WithCalls(st, AccumulateBlock(st.acc, l, cut))
    [] l.what = "usage" -> Begun(st)
    [] l.what = "other" -> st
\* Nothing marks the end but the end of the stream.
GeminiLine(st, l, cut) ==
  CASE l.what = "text" -> WithText(st, l, cut)
    [] l.what = "call" -> WithCalls(st, AccumulateWhole(st.acc, l, cut))
    [] l.what = "usage" -> Begun(st)
    [] l.what = "other" -> st

TakeLine(st, k, cut) ==
  CASE L.body = "openai" -> OpenAiLine(st, script[k], k \in cut)
    [] L.body = "azure" -> AzureLine(st, script[k], k \in cut)
    [] L.body = "anthropic" -> AnthropicLine(st, script[k], k \in cut)
    [] L.body = "bedrock" -> AwsBedrockLine(st, script[k], k \in cut)
    [] L.body = "responses" -> OpenAiResponsesLine(st, script[k], k \in cut)
    [] L.body = "gemini" -> GeminiLine(st, script[k], k \in cut)

-----------------------------------------------------------------------------

\* LlmContext (or a final transcription): the request is posted.
RunLlm ==
  /\ llmRun = "idle" /\ llmRuns < MaxLlmRuns
  /\ llmRuns' = llmRuns + 1
  /\ \E ctx \in Contexts : asked' = RequestBody(ctx)
  /\ bargedIn' = FALSE /\ cancelled' = FALSE /\ truncated' = FALSE
  /\ \/ \* Not sent, or refused by the provider: an error frame, nothing else.
        /\ UNCHANGED llmRun /\ script' = <<>> /\ pushed' = <<>>
     \/ /\ llmRun' = "stream" /\ script' \in LlmScripts /\ pushed' = <<>>
  /\ sse' = Fresh /\ arrived' = 0 /\ split' = {}
  /\ UNCHANGED <<llm, ctxTools>>

\* Mutant: what is left of a line is forgotten with the chunk.
BytesArriveForgetful ==
  /\ llmRun = "stream" /\ sse.pending = <<>> /\ ~ sse.finished /\ ~ truncated
  /\ \E upto \in arrived + 1 .. 3 * Len(script) :
       /\ arrived' = upto
       /\ sse' = FoldLeft(LAMBDA st, k : TakeLine(st, k, {}), sse,
                    [j \in 1 .. (upto - 3 * ((arrived + 2) \div 3)) \div 3 |-> ((arrived + 2) \div 3) + j])
  /\ UNCHANGED <<llm, ctxTools, asked, script, split, truncated, llmRun, bargedIn, cancelled,
                 pushed, llmRuns>>

\* A chunk arrives once nothing is pending: the complete lines are taken, the rest waits.
\* SSE decodes every chunk as UTF-8 by itself: a character cut in two is lost.
BytesArrive ==
  /\ llmRun = "stream" /\ sse.pending = <<>> /\ ~ sse.finished /\ ~ truncated
  /\ \E upto \in arrived + 1 .. 3 * Len(script) :
       LET cut == IF upto % 3 = 1 /\ L.lines = "sse" THEN split \union {(upto \div 3) + 1} ELSE split IN
       /\ arrived' = upto /\ split' = cut \ 1 .. upto \div 3
       /\ sse' = FoldLeft(LAMBDA st, k : TakeLine(st, k, cut), sse,
                    [j \in 1 .. (upto \div 3) - (arrived \div 3) |-> (arrived \div 3) + j])
  /\ UNCHANGED <<llm, ctxTools, asked, script, truncated, llmRun, bargedIn, cancelled, pushed, llmRuns>>

\* The byte stream ends or fails: both finish the response.
StreamEnds ==
  /\ llmRun = "stream" /\ sse.pending = <<>> /\ ~ sse.finished
  /\ arrived = 3 * Len(script) \/ truncated
  /\ sse' = Finish(sse)
  /\ UNCHANGED <<llm, ctxTools, asked, llmWire, llmRun, bargedIn, cancelled, pushed, llmRuns>>

\* The connection breaks off.
BreakOff ==
  /\ llmRun = "stream" /\ ~ truncated /\ arrived < 3 * Len(script)
  /\ truncated' = TRUE
  /\ UNCHANGED <<llm, ctxTools, asked, script, arrived, split, sse, llmRun, bargedIn, cancelled,
                 pushed, llmRuns>>

\* LlmProcessor takes a frame of the stream. After a barge-in it drops the stream, and
\* with it this frame, and closes the response itself.
PushFrame ==
  /\ llmRun = "stream" /\ sse.pending # <<>>
  /\ IF bargedIn
     THEN /\ pushed' = Append(pushed, [kind |-> "end"])
          /\ cancelled' = TRUE /\ llmRun' = "idle" /\ UNCHANGED sse
     ELSE /\ pushed' = Append(pushed, Head(sse.pending))
          /\ sse' = [sse EXCEPT !.pending = Tail(@)]
          /\ UNCHANGED <<cancelled, llmRun>>
  /\ UNCHANGED <<llm, ctxTools, asked, llmWire, bargedIn, llmRuns>>

\* The stream is exhausted: process_frame returns.
RunReturns ==
  /\ llmRun = "stream" /\ sse.pending = <<>> /\ sse.finished
  /\ llmRun' = "idle"
  /\ UNCHANGED <<llm, ctxTools, asked, llmWire, sse, bargedIn, cancelled, pushed, llmRuns>>

\* VadProcessor moves the generation counter.
BargeIn ==
  /\ llmRun = "stream" /\ ~ bargedIn
  /\ bargedIn' = TRUE
  /\ UNCHANGED <<llm, ctxTools, asked, llmWire, sse, llmRun, cancelled, pushed, llmRuns>>

LlmInit ==
  /\ llm \in LlmNames /\ ctxTools \in BOOLEAN
  /\ asked = Request(0, <<"user">>, {})
  /\ script = <<>> /\ arrived = 0 /\ split = {} /\ truncated = FALSE
  /\ sse = Fresh /\ llmRun = "idle" /\ bargedIn = FALSE /\ cancelled = FALSE
  /\ pushed = <<>> /\ llmRuns = 0

LlmNext ==
  \/ RunLlm \/ BytesArrive \/ StreamEnds \/ BreakOff \/ PushFrame \/ RunReturns \/ BargeIn

\* The stage keeps polling; the provider sends its answer or the connection breaks off.
LlmFairness ==
  /\ WF_llmVars(BytesArrive) /\ WF_llmVars(StreamEnds)
  /\ WF_llmVars(PushFrame) /\ WF_llmVars(RunReturns)

-----------------------------------------------------------------------------
(* Properties.                                                             *)

Kinds(kind) == {k \in DOMAIN pushed : pushed[k].kind = kind}

\* A response is framed for the aggregators: what is pushed begins with the one start,
\* unless the barge-in came before it and only the end is pushed; when the stage is idle
\* again exactly one end, last, whether the answer was complete, cut off or cancelled;
\* calls and usage at most once (SseState::finish, LlmProcessor::run).
ResponseFramed ==
  /\ Kinds("start") = IF pushed = <<>> \/ (cancelled /\ Len(pushed) = 1) THEN {} ELSE {1}
  /\ Cardinality(Kinds("calls")) <= 1 /\ Cardinality(Kinds("usage")) <= 1
  /\ Kinds("end") \subseteq {Len(pushed)}
  /\ llmRun = "idle" /\ script # <<>> => Len(pushed) \in Kinds("end")

Heard(kind) == SelectSeq(pushed, LAMBDA f : f.kind = kind)
Spoken == SelectSeq(script, LAMBDA l : l.what = "text")

\* No text is lost, doubled or reordered at a chunk boundary; a response that was neither
\* cut off nor cancelled has it all (sse_to_frames, eventstream::next_message).
TextInOrder ==
  /\ Len(Heard("text")) <= Len(Spoken)
  /\ \A k \in DOMAIN Heard("text") : Heard("text")[k].n = Spoken[k].n
  /\ llmRun = "idle" /\ ~ truncated /\ ~ cancelled => Len(Heard("text")) = Len(Spoken)

CallsPushed == UNION {Range(pushed[k].calls) : k \in Kinds("calls")}

\* A tool call of a complete answer has all fragments of its arguments, in order, and none
\* of another's, however they interleave (accumulate, drain_tool_calls).
CallsWhole == ~ truncated => \A c \in CallsPushed : c.args = Whole

\* The text and the calls are what was sent, to the character.
CharactersIntact ==
  /\ \A k \in DOMAIN Heard("text") : ~ Heard("text")[k].garbled
  /\ \A c \in CallsPushed : ~ c.garbled

\* An event stream is buffered as bytes, so that no chunk boundary harms a character
\* (eventstream::next_message). SSE decodes each chunk by itself, and a divided character
\* is lost in text and arguments alike: CharactersIntact does not hold there.
EventsIntact == L.lines = "event" => CharactersIntact

\* What the providers require: a message, and tools in the provider's own shape. It holds
\* for the connectors that take care of it (request_body of openai, openai_responses;
\* gemini_request_body).
RequestAccepted ==
  L.body \in {"openai", "responses", "gemini"} => asked.messages # <<>> /\ "decl" \notin asked.tools

\* The brain's tools "MUST go through tool_to_openai": of every connector.
ToolsConverted == "decl" \notin asked.tools

\* A call is only made with the arguments the model gave it, also when the answer breaks
\* off in the middle of them.
NoPartialCall == \A c \in CallsPushed : c.args = Whole

\* A completion ends: process_frame returns and the stage takes the next frame.
CompletionEnds == llmRun = "stream" ~> llmRun = "idle"

\* A completion is what the provider said, however the bytes of its stream were cut: framed,
\* its text and the fragments of its calls all there and in order, and to the character where
\* the stream is buffered as bytes; and the request was one the provider takes.
CompletionsWhole ==
  ResponseFramed /\ TextInOrder /\ CallsWhole /\ EventsIntact /\ RequestAccepted
=============================================================================
