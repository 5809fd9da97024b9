----------------------------- MODULE Observers -----------------------------
(***************************************************************************)
(* What the observers of a pipeline make of the frames that pass: the RTVI *)
(* messages for the caller's screen, Langfuse generations, OpenTelemetry   *)
(* spans, Sentry events and the metrics log.                               *)
(*                                                                         *)
(* Three stages, each a task of its own, push frames towards a sink: the   *)
(* head (1) with the user's turns, the LLM (2) with its responses and the  *)
(* tools (3). A push calls the observers one after the other and then      *)
(* sends, and pushes of the other stages come between; a frame passes on   *)
(* at every later stage under its own id, so an observer meets it several  *)
(* times.                                                                  *)
(***************************************************************************)
EXTENDS Integers, Sequences, FiniteSets, SequencesExt

CONSTANTS
  MutedGroups,         \* RtviObserverParams: the groups of messages that are switched off
  ReportLevel,   \* FunctionCallReportLevel
  Answers,       \* what the provider may stream: sequences of [kind, n]
  Panels,        \* the observers that may be registered, in their order
  MaxTurns,      \* bound: turns of the user
  MaxLag         \* bound: frames that wait in a lane

Groups == {"bot_output", "bot_llm", "bot_tts", "bot_speaking", "user_speaking", "metrics"}
Levels == {"Disabled", "None", "Name", "Full"}
Exporters == {"rtvi", "fuse", "spans", "events", "metrics"}

ObserverAssumption ==
  /\ MutedGroups \subseteq Groups /\ ReportLevel \in Levels /\ {MaxTurns, MaxLag} \subseteq Nat
  /\ Panels \subseteq Seq(Exporters) /\ \A l \in Panels : l # <<>> /\ IsInjective(l)
  /\ \A a \in Answers : \A i \in 1..Len(a) :
       /\ a[i].kind = "CallsStarted" => a[i].n = 1
       /\ a[i].kind \in {"LlmResponseStart", "LlmText", "LlmResponseEnd", "LlmUsage", "Ttfb", "CallsStarted"}

VARIABLES
  nextId,      \* next_frame_id
  turn,        \* the user: [number, speaking]
  barge,       \* the barge-in generation
  answering,   \* the generation under which the LLM's stream began, or -1 when it has none
  todo,        \* stage -> the pushes it still makes, in order: [frame, dir]
  panel,       \* the observers
  at,          \* stage -> which of them the push at the head of its list calls next
  taking,      \* the stages whose push is about to take a generation
  stageInbox,       \* stage -> its lanes [system, normal] of [frame, dir]
  rtvi,        \* RtviObserver: [seen, partial, sent]
  fuse,        \* LangfuseExporter: [seen, active, input, output, usage, exported]
  spans,       \* OtelExporter: [seen, out]
  events,      \* SentryExporter: [seen, out]
  metrics,     \* MetricsLogObserver: [seen, out]
  pushed       \* history: frames in the order in which they were first observed

flowVars == <<nextId, turn, barge, answering, todo, panel, at, taking, stageInbox>>
observerVars == <<flowVars, rtvi, fuse, spans, events, metrics, pushed>>

Stages == 1..3

System == {"UserStartedSpeaking", "UserStoppedSpeaking", "Interruption", "Error", "LlmUsage",
           "Ttfb", "CallsStarted"}
Metrics == {"LlmUsage", "Ttfb"}

\* by is the stage that made the frame (history).
Meta(id, kind, t, n, by) == [id |-> id, kind |-> kind, turn |-> t, n |-> n, by |-> by, sibling |-> 0]

\* Fresh frames of the given kinds, pushed downstream one after the other (Link::push_down).
PushDown(first, t, by, kinds) ==
  [i \in 1..Len(kinds) |-> [frame |-> Meta(first + i - 1, kinds[i].kind, t, kinds[i].n, by), dir |-> "down"]]
PushUp(id, t, by, kind) == <<[frame |-> Meta(id, kind, t, 0, by), dir |-> "up"]>>

\* Both ways, under paired ids (Link::broadcast).
Broadcast(first, t, by, kind) ==
  <<[frame |-> [Meta(first, kind, t, 0, by) EXCEPT !.sibling = first + 1], dir |-> "down"],
    [frame |-> [Meta(first + 1, kind, t, 0, by) EXCEPT !.sibling = first], dir |-> "up"]>>

-----------------------------------------------------------------------------
(* RtviObserver.                                                           *)

\* The message of a frame and the parameter that switches it off.
Rows ==
  [UserStartedSpeaking |-> <<"user_speaking", "user-started-speaking">>,
   UserStoppedSpeaking |-> <<"user_speaking", "user-stopped-speaking">>,
   LlmResponseStart    |-> <<"bot_llm", "bot-llm-started">>,
   LlmResponseEnd      |-> <<"bot_llm", "bot-llm-stopped">>,
   LlmText             |-> <<"bot_llm", "bot-llm-text">>,
   LlmUsage            |-> <<"metrics", "metrics">>,
   Ttfb                |-> <<"metrics", "metrics">>]

Said(kind, f, texts) == [kind |-> kind, turn |-> f.turn, id |-> f.id, by |-> f.by, texts |-> texts]

\* One message for each call of the frame, unless reports are disabled.
FunctionCallStarted(f) ==
  IF ReportLevel = "Disabled" THEN <<>>
  ELSE [i \in 1..f.n |-> Said("llm-function-call-started", f, <<>>)]

FunctionCallStopped(f) ==
  IF ReportLevel = "Disabled" THEN <<>> ELSE <<Said("llm-function-call-stopped", f, <<>>)>>

\* A text ends a sentence when its number is even.
EndsSentence(text) == text[2] % 2 = 0

\* The text so far, and the sentence that is told when one is complete.
FlushBotTranscription(r, f) ==
  LET text == Append(r.partial, <<f.turn, f.n>>)
  IN IF EndsSentence(Last(text))
     THEN [r EXCEPT !.partial = <<>>,
                    !.sent = Append(@, Said("bot-transcription", f, text))]
     ELSE [r EXCEPT !.partial = text]

MapFrame(r, f) ==
  LET Tell(msgs) == [r EXCEPT !.sent = @ \o msgs]
      bare == Tell(IF f.kind \in DOMAIN Rows /\ Rows[f.kind][1] \notin MutedGroups
                   THEN <<Said(Rows[f.kind][2], f, <<>>)>> ELSE <<>>)
  IN CASE f.kind = "LlmText" /\ "bot_llm" \notin MutedGroups -> FlushBotTranscription(bare, f)
       [] f.kind = "CallsStarted" -> Tell(FunctionCallStarted(f))
       [] f.kind = "CallResult" -> Tell(FunctionCallStopped(f))
       [] OTHER -> bare

\* Only the downstream copy of a broadcast frame, and a frame once.
Ignored(o, f, dir) == (f.sibling # 0 /\ dir # "down") \/ f.id \in o.seen

RtviPush(r, f, dir) ==
  IF Ignored(r, f, dir) THEN r ELSE MapFrame([r EXCEPT !.seen = @ \cup {f.id}], f)

-----------------------------------------------------------------------------
(* The exporters and the metrics log.                                      *)

\* LangfuseExporter::on_push up to the unlock; the generation is taken after it.
Folded(l, f) ==
  CASE f.kind = "LlmResponseStart" -> [l EXCEPT !.active = TRUE, !.output = <<>>]
    [] f.kind = "LlmContext" -> [l EXCEPT !.input = f.turn]
    [] f.kind = "LlmText" -> [l EXCEPT !.active = TRUE, !.output = Append(@, <<f.turn, f.n>>)]
    [] f.kind = "LlmUsage" -> [l EXCEPT !.usage = f.turn]
    [] OTHER -> l

FusePush(l, f, dir) ==
  IF Ignored(l, f, dir) THEN l ELSE Folded([l EXCEPT !.seen = @ \cup {f.id}], f)

\* Mutant: the usage is read, not taken.
TakeGenerationRead(l, f) ==
  IF ~l.active THEN l
  ELSE [l EXCEPT !.active = FALSE, !.input = 0, !.output = <<>>,
                 !.exported = Append(@, [of |-> f.turn, input |-> l.input, output |-> l.output,
                                         usage |-> l.usage])]

TakeGeneration(l, f) ==
  IF ~l.active THEN l
  ELSE [l EXCEPT !.active = FALSE, !.input = 0, !.output = <<>>, !.usage = 0,
                 !.exported = Append(@, [of |-> f.turn, input |-> l.input, output |-> l.output,
                                         usage |-> l.usage])]

\* A span for every metric and every error, named for what was measured.
MetricSpan(f) == <<f.kind, f.turn>>
OtelPush(o, f, dir) ==
  IF Ignored(o, f, dir) THEN o
  ELSE [seen |-> o.seen \cup {f.id},
        out |-> IF f.kind \in Metrics \cup {"Error"} THEN Append(o.out, MetricSpan(f)) ELSE o.out]

\* An event for every error, and a transaction for every time to first byte.
ExportMetrics(out, f) == IF f.kind = "Ttfb" THEN Append(out, <<f.kind, f.turn>>) ELSE out
SentryPush(o, f, dir) ==
  IF Ignored(o, f, dir) THEN o
  ELSE [seen |-> o.seen \cup {f.id},
        out |-> IF f.kind = "Error" THEN Append(o.out, <<f.kind, f.turn>>) ELSE ExportMetrics(o.out, f)]

MetricsLogPush(o, f, dir) ==
  IF f.kind \notin Metrics \/ Ignored(o, f, dir) THEN o
  ELSE [seen |-> o.seen \cup {f.id}, out |-> Append(o.out, <<f.kind, f.turn>>)]

-----------------------------------------------------------------------------
(* Pushing: every observer first, in the order in which they were          *)
(* registered, then the neighbour's lane.                                  *)

Lane(f) == IF f.kind \in System THEN "system" ELSE "normal"
Neighbour(s, dir) == IF dir = "down" THEN s + 1 ELSE s - 1

\* Between two frames of its stream the LLM looks whether the user barged in.
Cancelled(s) == s = 2 /\ answering # -1 /\ barge # answering /\ at[s] = 1

\* What a push tells the observers in who.
Tell(who, env) ==
  LET After(o, state, push) == IF o \in who THEN push ELSE state IN
  /\ rtvi' = After("rtvi", rtvi, RtviPush(rtvi, env.frame, env.dir))
  /\ fuse' = After("fuse", fuse, FusePush(fuse, env.frame, env.dir))
  /\ spans' = After("spans", spans, OtelPush(spans, env.frame, env.dir))
  /\ events' = After("events", events, SentryPush(events, env.frame, env.dir))
  /\ metrics' = After("metrics", metrics, MetricsLogPush(metrics, env.frame, env.dir))

\* Observer::on_push: stage s tells the next observer of its frame. Langfuse takes the
\* generation of a response that ends after it has released its lock.
Observed(s) ==
  /\ todo[s] # <<>> /\ ~Cancelled(s) /\ at[s] <= Len(panel) /\ s \notin taking
  /\ LET env == Head(todo[s]) IN
     /\ Tell({panel[at[s]]}, env)
     /\ pushed' = IF \E i \in 1..Len(pushed) : pushed[i].id \in {env.frame.id, env.frame.sibling}
                  THEN pushed ELSE Append(pushed, env.frame)
     /\ IF panel[at[s]] = "fuse" /\ env.frame.kind = "LlmResponseEnd" /\ ~Ignored(fuse, env.frame, env.dir)
        THEN taking' = taking \cup {s} /\ UNCHANGED at
        ELSE at' = [at EXCEPT ![s] = @ + 1] /\ UNCHANGED taking
  /\ UNCHANGED <<nextId, turn, barge, answering, todo, panel, stageInbox>>

Export(s) ==
  /\ s \in taking
  /\ fuse' = TakeGeneration(fuse, Head(todo[s]).frame)
  /\ taking' = taking \ {s} /\ at' = [at EXCEPT ![s] = @ + 1]
  /\ UNCHANGED <<nextId, turn, barge, answering, todo, panel, stageInbox, rtvi, spans, events, metrics, pushed>>

observed == <<panel, taking, rtvi, fuse, spans, events, metrics, pushed>>

\* The lanes after the frame was sent to the neighbour; what leaves at the ends is gone.
Sent(lanes, s, env) ==
  LET to == Neighbour(s, env.dir)
  IN IF to \in Stages THEN [lanes EXCEPT ![to][Lane(env.frame)] = Append(@, env)] ELSE lanes

Room(s, env) ==
  Neighbour(s, env.dir) \in Stages => Len(stageInbox[Neighbour(s, env.dir)][Lane(env.frame)]) < MaxLag

PushFrame(s) ==
  /\ todo[s] # <<>> /\ at[s] > Len(panel) /\ Room(s, Head(todo[s]))
  /\ stageInbox' = Sent(stageInbox, s, Head(todo[s]))
  /\ todo' = [todo EXCEPT ![s] = Tail(@)] /\ at' = [at EXCEPT ![s] = 1]
  /\ answering' = IF s = 2 /\ Len(todo[s]) = 1 THEN -1 ELSE answering
  /\ UNCHANGED <<nextId, turn, barge, observed>>

-----------------------------------------------------------------------------
(* The stages.                                                             *)

Free(s) == todo[s] = <<>>

\* The head: a turn begins, with a barge-in while the bot is speaking, and ends with the
\* context for the LLM.
UserStarts(bargeIn) ==
  /\ bargeIn => \E i \in 1..Len(pushed) : pushed[i].kind = "LlmText"
  /\ Free(1) /\ ~turn.speaking /\ turn.number < MaxTurns
  /\ turn' = [number |-> turn.number + 1, speaking |-> TRUE]
  /\ barge' = IF bargeIn THEN barge + 1 ELSE barge
  /\ todo' = [todo EXCEPT ![1] =
       PushDown(nextId, turn.number + 1, 1, <<[kind |-> "UserStartedSpeaking", n |-> 0]>>)
         \o (IF bargeIn THEN Broadcast(nextId + 1, turn.number + 1, 1, "Interruption") ELSE <<>>)]
  /\ nextId' = nextId + IF bargeIn THEN 3 ELSE 1
  /\ UNCHANGED <<answering, at, stageInbox, observed>>

UserStops ==
  /\ Free(1) /\ turn.speaking
  /\ turn' = [turn EXCEPT !.speaking = FALSE]
  /\ todo' = [todo EXCEPT ![1] =
       PushDown(nextId, turn.number, 1, <<[kind |-> "UserStoppedSpeaking", n |-> 0],
                                          [kind |-> "LlmContext", n |-> 0]>>)]
  /\ nextId' = nextId + 2
  /\ UNCHANGED <<barge, answering, at, stageInbox, observed>>

\* The stream is dropped and the response closed.
CancelStream ==
  /\ Cancelled(2) /\ todo[2] # <<>>
  /\ todo' = [todo EXCEPT ![2] =
       PushDown(nextId, todo[2][1].frame.turn, 2, <<[kind |-> "LlmResponseEnd", n |-> 0]>>)]
  /\ nextId' = nextId + 1
  /\ answering' = -1
  /\ UNCHANGED <<turn, barge, at, stageInbox, observed>>

\* The next frame of a stage: the system lane first.
Incoming(s) ==
  IF stageInbox[s].system # <<>> THEN stageInbox[s].system ELSE stageInbox[s].normal
Taken(s) ==
  IF stageInbox[s].system # <<>> THEN [stageInbox EXCEPT ![s].system = Tail(@)]
  ELSE [stageInbox EXCEPT ![s].normal = Tail(@)]

\* A stage passes a frame on, and that is a push too; one step, since every observer was
\* told of the frame before it was first sent, and none makes anything of it now. A barge-in
\* empties the normal lane first: nothing in it here survives an interruption.
Forward(s) ==
  /\ Free(s) /\ Incoming(s) # <<>>
  /\ LET env == Head(Incoming(s))
         kept == IF env.frame.kind = "Interruption" THEN [Taken(s) EXCEPT ![s].normal = <<>>] ELSE Taken(s)
     IN /\ ~(s = 2 /\ env.frame.kind = "LlmContext") /\ ~(s = 3 /\ env.frame.kind = "CallsStarted")
        /\ Tell(Range(panel), env) /\ Room(s, env)
        /\ stageInbox' = Sent(kept, s, env)
  /\ UNCHANGED <<nextId, turn, barge, answering, todo, panel, at, taking, pushed>>

\* The tool stage keeps the calls it knows and pushes their results.
Dispatch ==
  /\ Free(3) /\ Incoming(3) # <<>> /\ Head(Incoming(3)).frame.kind = "CallsStarted"
  /\ LET f == Head(Incoming(3)).frame IN
     /\ todo' = [todo EXCEPT ![3] =
          PushDown(nextId, f.turn, 3, [i \in 1..f.n |-> [kind |-> "CallResult", n |-> i]])]
     /\ nextId' = nextId + f.n
  /\ stageInbox' = Taken(3)
  /\ UNCHANGED <<turn, barge, answering, at, observed>>

\* The LLM answers a context with one of the provider's streams, or fails.
Answer(a) ==
  /\ Free(2) /\ Incoming(2) # <<>> /\ Incoming(2)[1].frame.kind = "LlmContext"
  /\ todo' = [todo EXCEPT ![2] = PushDown(nextId, Incoming(2)[1].frame.turn, 2, a)]
  /\ nextId' = nextId + Len(a)
  /\ answering' = barge
  /\ stageInbox' = Taken(2)
  /\ UNCHANGED <<turn, barge, at, observed>>

AnswerFails ==
  /\ Free(2) /\ Incoming(2) # <<>> /\ Incoming(2)[1].frame.kind = "LlmContext"
  /\ todo' = [todo EXCEPT ![2] = PushUp(nextId, Incoming(2)[1].frame.turn, 2, "Error")]
  /\ nextId' = nextId + 1
  /\ stageInbox' = Taken(2)
  /\ UNCHANGED <<turn, barge, answering, at, observed>>

Nothing == [seen |-> {}, out |-> <<>>]

ObserverInit ==
  /\ nextId = 1 /\ turn = [number |-> 0, speaking |-> FALSE] /\ barge = 0 /\ answering = -1
  /\ todo = [s \in Stages |-> <<>>] /\ at = [s \in Stages |-> 1]
  /\ panel \in Panels /\ taking = {}
  /\ stageInbox = [s \in Stages |-> [system |-> <<>>, normal |-> <<>>]]
  /\ rtvi = [seen |-> {}, partial |-> <<>>, sent |-> <<>>]
  /\ fuse = [seen |-> {}, active |-> FALSE, input |-> 0, output |-> <<>>, usage |-> 0, exported |-> <<>>]
  /\ spans = Nothing /\ events = Nothing /\ metrics = Nothing /\ pushed = <<>>

ObserverNext ==
  \/ \E bargeIn \in BOOLEAN : UserStarts(bargeIn)
  \/ UserStops \/ CancelStream \/ AnswerFails \/ Dispatch
  \/ \E s \in Stages : PushFrame(s) \/ Forward(s) \/ Observed(s) \/ Export(s)
  \/ \E a \in Answers : Answer(a)

-----------------------------------------------------------------------------
(* Properties.                                                             *)

PushedOf(kind, t) == SelectSeq(pushed, LAMBDA f : f.kind = kind /\ f.turn = t)
SentOf(kind) == SelectSeq(rtvi.sent, LAMBDA m : m.kind = kind)

Watches(o) == \E i \in 1..Len(panel) : panel[i] = o

\* An observer lags behind the frames of the LLM by the one under way at most.
Follows(out, all) == IsPrefix(out, all) /\ (at[2] = 1 => out = all)

\* The first push of f is over.
Over(f) == \A i \in 1..Len(todo[f.by]) : todo[f.by][i].frame.id # f.id

\* The screen hears of every frame once, and of what caused a frame before it, although a
\* frame is met at every stage, and at stages that run at the same time: no message is
\* told twice, a stage's frames are told in the order it pushed them, every frame that was
\* sent on has been told, an answer comes after the turn it answers and a result after its
\* call (RtviObserver::on_push, Link::push).
ToldOnceInOrder ==
  LET m == rtvi.sent
      told == {m[i].id : i \in 1..Len(m)}
      At(k, t) == {i \in 1..Len(m) : m[i].kind = k /\ m[i].turn = t}
  IN /\ \A j \in 1..Len(m) : \A i \in 1..(j - 1) :
          /\ m[i].id = m[j].id => m[i].kind # m[j].kind
          /\ m[i].by = m[j].by => m[i].id <= m[j].id
     /\ Watches("rtvi") => \A k \in 1..Len(pushed) :
          Over(pushed[k]) /\ pushed[k].kind \in DOMAIN Rows /\ Rows[pushed[k].kind][1] \notin MutedGroups =>
            pushed[k].id \in told
     /\ \A t \in 1..MaxTurns :
          /\ \A i \in At("bot-llm-started", t) : \E j \in At("user-stopped-speaking", t) : j < i
          /\ \A i \in At("llm-function-call-stopped", t) :
               \E j \in At("llm-function-call-started", t) : j < i

\* The sentences told and the one under way are the texts of the responses, none lost or
\* told twice (flush_bot_transcription_on_sentence).
SentencesAddUp ==
  LET lines == SentOf("bot-transcription")
      told == FlattenSeq([i \in 1..Len(lines) |-> lines[i].texts]) \o rtvi.partial
      texts == SelectSeq(pushed, LAMBDA f : f.kind = "LlmText")
  IN Watches("rtvi") => Follows(told, [i \in 1..Len(texts) |-> <<texts[i].turn, texts[i].n>>])

\* A generation is what its response said, with its own usage, cut short or not, although
\* it is taken after the lock was released; every response gives one (take_generation).
GenerationOwn ==
  \A i \in 1..Len(fuse.exported) :
    LET g == fuse.exported[i]
        texts == PushedOf("LlmText", g.of)
    IN /\ g.output = [j \in 1..Len(texts) |-> <<texts[j].turn, texts[j].n>>]
       /\ g.usage = IF PushedOf("LlmUsage", g.of) # <<>> THEN g.of ELSE 0
       /\ \A j \in 1..Len(fuse.exported) : fuse.exported[j].of = g.of => j = i

\* The exporters and the log count every measurement once, in order
\* (OtelExporter, SentryExporter, MetricsLogObserver).
CountsAgree ==
  LET Of(kinds) == LET fs == SelectSeq(pushed, LAMBDA f : f.kind \in kinds)
                   IN [i \in 1..Len(fs) |-> <<fs[i].kind, fs[i].turn>>]
  IN /\ Watches("spans") => Follows(spans.out, Of(Metrics \cup {"Error"}))
     /\ Watches("events") => Follows(events.out, Of({"Error", "Ttfb"}))
     /\ Watches("metrics") => Follows(metrics.out, Of(Metrics))

\* Violated: a generation carries the input of its own turn. The next context may pass
\* while the response still streams (langfuse.rs:5-16 and 219-221).
InputOwn ==
  \A i \in 1..Len(fuse.exported) : fuse.exported[i].input = fuse.exported[i].of

\* Violated: a sentence is of one response. The rest of one that was cut short stays and
\* is put before the next (rtvi.rs:386-404).
SentenceOwn ==
  \A i \in 1..Len(rtvi.sent) : \A j \in 1..Len(rtvi.sent[i].texts) :
    rtvi.sent[i].texts[j][1] = rtvi.sent[i].turn
=============================================================================
