# flowcat in TLA+

Specifications of flowcat's core, the TLC configurations that check them on small
instances, and theorems about them that TLAPS checks. File names without a
directory are under `flowcat-core/src/`.

## The system

A flowcat call is a pipeline of *processors*, each a tokio task, through which
*frames* travel downstream (from the caller to the bot and back to the caller) and
upstream (errors, requests, acknowledgements). Everything else is built on top: the
cascaded call (STT, LLM, TTS), the realtime call (one speech-to-speech session), the
conversation graph that decides what the bot does, the connectors to the providers, the
carriers that bring the audio.

| Component | State it keeps | Operations | Talks to | What is hard | What makes it correct |
|---|---|---|---|---|---|
| Processor runtime (`processor/`) | a system and a normal channel per stage; the processor | receive (system first), start, process_frame, on_interruption with the drain, stop, push, broadcast | its two neighbours | a drain among neighbours that go on sending; terminal frames through several arms; full channels | no frame of an interrupted turn survives, the end reaches everybody, hooks run in order and once |
| Wiring (`pipeline/mod.rs`) | neighbours, bridges of composites | link_chain, bridge, Source, Sink | runtime, task | terminal frames and interruptions through a bridge | composites are transparent |
| Task and runner (`pipeline/task.rs`, `runner.rs`) | head queue, tap, token, watchers | handshake, pump, cancel, idle, heartbeat, join | Source, Sink, embedder | one select for everything; backpressure at the head | a task that is asked to end ends, and drains first |
| ParallelPipeline (`pipeline/parallel.rs`) | seen ids, the lifecycle frame in sync, buffer | fan_out, fan_in | branches | branches at different speeds | each frame once, lifecycle frames once all branches have passed them |
| Barge-in (`pipeline/cascaded.rs`, `service/adapters.rs`, `audio/vad.rs`) | generation, latch, speaking flag, playout estimate | VAD trigger, reactor, LLM/TTS runs, sink | VAD, carrier | an out-of-band path that races the frame path | the old reply falls silent, the new one plays, the history is right |
| Turn lock (`pipeline/cascaded.rs`) | muted flag, generation, playout estimate | begin, note_bot_audio, watchdog | STT stage | watchdogs of several turns | the lock is always released |
| Rolling context (`pipeline/cascaded.rs`) | messages, pending tool calls, in-flight flag | aggregators, tool bridge, summarizer | LLM, brain | a summary spliced into a history that has grown | nothing forgotten, tool calls paired |
| Cascaded turns (`pipeline/cascaded.rs`) | context with its prompt and tools, pending calls | greeting, LLM run, tool bridge, re-prompt, result | LLM, brain | a transition among running and drained LLM runs | the prompt is the node's, results are read |
| Realtime call (`pipeline/s2s.rs`, `realtime/`) | session behind a lock, reader task, disposition | reader, send_audio, tool relay, re-prompt | provider, brain, transport | the lock, end requests, reconnects | one result per call, the caller heard while the reader waits |
| Finalization (`pipeline/s2s.rs`, `session.rs`) | finalized flag, recorder, transcript | upload, finalize | session source | partial failure, several ways to end | reported whole and once |
| Realtime sessions (`realtime/`, `flowcat-services/src/realtime`) | socket, reader, event queue, resumption handle, retry counter | connect, poll, resume, reopen | provider | drops at any point, lost wakeups | no event skipped, an end at the ceiling |
| Context relay (`pipeline/context_relay.rs`) | transcript, digest, in-flight flag | trigger, re-base, compact | realtime session | a detached compactor | every turn in the digest or verbatim |
| Graph and brains (`flowcat-agent/src`, `brain/remote.rs`, `mcp.rs`) | current node, collected variables, cached view | transition, tool call, end, interpolation | tool bridge, MCP server | long sequences of model calls, failing requests | the model sees the node it is in |
| SIP and RTP (`sip/`, `flowcat-server/src/sip.rs`) | registration, dialogs, ports, jitter buffer | register, invite, bye, push, drain | carrier | lost and reordered packets, wrap, crossing BYEs | in order, once; calls always torn down |
| Turn taking (`audio/`) | VAD window, silence tracker, strategies | windows, edges | runtime | thresholds, stale evidence | edges alternate, a turn's end is earned |
| Agent stages (`agent/`) | text buffers, wake window, verdict, menu state, seen calls | process_frame | runtime | text in pieces, timeouts | text kept, one verdict, calls run once |
| Audio stages (`audio/`, `codec.rs`) | pre-roll, block and frame buffers, recording legs | gate, filter, mix, record | runtime | chunks that do not divide into blocks | no sample lost, doubled or out of place |
| Carriers and DTMF (`flowcat-telephony`, `transport/`, `serializer/`) | stream id, codec, session state, writer queue | on_message, encode, clear | carrier socket | events around the handshake and the end | audio decoded as encoded, clear effective |
| WebRTC (`flowcat-transports/src/webrtc`) | peer session, two bounded channels, pacing clock | peer loop, send, recv, clear | browser, pump | two loops that wait for each other | nobody blocks for good, times advance |
| STT, TTS, LLM connectors (`flowcat-services/src`) | connections, queues, accumulators | send, decode, close | providers | dying connections, cut byte streams | words once, audio with its utterance, calls whole |
| Observers (`observer/`, `observability/`) | seen frames, open generation, counts | on_push | every stage | one frame at many stages at once | told once and in order |
| Server (`flowcat-server/src`) | event registry, media ports | offer, subscribe, run | browsers, session source | failures in the middle of an offer | nothing left behind |

`PROJECT.json` lists the components with their files and status, and the hazards, each at
its line.

## Modules

**ProcessorChain** is `processor/runtime.rs` with the Source, the Sink and `bridge` of
`pipeline/mod.rs`. `sys[i]` and `norm[i]` are the channels of stage `i`, `live[i]` says
whether its task runs. A handler is interrupted at every await, so what it has still to do
is data: `cont[i]` is a sequence of operations (push a frame, go on draining, run the stop
hook, leave the loop), and each is a step. `Received` is the biased select; `RecvStart`,
`RecvInterruption`, `RecvTerminal`, `SourceProcess`, `SinkProcess` and `UserProcess` are
the arms of the loop; `DrainStep` takes one frame from the queue; `BridgeForward` is the
bridge. A frame is its kind (one representative for each class and each special treatment),
its direction and, for a bot text, the turn in which it left the VAD stage. User processors may
forward, keep, fail (an `Error` upstream) or request the end (an upstream `End`); one of them
is the VAD stage, which broadcasts `Interruption`. **Topology** computes the upstream
neighbours that `link_chain` wires; the stage after a composite pushes upstream into the
composite's bridge.

**PipelineTask** extends it with `PipelineTask::run`: the `Start` handshake, the pump (which
looks at nothing else while it waits for room at the head), the tap, the cancel token, the
idle watcher, the heartbeat and the bounded join. Idle watcher and heartbeat listen on a
child of the token. `ChainSpec` states that every step of the task is a step of the chain, so
what is shown for ProcessorChain holds for the task.

**ParallelPipeline** is `fan_out`, `fan_in` and branches of one processor. Its frames have ids,
as deduplication needs them. `KeptEnd` is the drain of a branch, which stops at the first End it
meets. The upstream collector is left out.

**DuplexBargeIn** follows a barge-in through the cascaded duplex call: VAD stage, user
aggregator, `LlmProcessor`, `AssistantContextAggregator`, `TtsProcessor`, sink, the reactor that
flushes the carrier out of band, and the `StaleAudioLatch`. LLM and TTS runs may fail and
the transport may die. A frame carries its LLM run and its turn. Stages that only pass frames on, the
SpeechGate and STT are left out, queues have no capacity (ProcessorChain has it), and the End that
a dead transport causes is PipelineTask's. The carrier's buffer is external.

**BotSpeakingNotifier** and **TurnMute** are the two playout watchdogs of the cascaded call, the
first in duplex calls, the second in half-duplex ones. One step is one access to an atomic, the
mutex or the head's queue, because sink, reactor, aggregator and watchdogs run in parallel.
Instants are reduced to what the code asks of the estimate: none, in the future, in the past.

**RollingContext** is the shared history with its four writers. A step is one holding of the
mutex. A message is its role, its tool call and its number. **CascadedTurns** puts the greeting,
the LLM, the tool bridge, the brain and its tool relay around one context, with the prompt and
the tools that a transition replaces; a reply is one frame there.

**RealtimeCall** is the speech-to-speech call of `pipeline/s2s.rs`: transport pump, service with
its reader task, brain, and the stages behind it down to `FinalizeProcessor`. Session and transport are each
behind a mutex that two tasks use. `stop()` only asks the reader's task to go: it is dropped a step later (`ReaderDropped`), and may
push until then. The run has `Notifies = TRUE`, a session with an `event_notify`; see *Findings* for the others. **CallContract** is what a call promises the control plane
(somebody asks for its end, the report is made, once); `ReportedOnce` is the refinement of its fair
specification with `wanted` mapped to those who asked and `phase` to the report's. **RealtimeSession** is below: a provider's socket with its reader and
its event queue, and for Gemini Live resumption and reopening. **ContextRelay** decides when a session is opened
again, and with which prompt.

**GraphBrain** is the graph, the in-process and the remote brain and the MCP stage in front of them; the graphs
that it walks are given in the MC module. A new prompt is a frame on its way to the session (`upward`), and the
model's view of the call (`shown`) changes when it is there. A remote answer sets the node always, and the cached prompt only if it brings one. **TurnTaking**, **AgentStages** and **AudioStages** hold the stages
of `audio/` and `agent/`, each a machine of its own. In AudioStages a sample is a number, and a resampler repeats samples or leaves some out, in whole blocks
and behind what its filter holds back; its values are left out. The wake-word filter of AgentStages works on bytes, as its offsets do. **Observers** has three stages that push
at the same time and call a panel of observers one after the other, each of which may be waited for.

**SttConnectors**, **TtsConnectors** and **LlmConnectors** are the adapters of `service/adapters.rs` in front of
the connectors of `flowcat-services`. What a connector has of its own is a *profile*, a record of what
its code does differently (when it opens, what a mute or a failed send does, how an utterance is framed and ends), and a decoder; Init
chooses one, so a run covers them all. In LlmConnectors bytes are cut wherever the network likes, inside a character too.

**SipAgent** is the user agent with its registration loop and dialogs, and the host that answers; **RtpMedia** its
media, with the jitter buffer on a circle of 16 numbers, sends that fail, and the drop of the transport, which fires the token and aborts the pump. **Carriers** is the media socket with every
serializer as a profile, and the two DTMF detectors. **WebRtcPeer** is the peer loop and the pump; **CallServer** the offers, the
search for a port, and the event streams; what a call had is given back in the code's order, publisher and socket inside the call and the registry entry behind it.

The MC modules give values to the constants. `MCCascadedParts`, `MCCallParts`, `MCServiceParts` and
`MCComponents` put modules that share no state side by side: a behaviour is one of one part, chosen in Init, and the others rest.
No interleaving between parts is examined or claimed there; where parts interact they are in one module. `MCComponents` asks
of a component only what concerns its own behaviours.

The `_proofs` modules extend the modules they are about: one each for ProcessorChain, PipelineTask and RealtimeCall, and one for each
MC module that puts several machines side by side. **SequenceFacts** holds the lemmas they share.

## Runs

Bounds are named CONSTANTS. Deadlock is not checked where a call that has ended stops; in `realtime` it
is. A property of a run is often a conjunction of parts, each a definition of its own with the
comment that says what it means; the table names them.

| Run | Bounds | Shows |
|---|---|---|
| `chain` | 5 stages (Source, bridge, VAD, consumer, Sink), capacity 2, 3 frames, 1 barge-in | `TypeOK`, `NoStaleText`, `TerminalNotLost`, `HooksInOrder` (`StopOnce`, `StartFirst`), `EndStopsAll` |
| `task` | 4 stages, capacity 1, 2 queued frames, 3 sends to the head, 1 failing hook, heartbeat, signal | `PumpDrains` (`TaskTypeOK`, `DrainBeforeEnd`), refinement `ChainSpec` |
| `task_ends` | 4 stages, capacity 1, 2 queued frames, 1 barge-in, 1 request, signal, idle watcher | `TaskEnds` |
| `realtime` | 2 provider events, 1 audio frame of the caller | `ReportWhole` (`RealtimeTypeOK`, `LinesReported`, `DispositionReported`), refinement `ReportedOnce`, `SessionServed`, `CallAnswered` |
| `cascaded_parts` | 3 chunks and 2 interruptions; 3 turns; 6 messages, 2 tool calls, trigger 2, keep 2 | `SpeakingIsWatched`, `LockIsWatched`, `HistoryWhole` (`ToolsPaired`, `TurnsRemembered`), `SpeakingSettles` (`SpeakingEnds`, `SilenceHeard`), `CallerReheard` (`LockReleased`, `SttReopens`), `SummarizerFreed` |
| `call_parts` | ceiling 2, 3 provider frames, 4 drops, 1 re-prompt; 5 turns, 4 usages; 1 user turn, 2 tool calls, 1 barge-in; channels of 1, 3 packets, 3 chunks | the table below |
| `service_parts` | 3 utterances, 2 cuts; 1 completion; 2 inbound and 1 outbound calls, 1 port; 3 registrations; 2 offers, 2 events; 2 branches, 4 frames | the table below |
| `components` | see `components.cfg`, a bound for each component | the table below |
| `chain_end_request_lost` | 2 frames, 1 barge-in, 1 request | violates `RequestEndsTask` |
| `task_wedged` | 7 queued texts, capacity 1, 1 request | violates `TokenEnds` |
| `notifier_stuck` | 1 chunk, 1 interruption | violates `VadSettles` |
| `duplex_turn_lost` | 2 turns, 1 barge-in | violates `TurnRuns` |

| Run | Property | Parts and what they say together |
|---|---|---|
| `call_parts` | `SessionWhole` | `NothingSkipped`, `CeilingExact`: over any number of sockets the consumer gets what the provider sent; a session that drops again and again ends at the ceiling, not before |
| | `SessionRecovers` | `EventsFetched`, `NoZombie`: no wakeup is lost; a session that cannot be reopened ends its call |
| | `PromptCarriesAll` | a refresh loses no turn, whatever the compactor has answered since |
| | `BrainFollowed` | `GreetingHarmless`, `PromptFollows`, `ResultsKept`: the greeting cannot hang up; prompt and tools are those of the brain's node; a workflow tool's result stays behind its call |
| | `PeerOrdered` | `StartedThenHeard`, `TimesAdvance`: the WebRTC call starts once and first; no time of a frame is repeated |
| | `CallWorkEnds` | `ResultsRead`, `CompactionFreed`, `DigestForward`, `SendsReturn`, `EndNoticed`: what is waited for comes |
| `service_parts` | `UtterancesOwn` | `OwnAudio`, `RequestsFit`, `FailuresOwn`: an utterance plays its own audio from the first piece on, each once and in order, and all of it when nothing failed (on a shared socket: until an utterance fails); requests fit; with a connection of its own it fails only for a fault of its own |
| | `CompletionsWhole` | `ResponseFramed`, `TextInOrder`, `CallsWhole`, `EventsIntact`, `RequestAccepted`: one start, and one end behind it; text and calls in order and complete over any cut, and of event streams intact to the character |
| | `RegisteredIsBound` | a refresh comes before the binding lapses |
| | `ServerKeeps` | `EventsWhole`, `PortsInRange`, `NothingLeftBehind`: a page hears its call from the first event to the last, a socket is in the pinned range and an offer refused only when all of it was tried, nothing stays in the registry when a call is over |
| | `BlockInOrder` | `FanInTypeOK`, `EmitOnce`, `EndAfterAllBranches`: each frame once; the end when every branch has returned and `fan_in` has all they sent, with nothing behind it but what was held back |
| | `ServiceWorkEnds` | `RunEnds`, `CompletionEnds`, `CallReleased`, `StreamsEnd`, `EndLeaves`, `OutputLeaves` |
| `components` | `BargeInClean` | `StampsInOrder`, `SilencedAtSink`, `LatchOpens`, `CommittedOnce`: the old reply falls silent, the latch opens again, the history has a reply once |
| | `CallerTranscribed` | `NoEcho`, `WordsOnce`, `OneStrike`: no words of the bot, the caller's once and in order; a dead connection costs one chunk |
| | `GraphFollowed` | `ViewMatches`, `MovedWithPrompt`, `AnsweredOnce`, `VisitedExact`, `ValidNeverDetached`: when nothing is on its way the model sees what the brain last handed out, which is of the node its call is resolved against; it hears of no move before it has the prompt; calls have one answer, the report has the nodes visited |
| | `MediaInOrder` | `PlayedInOrder`, `WindowRepaired`, `BotAudioWhole`: across wrap and SSRC change, within the jitter window; of the bot's audio no sample is dropped or doubled while the pump runs, which only a hang-up or a failed send ends |
| | `StagesFaithful` | `TextKept`, `NumbersWhole`, `WakeGated`, `ClassifiedOnce`, `ScriptPlayed`, `CallsRunOnce`: nothing of a text lost or doubled but what a wake gate withholds; and of the graph `ValuesLiteral`: a value never becomes part of a template's syntax, only its escaped new lines are rewritten |
| | `TurnsEarned` | `EdgesAlternate`, `TurnStopEarned`, `VerdictLags`, `FloorKept`, `MuteMatches`: a turn ends on a transcript and a report, or the waits for them, that came since the caller began; a verdict in such a report is never about what was said since |
| | `CarriersAgree` | `CodecsAgree`, `BargeInSilences`, `AcceptedWritten`, `HoldRespected`, `NoGhostKeys` |
| | `ObserversAgree` | `ToldOnceInOrder`, `SentencesAddUp`, `GenerationOwn`, `CountsAgree`: messages once and in the order in which a stage pushed the frames, sentences of several texts that add up to what was said |
| | `SamplesWhole` | `UtterancesWhole`, `FilterWhole`, `MusicContinues`, `RecordingAligned`: the last compares the recording with when each chunk came to the recorder, not with where it was put |
| | `StepsSound` | `FreshAudioPlays`, `EdgesDebounced`, both about steps |

Why the bounds are enough to be interesting. Three frames and a barge-in put a frame on
each side of an interruption at every stage, fill a channel of capacity 2, and let an End and a
Cancel race. Capacity 1 makes the pump and the stages wait for each other early; the cycle of
`task_wedged` needs every queue of the task full, hence seven texts. Two branches are the least that can differ in speed. Three chunks and
two interruptions give bursts whose watchdogs overlap; three turns give a watchdog on its way out, one
in its loop and a turn that begins. A trigger and a kept tail of two messages let
every position of a tool pair fall on the cut. Four drops reach a ceiling of two at once and again after an event has
given the budget back. Twelve is the first sequence number and sixteen the circle, so four packets with one fault
cross the wrap. Five chunks of speech over two connections and a mute put words
before, in and behind each. Channels of one make the WebRTC loop and the pump wait at once. Expiries on both sides of the floor
reach both branches of the renewal. Chunks of one and three samples against blocks of two, a filter that holds two back and frames
of three leave every remainder, and a bot at twice the recording's rate makes a place fall between two samples.

Fairness. Every stage, pump, watchdog, reader, fan-in, summarizer, compactor and peer loop is a tokio task, which the
scheduler polls again when it can go on: weak fairness of the task's steps. A mutex is tokio's, which is
fair to those who wait: the sender that waits for the session gets it. A watchdog's sleep ends, playout time
passes. A request that was sent is answered or fails, a compactor and a tool answer or fail, and bytes that the provider has
sent arrive: most connectors have no timeout of their own, so without this `RunEnds` and
`CompletionEnds` would not hold of them. Nothing makes an embedder queue a frame, a caller
speak, a signal arrive or a call fall silent. `TaskEnds` says of the idle watcher only that the task ends once it has fired. The
liveness of `task_ends` is checked below the load at which `task_wedged` blocks the pump.

## Findings

The four violation runs are disagreements between the code and its comments:

* `chain_end_request_lost`: the drain pushes what it keeps instead of processing it, so an upstream End in the
  Source's queue is lost to an upstream Interruption and the task goes on.
* `task_wedged`: the pump awaits `head.send` without listening to its token; with full
  queues and a stage that pushes upstream, nobody can go on.
* `notifier_stuck`: the speaking flag and its edge frame are two steps. A barge-in between them
  delivers Stopped before Started, and the VAD stage takes the bot to be speaking for good.
* `duplex_turn_lost`: a drain removes what is queued when the stage gets to it, the caller's next turn included.

The same reading limits what the passing properties say. None of the following is claimed:

* A `FunctionCallResult` kept by the drain of its consumer passes it by (`processor/runtime.rs:229`).
* `stop()` runs before the terminal frame is forwarded (`processor/runtime.rs:184`), the doc of the
  hook says after.
* The bridge of a pipeline nested in the user's pipeline ends on an upstream End and does not drain on
  Interruption (`pipeline/mod.rs:267-281`). `FlatPrev` has only the bridge that every task has, in
  front of all user processors and upstream of the VAD stage.
* A fatal `Error` goes upstream and never reaches the tap where the task looks for it (`pipeline/task.rs:335`).
* `fan_in` forwards End before the output it buffered, though its doc says that a fast branch's End "can't shut the transport
  down while a slow branch still has audio to flush" (`pipeline/parallel.rs:8-13`, `:171-174`; `EndLast` below). It synchronizes no second lifecycle frame while one is pending
  and forwards the first copy of an Interruption only (`:178-203`). So
  `EndAfterAllBranches` says that nothing but the buffer comes behind an End, `OutputLeaves` that output leaves, and `EarlyCancel` is FALSE: with TRUE,
  a Cancel close behind Start violates `EndAfterAllBranches`.
* A session without an `event_notify` (Ultravox, `flowcat-services/src/realtime/ultravox.rs:194`; Nova Sonic) is awaited under its
  lock (`realtime/service_adapter.rs:89-93`): while the provider is silent the caller's audio, a tool result and a re-prompt wait. `SessionServed`
  is about the others; with `Notifies = FALSE` TLC finds the call stuck.
* `handle.abort()` in the service's `stop()` is not awaited (`pipeline/s2s.rs:670-675`): a line that the reader pushes
  meanwhile comes behind the brain's End and is not reported. `LinesReported` is about the lines pushed before `stop()`.
* The transport's drop fires the pump's token and aborts its task (`sip/transport.rs:137-143`), so the branch of `tx_loop` that plays the tail of
  a closed channel (`:377`) is not reached: what is queued or in the buffer when the transport goes is not heard.
* Every answer of a remote policy sets the node, but prompt and tools only when it sends them
  (`flowcat-services/src/brain/remote.rs:423-432`): one that names a node and sends no prompt leaves the model with those of the node before. `ViewMatches`
  excepts a call in which this has happened (`strayed`). `ValidNeverDetached` excepts the node that a call was put on after a restart.
* The turn stage never resets the analyzer's last verdict (`audio/turn.rs:253-263`), and every window that is heard while the caller
  speaks withdraws it. A "complete" at a stop edge is thus always the verdict of the silence before the caller began, and what the analyzer finds in the silence after
  the edge is not passed on, though the strategy is to be told what it found (`:19-22`). `VerdictLags` says so; `TurnStopEarned`
  asks only that the report came in time.
* The strategies for stopping a turn are asked by nobody in the repository; the controller in TurnTaking is the one their docs
  describe, and external.
* Telnyx keeps the configured codec when the start event names no encoding or one it does not know
  (`flowcat-telephony/src/telnyx.rs:119-126`). `CodecsAgree` is about streams in G.711, as its start events announce.
* The gate's pre-roll reaches the recorder when the gate opens, and is on the recording some 300 ms late (`pipeline/cascaded.rs:436-440`). `RecordingAligned`
  counts from the recorder's input.
* The speaking watchdog may announce silence on an estimate that has just been extended (`pipeline/cascaded.rs:343`).
* A chunk that the sink checked before the barge-in may be sent after the reactor's flush
  (`pipeline/cascaded.rs:1277`); `SilencedAtSink` therefore starts where the sink has handled the Interruption.
* TurnMute releases between two chunks of a reply when the estimate runs dry, and the unmute of one turn may overtake the
  mute of the next (`pipeline/cascaded.rs:246`, `:252`); `SttReopens` says only that STT is not closed for good.
* A tool result at the edge of the summarized prefix is cut off without being in the summary
  (`pipeline/cascaded.rs:682`); `TurnsRemembered` is about user and assistant messages.

Further disagreements with comments and docs are stated in the modules as properties that no run
checks, since they do not hold:

| Property | Module | The comment | The code |
|---|---|---|---|
| `ResultsReachModel` | CascadedTurns | every result but a transition's acknowledgement reaches the model (`pipeline/cascaded.rs:1037-1042`) | a tool whose own answer is `{"status": "ended"}` or the like is taken for one (`:1043-1048`) |
| `BotLineKept`, `BotHeard` | RealtimeCall | a barge-in finalizes what the bot had said; a send is never starved by recv | the Interruption drains the line just pushed; a transport that waits in recv under its lock does starve it |
| `NewPromptSticks` | RealtimeSession | the new prompt takes effect | the reader of the old socket may store its handle behind the reset, and the next drop resumes the old conversation |
| `SessionStarts`, `HandshakeAnswered` | Carriers | the transport reports the start of a carrier without a start event; the serializer's responses are sent | neither happens |
| `KeysHeard` | Carriers | every press is heard (`dtmf/mod.rs:27-28`) | the same key pressed again is silent unless another key came between (`:67-82`) |
| `TagsWhole` | AgentStages | no sentence is split inside a tag pair (`agent/text_filter.rs:177-179`) | a sentence end that waits when the tag opens is settled when it closes, at the last point, which may be inside (`:220-225`) |
| `ToolsConverted` | LlmConnectors | tools must go through the conversion (`llm/openai.rs:114-118`) | Azure, Anthropic and Bedrock pass them on as they are |
| `NoPartialCall`, `CharactersIntact` | LlmConnectors | – | a stream that breaks off gives its half-read calls; a character that a chunk boundary divides is replaced, in text and in the arguments of calls (`llm/openai.rs:285`, `anthropic.rs:248`, `google.rs:271`) |
| `DialogsOwned`, `UnregisterSticks` | SipAgent | dialogs cannot leak (`sip/agent.rs:27-28`); unregister cannot be undone | an answer without an RTP port leaves its dialog; a REGISTER under way binds again |
| `EndLast` | ParallelPipeline | a fast branch's End waits for the output of the slow one (`pipeline/parallel.rs:8-13`) | the output that was held back is flushed behind it (`:171-174`) |
| `WakeTrimmed` | AgentStages | "Trim to the wake phrase" (`agent/wakeword.rs:217`) | the offset is one of the lower-case text and cuts the original, where a letter may be longer or shorter (`:131`, `:148`, `:218`) |
| `LongTurnsTold` | AgentStages | "First-turn speech longer than this is treated as a recorded greeting" (`agent/voicemail.rs:86`) | the length is taken from the VAD's frames, which tell the length of a window (`audio/vad.rs:407`, `:424`) |
| `RecordingWhole` | AudioStages | the tail of each resampler is flushed "so no samples are dropped" (`audio/mod.rs:229-234`) | what the filter holds back stays in it, and nothing is flushed when no block was begun (`codec.rs:249-251`) |
| `TurnsInPlace` | AudioStages | turns "land where they actually happened" (`audio/mod.rs:77-81`) | the last samples of a turn are heard at the start of the next |
| `ResetForgets` | AudioStages | reset clears the filter (`audio/filter.rs:27-28`) | the buffers of the resamplers stay (`:245-247`) |
| `TailTranscribed`, `TurnStartsClean` | SttConnectors | the end of an utterance leaves no tail; a mute drops the half turn | true of some connectors only |
| `BilledHeard`, `OwnAudioAlways` | TtsConnectors | a failed synthesis bills nothing; an utterance's audio is its own | a connection that closes before the first audio is billed; what a provider sends on a shared socket after an error is read as the next utterance's, as nobody looks at the context of a message |
| `InputOwn`, `SentenceOwn` | Observers | a generation has its own input, a sentence is of one response | the next context may pass meanwhile; the rest of a cut response is put before the next |

Seen on the way and in no property: Gemini's retry counter is reset by an event, not by the reconnect its doc
names; a compactor that panics leaves the relay's in-flight flag set; Azure, AWS and Google STT stay on a dead
connection, and TTS connectors with one socket never reopen it or time out (AsyncAI does); Google's
tool call ids repeat with each response; two workflow calls in a response run the LLM twice; a SIP
registration granted for less than three quarters of the floor lapses before its renewal; an RTP packet of an older SSRC
flips the jitter buffer back; a graph with two edges of one name takes the first; the
minimum-words strategy counts interim transcripts again and again (`audio/strategy.rs:497-499`); the clear of a
WebRTC call leaves the frames already queued to the loop; the carrier socket's queue and the observers' list of seen frames have no bound.

## Proofs

Every theorem is about a specification of a module, for every value of the constants that its
ASSUME admits; TLC evaluates these assumptions on the passing runs. They say that bounds are natural numbers,
capacities and thresholds positive, sets of kinds within the kinds of the code. Those that say more are named below. Each proof has
one lemma per action (or group of actions that one argument covers), an initial case, and the argument that the
invariant implies the property.

| Module | Theorem | States |
|---|---|---|
| `ProcessorChain_proofs` | `TypeCorrect` | `Spec => []TypeOK` |
| | `EndArrives` | `Spec => []TerminalNotLost`, under `FlatAssumption` |
| | `BargeInSilences` | `Spec => []NoStaleText`, under `FlatAssumption` |
| | `HooksRun` | `Spec => []HooksInOrder`, without Stop |
| `PipelineTask_proofs` | `TaskImplementsChain` | `TaskSpec => ChainSpec`, the refinement |
| | `PumpTyped` | `TaskSpec => []TaskTypeOK` |
| | `TaskKeepsChain` | the four invariants of the chain, of every task, under `FlatAssumption` |
| | `TaskDrains` | `TaskSpec => []PumpDrains`, for `Consumers = {}` |
| `RealtimeCall_proofs` | `ReportTrue` | `Spec => []ReportWhole` |
| | `CallKeepsContract` | `Spec => Call!Spec`: the safety half of the refinement `ReportedOnce` |
| `CascadedParts_proofs` | `SpeakingWatched` | `NotifierSpec => []SpeakingIsWatched` |
| | `LockWatched` | `MuteSpec => []LockIsWatched` |
| | `HistoryKept` | `ContextSpec => []HistoryWhole` |
| `CallParts_proofs` | `ConversationFollowsBrain` | `TurnsSpec => []BrainFollowed` |
| | `SessionSurvives` | `SessionSpec => []SessionWhole` |
| | `PromptsWhole`, `DigestMonotone` | `RelaySpec => []PromptCarriesAll`, `RelaySpec => DigestForward` |
| | `PeerKeepsOrder` | `PeerSpec => []PeerOrdered` |
| `ServiceParts_proofs` | `RegistrationHonest` | `SipSpec => []RegisteredIsBound` |
| | `ServerSound` | `ServerSpec => []ServerKeeps` |
| | `BlockKeepsOrder` | `ParallelSpec => []BlockInOrder`, for `EarlyCancel = FALSE` |
| `Components_proofs` | `BargeInLeavesClean`, `FreshAudioHeard` | `DuplexSpec => []BargeInClean`, `DuplexSpec => FreshAudioPlays` |
| | `FloorIsEarned`, `NoiseIsNoEdge` | `TurnSpec => []TurnsEarned`, `TurnSpec => EdgesDebounced` |
| | `MediaStaysInOrder` | `RtpSpec => []MediaInOrder` |
| | `CarriersStayInAgreement` | `CarrierSpec => []CarriersAgree` |
| | `CallFollowsGraph` | `GraphSpec => []GraphFollowed` |

**The chain.** `FlatAssumption` says that no Stop is put in at the head, that no user
processor's upstream neighbour is a bridge, and that no bridge stands behind the VAD stage. Without it the finding on
nested pipelines is a counterexample. `HooksRun` needs only the first of the three: Stop runs the stop hook and goes on.

* `TerminalNotLost` is not inductive: it says nothing of a stage that has begun to leave. `EndInv` adds
  * `LeaveInv`: a stage with an exit in its continuation still has the terminal frame to push, or its
    successor has it; the Sink still has the stop hook that shows it to the task, or has shown it;
  * `OpsInv`: an exit is the last operation, and while a stage drains it holds only pushes and the drain,
    so a kept terminal frame that replaces the rest of the continuation drops no exit;
  * `DownInv`: no frame goes upstream through a bridge or out of the Sink, so no bridge ends on an upstream End;
  * `NoStop`: no `Stop` is under way. It shares the terminal arms but does not end a stage.
* `NoStaleText` speaks of the stages that have handled an interruption. `StaleInv` adds where
  interruptions and texts come from (`TurnInv`): behind the VAD stage an interruption arrives only from a stage that has handled it, a
  stage is never ahead of its predecessor, and what a stage has still to push is of its own turn; and
  `DrainInv`: a drain is on behalf of an interruption. So whatever a neighbour sends after a drain belongs to the new turn.
* `HooksInOrder` adds `StopInv` (the stop hook is in the continuation once, with the exit behind it, or
  has run, and then nothing of the kind is left) and `StartInv` (Start goes from stage to stage and leaves only started processors behind it;
  until the last has started, nothing else goes downstream but what the runtime handles itself).

**The task.** `TaskAssumption` says that what `run()` sends to the head is among the frames the chain is
specified for. The refinement needs `TaskInv`: a task that pumps has seen Start at the Sink, where the
last processor has started, or its token has fired and Cancel is all it will send (`Handshake`, from `StartInv`). Each step of the pump, the tap, the watchers and the join is
then a step of the chain or leaves it alone, and `TaskKeepsChain` follows from the theorems of the chain.

`TaskDrains` needs `Consumers = {}`: a processor that keeps texts does not let them come out. `DrainBeforeEnd` compares two counts at the
end, which no step keeps. `DrainHolds` says why they agree: there is a stream `st` of the normal frames that went to the head so
far, and a number `a[i]` of those that stage `i` has taken (`StreamInv`). The channel of a stage that runs holds the next ones of the
stream, the stage before it has got exactly as far as that channel reaches, less the one frame whose push it still owes (`Linked`), and the
texts at the tap are those among the first `a[Last]`. Barge-ins, errors and requests would break this; a step never takes one back, so a task that is
quiet at the end was quiet throughout. On the pump's side (`PumpInv`), wherever an End is on its way (in the queue, in the pump's hand, in the stream), as many texts
are ahead of it as embedders queued before the first End; system frames overtake, and are neither. A Sink that has shown the End has thus shown these texts.

**The realtime call.** `CallInv` follows each pushed line: it is in front of the brain, in front of the tail, reported, or was drained by a barge-in
(`LinesKept`). That it does not get lost at the end needs `StopsInOrder`: the stages stop one after the other, each when its End has come,
and nothing is behind the tail's End. Behind the brain's there may be what a reader that is not yet dropped has pushed, so a line counts as in front of the
brain only if it is ahead of the End (`LinesAhead`, `BrainLines`). Both are claimed only of a call that nobody has cancelled, as the code does. `Asked`
and `Disposed` (the brain leaves its disposition before it asks) give the contract.

**The watchdogs and the history.** `NotifierInv` counts generations: each has been paid for by a chunk or an interruption, so the
watchdog that is spawned next is a new one (`GenerationPaid`), and a watchdog that watches has not yet cleared the
flag. `MuteInv` adds that two beginners are never in `begin` at once and that only the watchdog of the current
generation is alive (`OneHolder`). `ContextInv` adds that the in-flight flag is set exactly while a summarizer is at work, and that what
it has copied stays the beginning of the history, which is why the splice forgets nothing.

**The cascaded turns.** `TurnsAssumption` says that the edges of the graph end in nodes of it, which
`Graph::parse` makes sure of (`flowcat-agent/src/graph.rs:185-192`). `TurnsLedger` follows a tool call from the bridge to the brain, back and into
the history: of any two calls the one further on has the smaller number, so no result is written twice and none is lost unless it
reads as an acknowledgement. `TurnsPrompt`: the last re-prompt on its way, or else the context, has the node's prompt. `Quiet`: while the caller has not spoken, nothing that runs is offered a tool.

**The realtime session.** `SessionInv`: the event queue holds what was decoded and not delivered, in order,
with at most one mark, at its end, and only when the socket is gone; and while the call goes on the retry counter is the number of drops since
the last event. **The relay**: the digest covers exactly the turns it says (`DigestWhole`), and the one detached job works on all turns up to a target
beyond the current digest (`JobsAhead`). **The WebRTC peer**: the announcement is the first event of the loop and has its place in the channel, whatever a full
channel drops behind it (`Announced`); frames carry times that the transport has left behind.

**SIP and server.** `WakesInTime`: the loop's sleep is shorter than what is left of a binding whose expiry is not under the floor. `ServerInv`: channel and stream
together are what was published (`Continues`), what an offer has set up is there from its registration
to its end and goes in the order of the drops (`SetUp`), and an offer that found no port is not tried again (`PortsInv`).

**The duplex barge-in.** `DuplexInv` says of each of the four queues which turns can be in it: none that an interruption its stage has
handled was to silence, and none that is newer than the stage before (`TurnsCurrent`); the interruptions in front of a stage are those it
has not handled, in order (`BargesInOrder`). For the history, runs pass the aggregator one after the other, each with its end behind it (`RunsInOrder`), and a run in
the context has nothing more to come (`CommittedRuns`). `FreshAudioHeard` is about steps and follows from the same invariant.

**Turn taking.** `VadInv`: the counters of the VAD are the lengths of the present run of windows, and the number of edges is odd while
the caller is speaking. `StopperInv`: a stop edge in the channel is behind its start edge (`StopsPaired`), and what a
strategy holds was gathered since the caller last began to speak (`Gathered`); `VerdictLags` is inductive with the rest. `TalkInv` is about floor and mute: until the
floor is taken, a starter that waits for words knows that the bot speaks.

**The parallel block.** `ParallelAssumption` says that there are finitely many branches, at least one, named unlike
the block's own channels. `EarlyCancel = FALSE` is the hypothesis of the run: the finding above shows that the property fails without it. `BlockInOrder`
says nothing of the copies of a lifecycle frame that are still under way, so `BlockInv` says where they are: for each branch
a place `pl` (not yet copied, in the branch's channel, about to be pushed, in front of `fan_in`, counted), the one kind `kk` that is
under way, and labels `ls`, `ln` that name the branch of each lifecycle frame in `fan_in`'s two queues. These are
no variables of the code; the invariant says that they exist (`SyncInv`), and each action's lemma says how they change. With them `fan_in`'s
counter is the number of branches that are counted (`DoneSet`), so it reaches the number of branches only
when each has pushed its own copy, and `EndInv` adds that who has passed a terminal frame has returned. `EmitInv` is about deduplication: what
went out, is flushed or is buffered is there once, marked as seen unless it is a lifecycle frame, and no lifecycle frame is buffered. What is behind an End
is the subject of `PushInv` (a branch has nothing to push when it has returned) and `DrainInv` (the queue of a `fan_in` whose branches have all returned ends with an End
unless a Cancel overtook it, so with the last End it is empty).

**RTP.** `RtpAssumption` bounds the packets by half the circle of sequence numbers. `seq_lt` orders no more than that, and the bound is on the whole call
although the code needs it only of the packets that are under way together. `RtpInv` says that there are a packet `w`, the last of
the first stream, and a packet `m`, such that everything released was sent no later than `m` and everything in the jitter
buffer later (`OrderInv`); as `m` was released with a full buffer behind it, more than `JITTER_DEPTH` packets from
`m` on have arrived (`JitterInv`), so whatever comes too late had been overtaken by more than the window (`LossInv`). Both
are claimed while the peer is no stranger and the old stream has not come back, as in the property. `TxInv` is the
other direction: the channel is closed only by the drop, which fires the token, and audio comes behind the preroll.

**The carriers.** `LineInv`: the serializer has codec and name of the stream from the start event on, which is ahead of
all audio (`StreamKnown`, `StartAhead`), and the messages in the inbox lead from the hold the serializer knows to that of the carrier
(`HoldChain`), so it is never late for the audio it looks at. A Telnyx stream is in G.711 here. `SendInv`: the outbox is the rest of what was
accepted, and what plays was written behind the last clear. `KeyInv`: the packets on their way are in the order of the presses,
and those of the press heard last are of the key that the receiver still holds (`RfcNew`, `BandNew`), which is why it does not report them again.

**The graph.** `GraphAssumption` says only that a graph is one: its nodes have names, its edges are a list. What holds of the edges comes from `parse` and,
for `ValidNeverDetached`, from the editor's check: a node of a kind that takes no incoming edge has an empty set of entering edges
(`Entering`), so no transition ends there. `WalkInv` says that the call is on a node of the graph and that its path stays in it. `ViewInv` says that what is on its way to the model
ends with the word that the call has moved to the node whose prompt the brain handed out last, so that with nothing on its way the model has that prompt. `VisitInv`
says of the names reported that each is there once (`Once`), that they are those of the path (`Covers`), and that a
name stands behind another only if every visit of it does (`InFirstOrder`), which determines the order of first visits without
computing it. `CallInv` says that the id of a call is in one place only: still in the frame, passed on to the brain, held
back by the MCP stage, or answered; and that it is no larger than the ids given so far, so the next frame's are new.

`SequenceFacts` has what the proofs need to know of ranges, appends, heads and tails, and a least-element form of induction over a set of
numbers, since an induction theorem with an operator for its parameter cannot be used here.

Model-checked only:

* liveness and its fairness, which the proof system does not handle: `EndStopsAll`, `TaskEnds`, the fair half of `ReportedOnce`, `SessionServed`,
  `CallAnswered`, `SpeakingSettles`, `CallerReheard`, `SummarizerFreed`, `SessionRecovers`, `CallWorkEnds` (of whose parts `DigestForward` is
  proved) and `ServiceWorkEnds`;
* `UtterancesOwn`, `CompletionsWhole`, `CallerTranscribed`, `StagesFaithful` and `ObserversAgree`, whose machines
  filter, flatten and fold sequences (the cut of a text, the tokens of a template, the lines of a stream, the sentences of a response): the provers know no facts about these, and
  what they compute for every input needs induction over data;
* `SamplesWhole`, which compares with the samples of a whole utterance, for the same reason.

`StepsSound` is the conjunction of what `FreshAudioHeard` and `NoiseIsNoEdge` state.

## Plan

In this order, the most important behaviour first:

1. *Done:* runtime, task, ParallelPipeline, barge-in, watchdogs, rolling context; `TypeCorrect` and `EndArrives`.
2. *Done:* the realtime call with its contract, sessions, context relay and finalization; the graph, the brains
   and the cascaded turns; SIP, RTP, carriers, WebRTC, server; turn taking, agent and audio stages;
   connectors; observers.
3. *Done:* the invariants of the chain, the refinement of the task, the report and the contract of the realtime call, the
   watchdogs and the history, the parts of a call, registration and server, the barge-in, turn taking, the parallel
   block, RTP, the carriers, the walk over the graph and the drain of a task as theorems. *Left:* `FailuresOwn` of TtsConnectors, which needs
   least of what is computed by filters and folds; then the other machines of `components`.
4. *Open ends*: the upstream collector of ParallelPipeline, composites nested in the user's pipeline, playout time
   at the end of a call, the first of which `fan_out`'s return on an upstream End waits for
   (`pipeline/parallel.rs:138`).

## Not modelled

What is computed on audio samples; the text of prompts, messages and SDP; authentication, voices and request parameters of
the connectors; the carriers' REST calls and webhooks; configuration, the service factory and the command line; LiveKit, Daily, local
audio and avatar transports, and Nova Sonic; the export of metrics and logs. Durations appear only as
"may expire": a join that waits out its timeout after Stop (`pipeline/task.rs:358`) and a goodbye that is cut off
because the runtime never hands End to `process_frame` (`pipeline/cascaded.rs:1307`, `pipeline/s2s.rs:1113`) are therefore
not told apart from their opposites. Panics are not modelled.
