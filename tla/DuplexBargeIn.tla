--------------------------- MODULE DuplexBargeIn ---------------------------
(***************************************************************************)
(* Barge-in in the duplex cascaded call: the VAD stage bumps the shared    *)
(* generation, wakes the reactor and broadcasts Interruption; the reactor  *)
(* flushes the carrier out of band and arms the StaleAudioLatch; the frame *)
(* path LLM -> AssistantContextAggregator -> TTS -> sink is interrupted    *)
(* stage by stage, and the sink clears the latch.                          *)
(*                                                                         *)
(* A frame carries the turn it belongs to: the number of interruptions     *)
(* that had passed the user aggregator when its LlmContext was emitted.    *)
(* Queues are as long as they need to be here; ProcessorChain has their    *)
(* capacities and the drain in full detail.                                *)
(***************************************************************************)
EXTENDS Integers, Sequences, SequencesExt

CONSTANTS
  TextChunks,     \* LlmText frames of a completion
  Audios,     \* OutputAudio frames of an utterance
  MaxUserTurns,   \* bound: user turns
  MaxBargeIns      \* bound: barge-ins

ASSUME DuplexAssumption ==
  /\ TextChunks \in Nat \ {0} /\ Audios \in Nat \ {0}
  /\ MaxUserTurns \in Nat /\ MaxBargeIns \in Nat

DuplexStages == {"llm", "agg", "tts", "sink"}
After == [llm |-> "agg", agg |-> "tts", tts |-> "sink"]
Idle == [run |-> 0, turn |-> 0, gen |-> 0, left |-> <<>>]
None == [kind |-> "none", run |-> 0, turn |-> 0]

VARIABLES
  gen,        \* interrupt_flag: the barge-in generation
  bargesPassed, \* interruptions that have passed the user aggregator
  barges,     \* barges[s]: interruptions in the system channel of stage s
  queue,      \* queue[s]: its normal channel
  seen,       \* seen[s]: interruptions that stage s has handled
  runs,       \* LLM runs so far
  llm,        \* the completion that LlmProcessor::run is streaming
  reply,      \* the aggregator's buffer
  context,    \* assistant messages of the rolling context: the run of each
  speech,     \* the utterance that TtsProcessor::run has still to push
  sink,       \* what the sink is doing: the chunk it is sending, or a flush
  voiced,     \* the notifier has a BotStartedSpeaking to deliver
  botSpeaking,  \* bot_speaking of the VAD stage
  permit,     \* the permit stored in interrupt_notify
  reactor,    \* the reactor: idle, or about to flush
  armed, cleared,  \* the latch
  flushed,    \* the last generation for which the reactor flushed the carrier
  dead,       \* transport_dead
  carrierQueue \* turns of the chunks that the carrier still has to play

detectVars == <<gen, bargesPassed, permit, botSpeaking>>
pathVars == <<barges, queue, seen>>
llmVars == <<runs, llm>>
aggVars == <<reply, context>>
sinkVars == <<sink, cleared, dead>>
reactorVars == <<reactor, armed, flushed>>
duplexVars == <<detectVars, pathVars, llmVars, aggVars, speech, sinkVars, reactorVars, voiced, carrierQueue>>

DuplexInit ==
  /\ gen = 0 /\ bargesPassed = 0 /\ permit = FALSE /\ voiced = FALSE /\ botSpeaking = FALSE
  /\ barges = [s \in DuplexStages |-> <<>>]
  /\ queue = [s \in DuplexStages |-> <<>>]
  /\ seen = [s \in DuplexStages |-> 0]
  /\ runs = 0 /\ llm = Idle
  /\ reply = <<>> /\ context = <<>>
  /\ speech = <<>>
  /\ sink = None /\ dead = FALSE
  /\ reactor = "idle" /\ armed = 0 /\ cleared = 0 /\ flushed = 0
  /\ carrierQueue = <<>>

Msg(kind, run, turn) == [kind |-> kind, run |-> run, turn |-> turn]
Larger(a, b) == IF a < b THEN b ELSE a
Put(s, m) == queue' = [queue EXCEPT ![s] = Append(@, m)]

\* A stage takes from its normal channel only when no interruption waits.
Next1(s, kind) == barges[s] = <<>> /\ queue[s] # <<>> /\ Head(queue[s]).kind = kind

\* drain_on_interruption, the hook, and the interruption goes on.
Interrupted(s) ==
  /\ barges[s] # <<>>
  /\ seen' = [seen EXCEPT ![s] = Head(barges[s])]
  /\ queue' = [queue EXCEPT ![s] = <<>>]
  /\ barges' = [t \in DuplexStages |->
       IF t = s THEN Tail(barges[t])
       ELSE IF s # "sink" /\ t = After[s] THEN Append(barges[t], Head(barges[s]))
       ELSE barges[t]]

-----------------------------------------------------------------------------
(* VAD and user aggregator.                                                *)

\* Edges of BotSpeakingNotifier, delivered out of band, arrive when they may.
VadStarted ==
  /\ voiced /\ voiced' = FALSE /\ botSpeaking' = TRUE
  /\ UNCHANGED <<gen, bargesPassed, permit, pathVars, llmVars, aggVars, speech, sinkVars,
                 reactorVars, carrierQueue>>

VadStopped ==
  /\ botSpeaking /\ botSpeaking' = FALSE
  /\ UNCHANGED <<gen, bargesPassed, permit, pathVars, llmVars, aggVars, speech, sinkVars,
                 reactorVars, voiced, carrierQueue>>

\* A rising edge while the bot speaks: bump the generation, wake the reactor, and
\* broadcast. The Interruption has to pass the stages up to the LLM first.
BargeIn ==
  /\ botSpeaking /\ gen < MaxBargeIns
  /\ gen' = gen + 1
  /\ permit' = TRUE
  /\ UNCHANGED <<bargesPassed, botSpeaking, pathVars, llmVars, aggVars, speech, sinkVars,
                 reactorVars, voiced, carrierQueue>>

InterruptionArrives ==
  /\ bargesPassed < gen /\ bargesPassed' = bargesPassed + 1
  /\ barges' = [barges EXCEPT !["llm"] = Append(@, bargesPassed')]
  /\ UNCHANGED <<gen, permit, botSpeaking, queue, seen, llmVars, aggVars, speech, sinkVars,
                 reactorVars, voiced, carrierQueue>>

\* A final Transcription: the user aggregator emits the LlmContext of the turn.
UserTurn ==
  /\ runs < MaxUserTurns /\ runs' = runs + 1
  /\ Put("llm", Msg("LlmContext", runs', bargesPassed))
  /\ UNCHANGED <<detectVars, barges, seen, llm, aggVars, speech, sinkVars, reactorVars, voiced,
                 carrierQueue>>

-----------------------------------------------------------------------------
(* LlmProcessor.                                                           *)

Response(m) ==
  <<Msg("LlmResponseStart", m.run, m.turn)>>
    \o [k \in 1 .. TextChunks |-> Msg("LlmText", m.run, m.turn)]
    \o <<Msg("LlmResponseEnd", m.run, m.turn)>>

\* run_llm opens the stream, or fails and the turn has no reply.
LlmBegin ==
  /\ llm = Idle /\ Next1("llm", "LlmContext")
  /\ LET m == Head(queue["llm"]) IN
       llm' \in {[run |-> m.run, turn |-> m.turn, gen |-> gen, left |-> Response(m)], Idle}
  /\ queue' = [queue EXCEPT !["llm"] = Tail(@)]
  /\ UNCHANGED <<detectVars, barges, seen, runs, aggVars, speech, sinkVars, reactorVars, voiced,
                 carrierQueue>>

\* The next frame of the stream, if the generation has not moved; otherwise the
\* stream is dropped and the response framing closed.
LlmStream ==
  /\ llm # Idle
  /\ IF llm.gen = gen
     THEN /\ Put("agg", Head(llm.left))
          /\ llm' = IF Len(llm.left) = 1 THEN Idle ELSE [llm EXCEPT !.left = Tail(@)]
     ELSE /\ Put("agg", Msg("LlmResponseEnd", llm.run, llm.turn))
          /\ llm' = Idle
  /\ UNCHANGED <<detectVars, barges, seen, runs, aggVars, speech, sinkVars, reactorVars, voiced,
                 carrierQueue>>

LlmInterrupted ==
  /\ llm = Idle /\ Interrupted("llm")
  /\ UNCHANGED <<detectVars, llmVars, aggVars, speech, sinkVars, reactorVars, voiced, carrierQueue>>

-----------------------------------------------------------------------------
(* AssistantContextAggregator.                                             *)

AggStart ==
  /\ Next1("agg", "LlmResponseStart")
  /\ queue' = [queue EXCEPT !["agg"] = Tail(@)]
  /\ reply' = <<>>
  /\ UNCHANGED <<detectVars, barges, seen, llmVars, context, speech, sinkVars, reactorVars, voiced,
                 carrierQueue>>

AggText ==
  /\ Next1("agg", "LlmText")
  /\ queue' = [queue EXCEPT !["agg"] = Tail(@)]
  /\ reply' = Append(reply, Head(queue["agg"]))
  /\ UNCHANGED <<detectVars, barges, seen, llmVars, context, speech, sinkVars, reactorVars, voiced,
                 carrierQueue>>

Commit == context' = IF reply = <<>> THEN context ELSE Append(context, reply[1].run)

\* The reply goes into the context and, unless it is empty, to the TTS stage.
AggEnd ==
  /\ Next1("agg", "LlmResponseEnd")
  /\ LET speak == IF reply = <<>> THEN <<>>
                  ELSE <<Msg("TtsSpeak", reply[1].run, reply[1].turn)>> IN
       queue' = [queue EXCEPT !["agg"] = Tail(@), !["tts"] = @ \o speak]
  /\ Commit /\ reply' = <<>>
  /\ UNCHANGED <<detectVars, barges, seen, llmVars, speech, sinkVars, reactorVars, voiced, carrierQueue>>

\* on_interruption commits what has streamed so far.
AggInterrupted ==
  /\ Interrupted("agg")
  /\ Commit /\ reply' = <<>>
  /\ UNCHANGED <<detectVars, llmVars, speech, sinkVars, reactorVars, voiced, carrierQueue>>

-----------------------------------------------------------------------------
(* TtsProcessor.                                                           *)

\* run_tts returns the utterance, or fails.
TtsBegin ==
  /\ speech = <<>> /\ Next1("tts", "TtsSpeak")
  /\ LET m == Head(queue["tts"]) IN
       speech' \in {[k \in 1 .. Audios |-> Msg("OutputAudio", m.run, m.turn)], <<>>}
  /\ queue' = [queue EXCEPT !["tts"] = Tail(@)]
  /\ UNCHANGED <<detectVars, barges, seen, llmVars, aggVars, sinkVars, reactorVars, voiced,
                 carrierQueue>>

\* run_tts has returned all chunks; an interruption waits until they are pushed.
TtsPush ==
  /\ speech # <<>>
  /\ Put("sink", Head(speech)) /\ speech' = Tail(speech)
  /\ UNCHANGED <<detectVars, barges, seen, llmVars, aggVars, sinkVars, reactorVars, voiced,
                 carrierQueue>>

\* Mutant of TtsInterrupted: the interruption overtakes the chunks of the synthesis.
TtsInterruptedEarly ==
  /\ Interrupted("tts")
  /\ UNCHANGED <<detectVars, llmVars, aggVars, speech, sinkVars, reactorVars, voiced, carrierQueue>>

TtsInterrupted ==
  /\ speech = <<>> /\ Interrupted("tts")
  /\ UNCHANGED <<detectVars, llmVars, aggVars, speech, sinkVars, reactorVars, voiced, carrierQueue>>

-----------------------------------------------------------------------------
(* The sink and the latch.                                                 *)

Stale == armed > cleared

\* Mutant of SinkTake: a latch that is even counts as stale.
SinkTakeOffByOne ==
  /\ sink = None /\ Next1("sink", "OutputAudio")
  /\ sink' = IF dead \/ armed >= cleared THEN None ELSE Head(queue["sink"])
  /\ queue' = [queue EXCEPT !["sink"] = Tail(@)]
  /\ UNCHANGED <<detectVars, barges, seen, llmVars, aggVars, speech, cleared, dead, reactorVars,
                 voiced, carrierQueue>>

\* A chunk: dropped while the latch is stale or the transport dead, otherwise on its way to the carrier.
SinkTake ==
  /\ sink = None /\ Next1("sink", "OutputAudio")
  /\ sink' = IF dead \/ Stale THEN None ELSE Head(queue["sink"])
  /\ queue' = [queue EXCEPT !["sink"] = Tail(@)]
  /\ UNCHANGED <<detectVars, barges, seen, llmVars, aggVars, speech, cleared, dead, reactorVars,
                 voiced, carrierQueue>>

\* send_audio gets the transport's lock; when it fails, no more audio is sent.
SinkSend ==
  /\ sink.kind = "OutputAudio" /\ sink' = None
  /\ \/ carrierQueue' = Append(carrierQueue, sink.turn) /\ voiced' = TRUE /\ UNCHANGED dead
     \/ dead' = TRUE /\ UNCHANGED <<carrierQueue, voiced>>
  /\ UNCHANGED <<detectVars, pathVars, llmVars, aggVars, speech, cleared, reactorVars>>

\* on_interruption: clear the latch, then flush the carrier.
SinkInterrupted ==
  /\ sink = None /\ Interrupted("sink")
  /\ cleared' = Larger(cleared, gen)
  /\ sink' = Msg("flush", 0, 0)
  /\ UNCHANGED <<detectVars, llmVars, aggVars, speech, dead, reactorVars, voiced, carrierQueue>>

\* send_clear: what the carrier has buffered is dropped, unless the transport fails.
SinkFlush ==
  /\ sink.kind = "flush" /\ sink' = None
  /\ \/ carrierQueue' = <<>> /\ UNCHANGED dead
     \/ dead' = TRUE /\ UNCHANGED carrierQueue
  /\ UNCHANGED <<detectVars, pathVars, llmVars, aggVars, speech, cleared, reactorVars, voiced>>

-----------------------------------------------------------------------------
(* The reactor and the carrier.                                            *)

\* notified(): a stored permit is enough, later barge-ins share it.
ReactorArm ==
  /\ reactor = "idle" /\ permit
  /\ permit' = FALSE /\ reactor' = "flush"
  /\ armed' = Larger(armed, gen)
  /\ UNCHANGED <<gen, bargesPassed, botSpeaking, pathVars, llmVars, aggVars, speech, sinkVars,
                 flushed, voiced, carrierQueue>>

\* A failure is only logged here.
ReactorFlush ==
  /\ reactor = "flush" /\ reactor' = "idle"
  /\ \/ carrierQueue' = <<>> /\ flushed' = armed
     \/ UNCHANGED <<carrierQueue, flushed>>
  /\ UNCHANGED <<detectVars, pathVars, llmVars, aggVars, speech, sinkVars, armed, voiced>>

\* The carrier plays a chunk to the caller.
Plays ==
  /\ carrierQueue # <<>> /\ carrierQueue' = Tail(carrierQueue)
  /\ UNCHANGED <<detectVars, pathVars, llmVars, aggVars, speech, sinkVars, reactorVars, voiced>>

DuplexNext ==
  \/ VadStarted \/ VadStopped \/ BargeIn \/ InterruptionArrives \/ UserTurn
  \/ LlmBegin \/ LlmStream \/ LlmInterrupted
  \/ AggStart \/ AggText \/ AggEnd \/ AggInterrupted
  \/ TtsBegin \/ TtsPush \/ TtsInterrupted
  \/ SinkTake \/ SinkSend \/ SinkInterrupted \/ SinkFlush
  \/ ReactorArm \/ ReactorFlush \/ Plays

DuplexSpec == DuplexInit /\ [][DuplexNext]_duplexVars

-----------------------------------------------------------------------------
(* Properties.                                                             *)

Turns(s) == {m.turn : m \in ToSet(s)}

\* A stage has handled no interruption that has not reached the one before it, and
\* the latch is never stamped with a generation that has not been raised.
StampsInOrder ==
  /\ seen["sink"] <= seen["tts"] /\ seen["tts"] <= seen["agg"]
  /\ seen["agg"] <= seen["llm"] /\ seen["llm"] <= bargesPassed /\ bargesPassed <= gen
  /\ armed <= gen /\ cleared <= gen /\ flushed <= armed

\* Once the sink has handled an interruption, nothing of an earlier turn is played
\* or can still come: not from its queue, its hands or the buffer of a live carrier.
SilencedAtSink ==
  /\ \A m \in ToSet(queue["sink"]) : m.turn >= seen["sink"]
  /\ sink.kind = "OutputAudio" => sink.turn >= seen["sink"]
  /\ sink.kind # "flush" /\ ~ dead => \A t \in ToSet(carrierQueue) : t >= seen["sink"]

\* When every barge-in has reached the sink, the latch is open, in whichever order
\* the reactor and the sink were scheduled: it cannot mute the rest of the call.
LatchOpens == seen["sink"] = gen => ~ Stale

\* The latch drops nothing of the turn that follows the last barge-in.
FreshAudioPlays ==
  [][\A m \in ToSet(queue["sink"]) :
       Next1("sink", "OutputAudio") /\ m = Head(queue["sink"]) /\ m.turn = gen
       /\ ~ dead /\ sink = None /\ queue'["sink"] = Tail(queue["sink"]) => sink' = m]_duplexVars

\* A reply, whole or interrupted, goes into the context once.
CommittedOnce == \A j, k \in DOMAIN context : context[j] = context[k] => j = k

\* Every final transcription runs the LLM (the comment of UserContextAggregator: "the
\* LLM fires exactly once per turn"): a turn that the caller began after a barge-in
\* is not dropped with what the barge-in interrupted.
TurnRuns ==
  [][seen'["llm"] # seen["llm"] =>
       \A m \in ToSet(queue["llm"]) :
         m.turn >= seen'["llm"] => m \in ToSet(queue'["llm"])]_duplexVars

\* A barge-in leaves the call clean: the old reply is silent and in the history once, and the
\* latch between the reactor and the sink is open for the new one.
BargeInClean == StampsInOrder /\ SilencedAtSink /\ LatchOpens /\ CommittedOnce
=============================================================================
