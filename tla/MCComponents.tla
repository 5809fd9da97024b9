----------------------------- MODULE MCComponents ----------------------------
(***************************************************************************)
(* The components whose properties are all of safety, side by side: the    *)
(* duplex barge-in, the speech-to-text connectors, the conversation graph, *)
(* the two directions of RTP, the agent's stages, turn taking, the         *)
(* carriers, the observers and the audio stages. A behaviour is one of one *)
(* component; the others rest in one initial state.                        *)
(***************************************************************************)
EXTENDS DuplexBargeIn, SttConnectors, GraphBrain, RtpMedia, AgentStages, TurnTaking,
        Carriers, Observers, AudioStages

VARIABLE part  \* the component in play

ASSUME
  /\ SttAssumption /\ AgentAssumption
  /\ ObserverAssumption /\ AudioAssumption

-----------------------------------------------------------------------------
(* Graphs over a start node, two agent nodes, an end node and a global one: *)
(* with loops, with two edges of one name, with an edge to nowhere.         *)

MCEdges ==
  LET E(f, t, s) == [from |-> f, to |-> t, slug |-> s] IN
  <<E("s", "a", "go"), E("a", "b", "next"), E("a", "e", "next"), E("b", "a", "back"),
    E("b", "e", "next"), E("a", "s", "back"), E("b", "g", "go"), E("a", "x", "go")>>

MCGraph(kindOfB, prompted, picks, template) ==
  [kind |-> [s |-> "start", a |-> "agent", b |-> kindOfB, e |-> "end", g |-> "global"],
   name |-> [s |-> "S", a |-> "ask", b |-> "ask", e |-> "E", g |-> "G"],
   prompted |-> prompted, edges |-> [k \in DOMAIN picks |-> MCEdges[picks[k]]],
   template |-> template]

MCGraphSpecs ==
  {MCGraph("agent", {"a", "b"}, <<1, 2, 4, 5>>, <<Open, "name", Close>>),
   MCGraph("agent", {"s", "a", "b"}, <<1, 2, 3, 5>>, <<Open, Open, "name", Close, Close>>),
   MCGraph("agent", {"s", "a"}, <<1, 2, 6>>, <<Open, "city", Bar, "x", Close, Open, "name">>),
   MCGraph("start", {"a"}, <<1, 3, 4, 7>>,
           <<"hi", Close, Open, "current_time", Close, Open, "name", Close>>),
   MCGraph("agent", {"a"}, <<1, 2, 5, 7>>, <<"hi">>),
   MCGraph("agent", {"a"}, <<1, 8>>, <<"hi">>)}

\* IVR scripts: two steps, one step twice, and none; stuck after so many prompts, or never.
MCScripts ==
  {[steps |-> <<"menu", "account">>, stuckAfter |-> 2],
   [steps |-> <<"menu", "menu", "account">>, stuckAfter |-> 0],
   [steps |-> <<>>, stuckAfter |-> 1]}

\* What the LLM stage pushes: a sentence in two texts with its usage, a time to the first byte, a call.
MCAnswers ==
  LET K(k, n) == [kind |-> k, n |-> n] IN
  {<<K("LlmResponseStart", 0), K("LlmText", 1), K("LlmText", 2), K("LlmUsage", 0), K("LlmResponseEnd", 0)>>,
   <<K("LlmResponseStart", 0), K("Ttfb", 0), K("LlmResponseEnd", 0)>>,
   <<K("LlmResponseStart", 0), K("CallsStarted", 1), K("LlmResponseEnd", 0)>>}

MCPanels == {<<"rtvi", "fuse">>, <<"spans", "events">>, <<"metrics">>}

-----------------------------------------------------------------------------

Parts == {"duplex", "stt", "graph", "rx", "tx", "agent", "turn", "carrier", "observer", "audio"}

allVars == <<part, duplexVars, sttVars, graphVars, rtpVars, agentVars, turnVars, carrierVars,
             observerVars, audioVars>>

Init ==
  /\ part \in Parts
  /\ part # "stt" => stt = CHOOSE c \in Connectors : TRUE
  /\ part # "graph" =>
       /\ graph = CHOOSE g \in GraphSpecs : ParseOk(g) /\ Len(g.template) = 1
       /\ brainKind = "remote" /\ knownTools = {}
  /\ part # "agent" => agentStage = [kind |-> "wake"]
  /\ part # "turn" => turnCase = [stop |-> "timeout", start |-> "none", mute |-> "none"]
  /\ part # "carrier" => keypad = "rfc2833"
  /\ part # "observer" => panel = <<"metrics">>
  /\ part # "audio" => stage = "gate"
  /\ DuplexInit /\ SttInit /\ GraphInit /\ RtpInit /\ AgentInit /\ TurnInit /\ CarrierInit
  /\ ObserverInit /\ AudioInit

Next ==
  /\ UNCHANGED part
  /\ part # "duplex" => UNCHANGED duplexVars
  /\ part # "stt" => UNCHANGED sttVars
  /\ part # "graph" => UNCHANGED graphVars
  /\ part \notin {"rx", "tx"} => UNCHANGED rtpVars
  /\ part # "agent" => UNCHANGED agentVars
  /\ part # "turn" => UNCHANGED turnVars
  /\ part # "carrier" => UNCHANGED carrierVars
  /\ part # "observer" => UNCHANGED observerVars
  /\ part # "audio" => UNCHANGED audioVars
  /\ \/ part = "duplex" /\ DuplexNext
     \/ part = "stt" /\ SttNext
     \/ part = "graph" /\ GraphNext
     \/ part = "rx" /\ RxNext
     \/ part = "tx" /\ TxNext
     \/ part = "agent" /\ AgentNext
     \/ part = "turn" /\ TurnNext
     \/ part = "carrier" /\ CarrierNext
     \/ part = "observer" /\ ObserverNext
     \/ part = "audio" /\ AudioNext

Spec == Init /\ [][Next]_allVars

-----------------------------------------------------------------------------
\* The properties of a component, of its own behaviours; BargeInClean is DuplexBargeIn's,
\* CarriersAgree Carriers', GraphFollowed GraphBrain's, MediaInOrder RtpMedia's and
\* TurnsEarned TurnTaking's.

\* What goes on as the caller's words was said by the caller, once and in order, over any
\* number of dead connections.
CallerTranscribed == part = "stt" =>
  NoEcho /\ WordsOnce /\ OneStrike

\* Each of the agent's stages keeps its promise for any input in pieces of any size, and a
\* prompt has the values of its variables with nothing of them read as a template.
StagesFaithful ==
  /\ part = "agent" =>
       TextKept /\ NumbersWhole /\ WakeGated /\ ClassifiedOnce /\ ScriptPlayed /\ CallsRunOnce
  /\ part = "graph" => ValuesLiteral

\* Observers that meet a frame at every stage, from tasks that run at the same time, tell of
\* it as if they had met it once.
ObserversAgree == part = "observer" =>
  ToldOnceInOrder /\ SentencesAddUp /\ GenerationOwn /\ CountsAgree

\* Each of the audio stages keeps the samples it must keep, in order, over chunks of any size
\* and any switching.
SamplesWhole == part = "audio" =>
  UtterancesWhole /\ FilterWhole /\ MusicContinues /\ RecordingAligned

\* What no single step may do: the sink drop a chunk of the new reply as stale, and the VAD
\* call an edge on fewer windows than it was told to wait for.
StepsSound == FreshAudioPlays /\ EdgesDebounced
=============================================================================
