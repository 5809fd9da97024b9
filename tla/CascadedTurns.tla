--------------------------- MODULE CascadedTurns ---------------------------
(***************************************************************************)
(* Turns of the assembled cascaded call: the greeting, the LLM, the tool   *)
(* bridge, the brain with its session relay, and the assistant aggregator, *)
(* around one rolling context. Tool calls, re-prompts and results travel   *)
(* on the system channels; contexts and replies on the normal ones, which  *)
(* a barge-in drains. A reply is one frame here (DuplexBargeIn has its     *)
(* chunks), and a step of the brain includes the request it awaits: only   *)
(* the brain itself sees the moment between.                               *)
(*                                                                         *)
(* External: the model, which calls tools it was offered or makes one up,  *)
(* and the session source, whose tools may answer with a status of theirs. *)
(* A call's id is its own (Gemini's connector numbers them per response).  *)
(***************************************************************************)
EXTENDS Integers, Sequences, SequencesExt, FiniteSets

CONSTANTS
  StartNode,    \* the brain's first node
  Edges,        \* node -> [transition name -> node]
  NodeTools,    \* node -> names of its workflow tools
  Statuses,     \* what a workflow tool's result has in "status", or "none"
  MaxUsers,     \* bound: user turns
  MaxToolCalls, \* bound: tool calls
  MaxBarges     \* bound: barge-ins

ASSUME TurnsAssumption ==
  /\ StartNode \in DOMAIN Edges /\ DOMAIN NodeTools = DOMAIN Edges
  /\ \A n \in DOMAIN Edges : \A t \in DOMAIN Edges[n] : Edges[n][t] \in DOMAIN Edges
  /\ MaxUsers \in Nat /\ MaxToolCalls \in Nat /\ MaxBarges \in Nat

VARIABLES
  duplex,    \* built by build_cascaded_call_duplex: barge-ins happen
  kickedOff, \* kicked_off
  promptNode,   \* the node whose prompt the rolling context has
  promptTools,  \* its tools
  history,   \* its messages: [role, id]
  llmQueue,  \* normal channel of the LLM: snapshots [tools, history]
  bridgeSys, \* system channel of the tool bridge
  brainSys,  \* system channel of the brain
  aggQueue,  \* normal channel of the assistant aggregator: replies
  aggBarges, \* its system channel: interruptions
  brainNode, \* where the brain is
  brainTools,\* mcp_names: the workflow tools it relays
  pendingCalls, \* pending of the bridge
  ending,    \* "no", "asked" by the brain at the pipeline's head, or "down" as far as the LLM
  users, called, barged, \* user turns, tool calls and barge-ins so far
  relayed,   \* id -> status of the calls that were relayed
  read       \* tool messages that some run of the model has had in its context

ctxVars == <<promptNode, promptTools, history>>
brainVars == <<brainNode, brainTools, ending, relayed>>
turnsVars == <<duplex, kickedOff, ctxVars, llmQueue, bridgeSys, brainSys, aggQueue, aggBarges,
               brainVars, pendingCalls, users, called, barged, read>>

EndTool == "endCall"
Acks == {"moved", "stay", "ended"}
ToolNames(node, mcp) == DOMAIN Edges[node] \cup {EndTool} \cup mcp

-----------------------------------------------------------------------------
(* The rolling context.                                                    *)

Snapshot(tools, messages) == [tools |-> tools, history |-> messages]
Run(s) == llmQueue' = Append(llmQueue, s)

\* CascadedKickoffProcessor: the first ClientConnected runs the model without tools.
Kickoff ==
  /\ ~ kickedOff /\ kickedOff' = TRUE
  /\ Run(Snapshot({}, history))
  /\ UNCHANGED <<duplex, ctxVars, bridgeSys, brainSys, aggQueue, aggBarges, brainVars, pendingCalls,
                 users, called, barged, read>>

\* UserContextAggregator, on a final transcription.
UserTurn ==
  /\ users < MaxUsers /\ users' = users + 1 /\ ending # "down"
  /\ history' = Append(history, [role |-> "user", id |-> 0])
  /\ Run(Snapshot(promptTools, history'))
  /\ UNCHANGED <<duplex, kickedOff, promptNode, promptTools, bridgeSys, brainSys, aggQueue, aggBarges,
                 brainVars, pendingCalls, called, barged, read>>

-----------------------------------------------------------------------------
(* The LLM.                                                                *)

ToolsRead(messages) == {messages[k].id : k \in {j \in DOMAIN messages : messages[j].role = "tool"}}

\* LlmProcessor::run over the next context: a reply, calls, both, or an error and nothing.
\* The calls overtake the reply, which is on the normal channel.
LlmRun ==
  /\ ending # "down" /\ llmQueue # <<>> /\ llmQueue' = Tail(llmQueue)
  /\ LET s == Head(llmQueue)
         offered == IF s.tools = {} THEN {} ELSE s.tools \cup {"ghost"} IN
     /\ read' = read \cup ToolsRead(s.history)
     /\ \E speaks \in BOOLEAN :
          aggQueue' = IF speaks THEN Append(aggQueue, "reply") ELSE aggQueue
     /\ \E n \in 0 .. 2 : \E names \in [1 .. n -> offered] :
          /\ called + n <= MaxToolCalls /\ called' = called + n
          /\ bridgeSys' = IF n = 0 THEN bridgeSys
               ELSE Append(bridgeSys, [kind |-> "calls",
                      calls |-> [k \in 1 .. n |-> [id |-> called + k, name |-> names[k]]]])
  /\ UNCHANGED <<duplex, kickedOff, ctxVars, brainSys, aggBarges, brainVars, pendingCalls, users,
                 barged>>

\* The End that the brain asked for has come down to the LLM, which runs no more.
EndArrives ==
  /\ ending = "asked" /\ ending' = "down"
  /\ UNCHANGED <<duplex, kickedOff, ctxVars, llmQueue, bridgeSys, brainSys, aggQueue, aggBarges,
                 brainNode, brainTools, relayed, pendingCalls, users, called, barged, read>>

\* Duplex: a barge-in reaches the LLM, which drops the contexts that wait.
LlmInterrupted ==
  /\ duplex /\ ending # "down" /\ barged < MaxBarges /\ barged' = barged + 1
  /\ llmQueue' = <<>>
  /\ bridgeSys' = Append(bridgeSys, [kind |-> "interruption"])
  /\ UNCHANGED <<duplex, kickedOff, ctxVars, brainSys, aggQueue, aggBarges, brainVars, pendingCalls,
                 users, called, read>>

-----------------------------------------------------------------------------
(* CascadedToolBridge.                                                     *)

BridgeTakes(kind) ==
  /\ bridgeSys # <<>> /\ Head(bridgeSys).kind = kind /\ bridgeSys' = Tail(bridgeSys)
  /\ UNCHANGED <<duplex, kickedOff, aggQueue, aggBarges, brainVars, users, called, barged, read>>

\* FunctionCallsStarted: each call is noted and passed to the brain.
BridgeCalls ==
  /\ BridgeTakes("calls")
  /\ LET calls == Head(bridgeSys).calls IN
     /\ pendingCalls' = pendingCalls \cup {calls[k].id : k \in DOMAIN calls}
     /\ brainSys' = brainSys
          \o [k \in DOMAIN calls |-> [kind |-> "call", id |-> calls[k].id, name |-> calls[k].name]]
  /\ UNCHANGED <<ctxVars, llmQueue>>

\* Reprompt: the context is the new node's, and the model is run for it.
BridgeReprompt ==
  /\ BridgeTakes("reprompt")
  /\ promptNode' = Head(bridgeSys).node /\ promptTools' = Head(bridgeSys).tools
  /\ Run(Snapshot(promptTools', history))
  /\ UNCHANGED <<history, brainSys, pendingCalls>>

IsTransitionAck(status) == status \in Acks

ResultRun == Run(Snapshot(promptTools, history'))

\* ToolResult: an acknowledgement forgets the call; a result goes into the history with
\* its call, and the model is run again.
BridgeResult ==
  /\ BridgeTakes("result")
  /\ LET r == Head(bridgeSys) IN
     /\ pendingCalls' = pendingCalls \ {r.id}
     /\ IF IsTransitionAck(r.status) THEN UNCHANGED <<history, llmQueue>>
        ELSE /\ history' = history
                  \o (IF r.id \in pendingCalls THEN <<[role |-> "call", id |-> r.id]>> ELSE <<>>)
                  \o <<[role |-> "tool", id |-> r.id]>>
             /\ ResultRun
  /\ UNCHANGED <<promptNode, promptTools, brainSys>>

BridgeInterrupted ==
  /\ BridgeTakes("interruption")
  /\ brainSys' = Append(brainSys, [kind |-> "interruption"])
  /\ UNCHANGED <<ctxVars, llmQueue, pendingCalls>>

-----------------------------------------------------------------------------
(* BrainProcessor.                                                         *)

\* SessionToolRelay::relay and mcp_result_struct: an object is passed as it is, with the
\* status it may have; text, and the text that stands for a failure, are wrapped.
RelayStatuses == Statuses \cup {"none"}

\* resolve_tools: the new node's workflow tools, or none when the session source fails.
ResolvedTools(node) == {{}, NodeTools[node]}

BrainTakes(kind) ==
  /\ brainSys # <<>> /\ Head(brainSys).kind = kind /\ brainSys' = Tail(brainSys)
  /\ UNCHANGED <<duplex, kickedOff, ctxVars, llmQueue, aggQueue, pendingCalls, users, called,
                 barged, read>>

Result(id, status) == [kind |-> "result", id |-> id, status |-> status]

\* A workflow tool of the current node is relayed.
BrainRelays ==
  /\ BrainTakes("call") /\ Head(brainSys).name \in brainTools
  /\ \E status \in RelayStatuses :
       /\ relayed' = [id \in DOMAIN relayed \cup {Head(brainSys).id} |->
                        IF id = Head(brainSys).id THEN status ELSE relayed[id]]
       /\ bridgeSys' = Append(bridgeSys, Result(Head(brainSys).id, status))
  /\ UNCHANGED <<brainNode, brainTools, ending, aggBarges>>

\* Mutant of BrainMoves: the model is told only that the call has moved.
BrainMovesQuietly ==
  /\ BrainTakes("call") /\ Head(brainSys).name \notin brainTools
  /\ Head(brainSys).name \in DOMAIN Edges[brainNode]
  /\ brainNode' = Edges[brainNode][Head(brainSys).name]
  /\ \E mcp \in ResolvedTools(brainNode') : brainTools' = mcp
  /\ bridgeSys' = Append(bridgeSys, Result(Head(brainSys).id, "moved"))
  /\ UNCHANGED <<ending, relayed, aggBarges>>

\* A transition: the brain has moved, the new node's tools are resolved, and the re-prompt
\* goes before the acknowledgement.
BrainMoves ==
  /\ BrainTakes("call") /\ Head(brainSys).name \notin brainTools
  /\ Head(brainSys).name \in DOMAIN Edges[brainNode]
  /\ brainNode' = Edges[brainNode][Head(brainSys).name]
  /\ \E mcp \in ResolvedTools(brainNode') :
       /\ brainTools' = mcp
       /\ bridgeSys' = bridgeSys \o
            <<[kind |-> "reprompt", node |-> brainNode', tools |-> ToolNames(brainNode', mcp)],
              Result(Head(brainSys).id, "moved")>>
  /\ UNCHANGED <<ending, relayed, aggBarges>>

\* The end tool, or a name that is neither.
BrainStaysOrEnds ==
  /\ BrainTakes("call") /\ Head(brainSys).name \notin brainTools \cup DOMAIN Edges[brainNode]
  /\ LET ends == Head(brainSys).name = EndTool IN
     /\ ending' = IF ends /\ ending = "no" THEN "asked" ELSE ending
     /\ bridgeSys' = Append(bridgeSys, Result(Head(brainSys).id, IF ends THEN "ended" ELSE "stay"))
  /\ UNCHANGED <<brainNode, brainTools, relayed, aggBarges>>

BrainInterrupted ==
  /\ BrainTakes("interruption")
  /\ aggBarges' = aggBarges + 1
  /\ UNCHANGED <<bridgeSys, brainVars>>

-----------------------------------------------------------------------------
(* AssistantContextAggregator.                                             *)

Committed == history' = Append(history, [role |-> "assistant", id |-> 0])

AggReply ==
  /\ aggBarges = 0 /\ aggQueue # <<>> /\ aggQueue' = Tail(aggQueue)
  /\ Committed
  /\ UNCHANGED <<duplex, kickedOff, promptNode, promptTools, llmQueue, bridgeSys, brainSys, aggBarges,
                 brainVars, pendingCalls, users, called, barged, read>>

\* The replies that wait are dropped; what had streamed of one so far is committed.
AggInterrupted ==
  /\ aggBarges > 0 /\ aggBarges' = aggBarges - 1
  /\ aggQueue' = <<>>
  /\ UNCHANGED history \/ (aggQueue # <<>> /\ Committed)
  /\ UNCHANGED <<duplex, kickedOff, promptNode, promptTools, llmQueue, bridgeSys, brainSys, brainVars,
                 pendingCalls, users, called, barged, read>>

-----------------------------------------------------------------------------
(* The builders: the start node's tools are resolved and the context is seeded. *)

Seeded ==
  /\ brainNode = StartNode /\ brainTools \in ResolvedTools(StartNode)
  /\ promptNode = StartNode /\ promptTools = ToolNames(StartNode, brainTools) /\ history = <<>>
  /\ llmQueue = <<>> /\ bridgeSys = <<>> /\ brainSys = <<>> /\ aggQueue = <<>> /\ aggBarges = 0
  /\ ending = "no" /\ relayed = <<>> /\ pendingCalls = {} /\ kickedOff = FALSE
  /\ users = 0 /\ called = 0 /\ barged = 0 /\ read = {}

\* Half duplex: the caller is not heard while the bot speaks. Duplex: a VAD interrupts.
BuildCascadedCall == Seeded /\ duplex = FALSE
BuildCascadedCallDuplex == Seeded /\ duplex = TRUE

TurnsInit == BuildCascadedCall \/ BuildCascadedCallDuplex

Bridge == BridgeCalls \/ BridgeReprompt \/ BridgeResult \/ BridgeInterrupted
Brain == BrainRelays \/ BrainMoves \/ BrainStaysOrEnds \/ BrainInterrupted

TurnsNext ==
  \/ Kickoff \/ UserTurn \/ LlmRun \/ LlmInterrupted \/ EndArrives
  \/ BridgeCalls \/ BridgeReprompt \/ BridgeResult \/ BridgeInterrupted
  \/ BrainRelays \/ BrainMoves \/ BrainStaysOrEnds \/ BrainInterrupted
  \/ AggReply \/ AggInterrupted

TurnsSpec == TurnsInit /\ [][TurnsNext]_turnsVars

-----------------------------------------------------------------------------
(* Properties.                                                             *)

\* Before the caller has said anything the call has not moved, ended or called a tool: the
\* greeting cannot hang up on the caller (CascadedKickoffProcessor).
GreetingHarmless == users = 0 => brainNode = StartNode /\ ending = "no" /\ called = 0

\* The context's prompt and tools are those of the brain's node, unless the re-prompt is on
\* its way; no barge-in comes between them (Reprompt, resolve_tools).
PromptFollows ==
  (\A k \in DOMAIN bridgeSys : bridgeSys[k].kind # "reprompt") =>
    promptNode = brainNode /\ promptTools = ToolNames(brainNode, brainTools)

InHistory(id) ==
  \E k \in 2 .. Len(history) :
    history[k] = [role |-> "tool", id |-> id] /\ history[k - 1] = [role |-> "call", id |-> id]
OnItsWay(id) ==
  \E k \in DOMAIN bridgeSys : bridgeSys[k].kind = "result" /\ bridgeSys[k].id = id

\* A workflow tool's result is on its way or in the history once, behind its call, whatever
\* batch it was called in; only one that reads like an acknowledgement is not.
ResultsKept ==
  /\ \A id \in DOMAIN relayed : OnItsWay(id) \/ InHistory(id) \/ relayed[id] \in Acks
  /\ \A j, k \in DOMAIN history : j # k /\ history[j].role = "tool" => history[j] # history[k]

\* The same of every result, as the comment on is_transition_ack wants it.
ResultsReachModel == \A id \in DOMAIN relayed : OnItsWay(id) \/ InHistory(id)

\* The model gets to read a result: it is run again for it, unless a barge-in
\* dropped the run or the call ended.
ResultsRead == \A id \in 1 .. MaxToolCalls : InHistory(id) ~> (id \in read \/ barged > 0 \/ ending = "down")

\* The stages are tasks, and the model and the session source answer or fail.
TurnsFairness == WF_turnsVars(LlmRun) /\ WF_turnsVars(Bridge) /\ WF_turnsVars(Brain)

\* The conversation is where the brain is: it starts with the caller, its prompt and tools
\* are those of the brain's node, and it holds the results of the tools.
BrainFollowed == GreetingHarmless /\ PromptFollows /\ ResultsKept
=============================================================================
