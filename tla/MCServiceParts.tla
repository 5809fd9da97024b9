--------------------------- MODULE MCServiceParts ---------------------------
(***************************************************************************)
(* Components whose work must come to an end, side by side: the speech and *)
(* language connectors, the SIP agent, the call server and the parallel    *)
(* block. A behaviour is one of one component; the others rest in one      *)
(* initial state, and nothing of theirs is fair to happen there. The two   *)
(* halves of the SIP agent, its calls and its registration, share no state *)
(* and take turns like components.                                         *)
(***************************************************************************)
EXTENDS TtsConnectors, LlmConnectors, SipAgent, CallServer, ParallelPipeline

CONSTANTS b1, b2

VARIABLE part  \* the component in play

TwoBranches == {b1, b2}

\* Any port, a range at the end of the port space, and one that others have a port of.
MCPortRanges == {[base |-> 0, tries |-> 0], [base |-> 7, tries |-> 0], [base |-> 6, tries |-> 5]}

partsVars == <<part, ttsVars, llmVars, sipVars, serverVars, parallelVars>>

Init ==
  /\ part \in {"tts", "llm", "calls", "register", "server", "parallel"}
  /\ TtsInit /\ LlmInit /\ SipInit /\ ServerInit /\ ParallelInit
  /\ part # "tts" => tts = "openai" /\ missing = "none"
  /\ part # "llm" => llm = (CHOOSE n \in LlmNames : TRUE) /\ ~ ctxTools
  /\ part # "register" => regLoop = "off"
  /\ part # "server" => range.base = 0

Next ==
  /\ UNCHANGED part
  /\ \/ part = "tts" /\ TtsNext /\ UNCHANGED <<llmVars, sipVars, serverVars, parallelVars>>
     \/ part = "llm" /\ LlmNext /\ UNCHANGED <<ttsVars, sipVars, serverVars, parallelVars>>
     \/ part = "calls" /\ CallSteps /\ UNCHANGED <<ttsVars, llmVars, serverVars, parallelVars>>
     \/ part = "register" /\ RegisterSteps /\ UNCHANGED <<ttsVars, llmVars, serverVars, parallelVars>>
     \/ part = "server" /\ ServerNext /\ UNCHANGED <<ttsVars, llmVars, sipVars, parallelVars>>
     \/ part = "parallel" /\ ParallelNext /\ UNCHANGED <<ttsVars, llmVars, sipVars, serverVars>>

\* Each of these is a task that the scheduler keeps running.
ParallelFairness ==
  /\ WF_parallelVars(part = "parallel" /\ FanOut) /\ WF_parallelVars(part = "parallel" /\ FanIn)
  /\ \A b \in Branches : WF_parallelVars(part = "parallel" /\ BranchStep(b))

Spec ==
  /\ Init /\ [][Next]_partsVars
  /\ TtsFairness /\ LlmFairness /\ SipFairness /\ ServerFairness /\ ParallelFairness

\* What a service has begun comes to its end: a synthesis, a completion, a SIP call, an event
\* stream, and a frame that is in a parallel block.
ServiceWorkEnds ==
  RunEnds /\ CompletionEnds /\ CallReleased /\ StreamsEnd /\ EndLeaves /\ OutputLeaves
=============================================================================
