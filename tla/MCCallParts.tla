----------------------------- MODULE MCCallParts -----------------------------
(***************************************************************************)
(* Parts of a call around the pipeline, side by side: the realtime session *)
(* and the relay that refreshes its prompt, the turns of the cascaded call *)
(* and the WebRTC peer. A behaviour is one of one part; the others rest in *)
(* one initial state, and nothing of theirs is fair to happen there.       *)
(***************************************************************************)
EXTENDS RealtimeSession, ContextRelay, CascadedTurns, WebRtcPeer

VARIABLE part  \* the part in play

\* Two nodes with a transition to each other; the first has a workflow tool.
MCEdges == [a |-> [go |-> "b"], b |-> [go |-> "a"]]
MCNodeTools == [a |-> {"look"}, b |-> {}]

partsVars == <<part, sessionVars, relayVars, turnsVars, peerVars>>

Init ==
  /\ part \in {"session", "relay", "turns", "peer"}
  /\ SessionInit /\ RelayInit /\ TurnsInit /\ PeerInit
  /\ part # "session" => provider = "gemini"
  /\ part # "turns" => ~ duplex /\ brainTools = {}

Next ==
  /\ UNCHANGED part
  /\ \/ part = "session" /\ SessionNext /\ UNCHANGED <<relayVars, turnsVars, peerVars>>
     \/ part = "relay" /\ RelayNext /\ UNCHANGED <<sessionVars, turnsVars, peerVars>>
     \/ part = "turns" /\ TurnsNext /\ UNCHANGED <<sessionVars, relayVars, peerVars>>
     \/ part = "peer" /\ PeerNext /\ UNCHANGED <<sessionVars, relayVars, turnsVars>>

\* The consumer and the service's calls run, and the caller is heard from.
SessionFairness ==
  /\ WF_sessionVars(part = "session" /\ Consumer) /\ WF_sessionVars(part = "session" /\ Updater)
  /\ WF_sessionVars(part = "session" /\ SendAudio)

Spec ==
  /\ Init /\ [][Next]_partsVars
  /\ SessionFairness /\ RelayFairness /\ TurnsFairness /\ PeerFairness

\* What a part of the call has begun comes to its end: a result is read, the compactor is
\* free again and its digest only moves forward, a frame to the browser is sent or refused,
\* a browser that left is noticed.
CallWorkEnds == ResultsRead /\ CompactionFreed /\ DigestForward /\ SendsReturn /\ EndNoticed
=============================================================================
