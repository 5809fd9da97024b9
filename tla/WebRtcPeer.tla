----------------------------- MODULE WebRtcPeer -----------------------------
(***************************************************************************)
(* A call with a browser: the peer loop that owns the WebRTC session and   *)
(* its UDP socket, the transport that the call's pump owns, and the two    *)
(* bounded channels between them. The pump is one task: while it waits for *)
(* room to send it does not receive. The loop must never wait for it.      *)
(*                                                                         *)
(* The browser and the session's state machine are external: media is      *)
(* added and the connection comes up in either order, audio comes after    *)
(* both, and the path may be lost at any time. Bot audio is counted in     *)
(* halves of a 20 ms frame, which is what the encoder takes.               *)
(***************************************************************************)
EXTENDS Integers, Sequences

CONSTANTS
  InboundDepth,    \* events that wait for the transport
  OutboundDepth,   \* frames that wait for the loop
  MaxPackets,      \* bound: packets of the browser
  MaxChunks,       \* bound: chunks of bot audio
  HalvesPerChunk   \* sizes of a chunk of bot audio

ASSUME PeerAssumption ==
  /\ InboundDepth \in Nat \ {0} /\ OutboundDepth \in Nat \ {0}
  /\ MaxPackets \in Nat /\ MaxChunks \in Nat /\ HalvesPerChunk \subseteq Nat

VARIABLES
  browser,   \* [media, up, said]: the audio line was added, the path is up, packets so far
  loop,      \* WebRtcPeer: [at, connected, mid, announced]; at: "poll", "media" or "done"
  inq,       \* inbound channel: "connected", "opus" or "closed"
  outq,      \* outbound channel: frames [time, greeted]
  transport, \* WebRtcTransport: [at, started, pending, time, chunks]
  received,  \* what recv returned
  wire,      \* times of the frames written to the browser
  discarded  \* frames that the loop took and could not write

peerVars == <<browser, loop, inq, outq, transport, received, wire, discarded>>

FrameHalves == 2

\* mpsc: try_send on a bounded channel.
TrySend(q, e) == IF Len(q) < InboundDepth THEN Append(q, e) ELSE q

-----------------------------------------------------------------------------
(* The peer loop.                                                          *)

\* Connected is announced once the path is up and the audio line is known.
AnnounceConnected(l, q) ==
  IF l.announced \/ ~l.connected \/ ~l.mid THEN [loop |-> l, inq |-> q]
  ELSE [loop |-> [l EXCEPT !.announced = TRUE], inq |-> TrySend(q, "connected")]

\* Event::Connected and Event::MediaAdded.
HandleEvent(connected, mid) ==
  /\ loop.at = "poll"
  /\ \/ connected /\ browser.up /\ ~loop.connected
     \/ mid /\ browser.media /\ ~loop.mid
  /\ LET next == AnnounceConnected([loop EXCEPT !.connected = @ \/ connected, !.mid = @ \/ mid], inq)
     IN loop' = next.loop /\ inq' = next.inq
  /\ UNCHANGED <<browser, outq, transport, received, wire, discarded>>

\* Event::MediaData: a packet came, and is offered to the transport.
MediaArrives ==
  /\ loop.at = "poll" /\ loop.connected /\ loop.mid /\ browser.up /\ browser.said < MaxPackets
  /\ browser' = [browser EXCEPT !.said = @ + 1]
  /\ loop' = [loop EXCEPT !.at = "media"]
  /\ UNCHANGED <<inq, outq, transport, received, wire, discarded>>

\* Mutant: the loop waits for room.
DeliverMediaWaiting ==
  /\ loop.at = "media" /\ Len(inq) < InboundDepth
  /\ inq' = Append(inq, "opus")
  /\ loop' = [loop EXCEPT !.at = "poll"]
  /\ UNCHANGED <<browser, outq, transport, received, wire, discarded>>
\* A full channel drops the packet.
DeliverMedia ==
  /\ loop.at = "media"
  /\ inq' = TrySend(inq, "opus")
  /\ loop' = [loop EXCEPT !.at = "poll"]
  /\ UNCHANGED <<browser, outq, transport, received, wire, discarded>>

\* A frame that comes before the audio line is known is dropped.
WriteAudio ==
  /\ loop.at = "poll" /\ outq # <<>>
  /\ outq' = Tail(outq)
  /\ IF loop.mid THEN wire' = Append(wire, Head(outq).time) /\ UNCHANGED discarded
     ELSE discarded' = Append(discarded, Head(outq)) /\ UNCHANGED wire
  /\ UNCHANGED <<browser, loop, inq, transport, received>>

\* The path is lost, the socket fails or the session ends: the loop says so if there is
\* room, and its ends of the channels are dropped.
LoopEnds ==
  /\ loop.at = "poll"
  /\ loop' = [loop EXCEPT !.at = "done"]
  /\ inq' = TrySend(inq, "closed")
  /\ outq' = <<>>
  /\ UNCHANGED <<browser, transport, received, wire, discarded>>

-----------------------------------------------------------------------------
(* The transport, as the pump uses it.                                     *)

\* What recv makes of the next event; decoded: the packet gives audio, and not an error or
\* a remainder that the resampler keeps. The loop's sender being gone is an end too.
RecvEvent(decoded) ==
  /\ inq # <<>>
  /\ inq' = Tail(inq)
  /\ LET e == Head(inq) IN
     /\ transport' = [transport EXCEPT !.started = @ \/ e = "connected"]
     /\ received' = CASE e = "connected" /\ ~transport.started -> Append(received, "start")
                      [] e = "opus" /\ decoded -> Append(received, "audio")
                      [] e = "closed" -> Append(received, "stop")
                      [] OTHER -> received
Recv(decoded) ==
  \/ RecvEvent(decoded)
  \/ /\ inq = <<>> /\ loop.at = "done" /\ ~decoded
     /\ received' = Append(received, "stop")
     /\ UNCHANGED <<inq, transport>>

Stopped == received # <<>> /\ received[Len(received)] = "stop"

PumpReceives ==
  /\ transport.at = "idle" /\ ~Stopped
  /\ \E decoded \in BOOLEAN : Recv(decoded)
  /\ UNCHANGED <<browser, loop, outq, wire, discarded>>

\* send_audio: the chunk is resampled, and whole frames go to the loop one by one.
SendChunk(halves) ==
  /\ transport.at = "idle" /\ ~Stopped /\ transport.chunks < MaxChunks
  /\ transport' = [transport EXCEPT !.at = "sending", !.pending = @ + halves, !.chunks = @ + 1]
  /\ UNCHANGED <<browser, loop, inq, outq, received, wire, discarded>>

SendFrame ==
  /\ transport.at = "sending" /\ transport.pending >= FrameHalves
  /\ loop.at # "done" /\ Len(outq) < OutboundDepth
  /\ outq' = Append(outq, [time |-> transport.time, greeted |-> transport.started])
  /\ transport' = [transport EXCEPT !.pending = @ - FrameHalves, !.time = @ + 1]
  /\ UNCHANGED <<browser, loop, inq, received, wire, discarded>>

\* The chunk is done, or the loop is gone: the frame at hand is lost and the rest stays.
SendReturns ==
  /\ transport.at = "sending"
  /\ \/ transport.pending < FrameHalves /\ transport' = [transport EXCEPT !.at = "idle"]
     \/ /\ transport.pending >= FrameHalves /\ loop.at = "done"
        /\ transport' = [transport EXCEPT !.at = "idle", !.pending = @ - FrameHalves, !.time = @ + 1]
  /\ UNCHANGED <<browser, loop, inq, outq, received, wire, discarded>>

\* Mutant: a clear starts the times anew.
SendClearReset ==
  /\ transport.at = "idle" /\ ~Stopped /\ transport.pending > 0
  /\ transport' = [transport EXCEPT !.pending = 0, !.time = 0]
  /\ UNCHANGED <<browser, loop, inq, outq, received, wire, discarded>>
SendClear ==
  /\ transport.at = "idle" /\ ~Stopped /\ transport.pending > 0
  /\ transport' = [transport EXCEPT !.pending = 0]
  /\ UNCHANGED <<browser, loop, inq, outq, received, wire, discarded>>

\* The transport is dropped with the call: the loop is cancelled and aborted.
TransportDropped ==
  /\ transport.at = "idle"
  /\ transport' = [transport EXCEPT !.at = "dropped"]
  /\ loop' = [loop EXCEPT !.at = "done"]
  /\ inq' = <<>> /\ outq' = <<>>
  /\ UNCHANGED <<browser, received, wire, discarded>>

\* The browser's side comes up.
BrowserUp ==
  /\ loop.at # "done"
  /\ \/ ~browser.media /\ browser' = [browser EXCEPT !.media = TRUE]
     \/ ~browser.up /\ browser' = [browser EXCEPT !.up = TRUE]
  /\ UNCHANGED <<loop, inq, outq, transport, received, wire, discarded>>

\* accept_offer: the loop is spawned with empty channels.
PeerInit ==
  /\ browser = [media |-> FALSE, up |-> FALSE, said |-> 0]
  /\ loop = [at |-> "poll", connected |-> FALSE, mid |-> FALSE, announced |-> FALSE]
  /\ inq = <<>> /\ outq = <<>>
  /\ transport = [at |-> "idle", started |-> FALSE, pending |-> 0, time |-> 0, chunks |-> 0]
  /\ received = <<>> /\ wire = <<>> /\ discarded = <<>>

PeerNext ==
  \/ BrowserUp \/ HandleEvent(TRUE, FALSE) \/ HandleEvent(FALSE, TRUE)
  \/ MediaArrives \/ DeliverMedia \/ WriteAudio \/ LoopEnds
  \/ PumpReceives \/ SendFrame \/ SendReturns \/ SendClear \/ TransportDropped
  \/ \E halves \in HalvesPerChunk : SendChunk(halves)

PeerSpec == PeerInit /\ [][PeerNext]_peerVars

-----------------------------------------------------------------------------
(* Properties.                                                             *)

\* The call starts once and before its audio, and from then on nothing the bot says is
\* thrown away for want of an audio line (announce_connected, write_audio).
StartedThenHeard ==
  /\ \A i \in 1..Len(received) : (received[i] = "start") = (i = 1 /\ received[i] # "stop")
  /\ \A i \in 1..Len(discarded) : ~discarded[i].greeted

\* Frames reach the browser in order, each 20 ms after the one before it was due or later:
\* no clear, no error and no full channel repeats a time (send_audio).
TimesAdvance ==
  /\ \A i, j \in 1..Len(wire) : i < j => wire[i] < wire[j]
  /\ \A i \in 1..Len(wire) : \A j \in 1..Len(outq) : wire[i] < outq[j].time

\* A pump that waits for room gets on: the loop takes frames whatever the pump has left
\* unread, and a loop that ends fails the send (try_send in handle_event).
SendsReturn == (transport.at = "sending") ~> (transport.at # "sending")

\* The pump learns that the browser is gone, although the word of it may have found the
\* channel full (run, recv).
EndNoticed == (loop.at = "done") ~> (Stopped \/ transport.at = "dropped")

\* The loop and the pump are tasks that run when they can; what the browser does, and the
\* end of the path, need not happen.
PeerFairness ==
  /\ WF_peerVars(DeliverMedia) /\ WF_peerVars(WriteAudio)
  /\ WF_peerVars(PumpReceives) /\ WF_peerVars(SendFrame) /\ WF_peerVars(SendReturns)

\* Both directions of the peer keep their order, from the announcement to the last frame.
PeerOrdered == StartedThenHeard /\ TimesAdvance
=============================================================================
