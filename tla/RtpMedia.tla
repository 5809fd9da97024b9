------------------------------ MODULE RtpMedia ------------------------------
(***************************************************************************)
(* The media of a SIP call: SipTransport, its receive task (rx_loop with   *)
(* the JitterBuffer) and its send pump (tx_loop). Sequence numbers live on *)
(* a circle. The network loses, repeats and reorders packets; the peer's   *)
(* gateway may restart its stream under a new SSRC.                        *)
(***************************************************************************)
EXTENDS Integers, Sequences, SequencesExt, FiniteSetsExt

CONSTANTS
  SeqCircle,   \* 2^16 in the code: the number of sequence numbers
  FirstSeq,    \* the sequence number a stream begins with
  JitterDepth, \* JITTER_DEPTH
  InboundDepth,\* INBOUND_CHAN_DEPTH
  OutboundDepth,      \* OUTBOUND_CHAN_DEPTH
  PrerollFrames,      \* PREROLL_FRAMES
  ReorderWindow,      \* bound: how far the network may move a packet ahead
  MaxPackets,  \* bound: packets the peer sends
  MaxFaults,   \* bound: packets lost or repeated
  MaxBotAudio  \* bound: half frames that the bot plays

ASSUME RtpAssumption ==
  /\ {SeqCircle, JitterDepth, InboundDepth, OutboundDepth, PrerollFrames, ReorderWindow}
       \subseteq Nat \ {0}
  /\ {FirstSeq, MaxPackets, MaxFaults, MaxBotAudio} \subseteq Nat
  /\ MaxPackets < SeqCircle \div 2

VARIABLES
  sent,       \* packets the peer has sent
  stream,     \* SSRC the peer sends under: 1, then 2
  inFlight,   \* packets in the network: [n, seq, ssrc, src]
  netFaults,  \* packets lost or repeated so far
  jitter,     \* JitterBuffer::buf
  lastReleased, \* last_released, or -1 while not primed
  currentSsrc,  \* current_ssrc, or 0
  learnedPeer,  \* learned_peer, or "none"
  released,   \* packets rx_loop is sending to the channel
  rxTask,     \* "loop", "drain" or "done"
  inbound,    \* the channel of decoded audio
  rtpMedia,      \* recv: "new", "open" or "stopped"
  rtpHangup,  \* the hangup token
  transportUp,\* the transport has not been dropped
  played,     \* packets that recv handed to the pipeline
  early,      \* n of a packet |-> packets sent later that arrived before it (history)
  dropped,    \* packets that push dropped (history)
  flapped,    \* a packet of the old SSRC came after the new one (history)
  botAudio,   \* chunks the bot sent, of half a frame each
  outbound,   \* chunks in the channel to tx_loop
  channelOpen,\* channel_open
  pending,    \* half frames in tx_loop
  silent,     \* frames of the preroll that went out
  framesOut,  \* frames of the bot's audio that went out
  unsent,     \* half frames lost with a send that failed (history)
  sendFailed, \* a send failed (history)
  txTask      \* "preroll", "loop" or "done"

rtpNet == <<sent, stream, inFlight, netFaults>>
rtpRx == <<jitter, lastReleased, currentSsrc, learnedPeer, released, rxTask, inbound>>
rtpLeg == <<rtpMedia, rtpHangup, transportUp>>
rtpSeen == <<early, dropped, flapped>>
rtpTx == <<botAudio, outbound, channelOpen, pending, silent, framesOut, unsent, sendFailed, txTask>>
rtpVars == <<rtpNet, rtpRx, rtpLeg, played, rtpSeen, rtpTx>>

-----------------------------------------------------------------------------
(* JitterBuffer.                                                           *)

\* Mutant: the numbers are compared without the circle.
SeqLtPlain(seq, reference) == seq < reference

\* seq_lt: behind on the circle; at exactly half of it neither is.
SeqLt(seq, reference) ==
  seq # reference /\ (seq - reference) % SeqCircle > SeqCircle \div 2

IsLate(pkt) == lastReleased # -1 /\ (pkt.seq = lastReleased \/ SeqLt(pkt.seq, lastReleased))
IsDuplicate(pkt) == \E k \in DOMAIN jitter : jitter[k].seq = pkt.seq

\* Before the first buffered packet that it is behind of.
Inserted(pkt) ==
  LET after == {k \in DOMAIN jitter : SeqLt(pkt.seq, jitter[k].seq)}
      pos == IF after = {} THEN Len(jitter) + 1 ELSE Min(after) IN
  InsertAt(jitter, pos, pkt)

\* What is over the depth is released.
ReleasedCount(buf) == Max({0, Len(buf) - JitterDepth})

Push(pkt) ==
  IF IsLate(pkt) \/ IsDuplicate(pkt)
  THEN /\ dropped' = dropped \union {[n |-> pkt.n, again |-> early[pkt.n] >= 0]}
       /\ UNCHANGED <<jitter, lastReleased, released>>
  ELSE LET buf == Inserted(pkt)
           out == SubSeq(buf, 1, ReleasedCount(buf)) IN
       /\ jitter' = SubSeq(buf, Len(out) + 1, Len(buf))
       /\ lastReleased' = IF out = <<>> THEN lastReleased ELSE Last(out).seq
       /\ released' = out
       /\ UNCHANGED dropped

\* The SSRC changed: drain, reset, then push into the empty buffer.
NewStream(pkt) ==
  /\ released' = jitter
  /\ jitter' = <<pkt>> /\ lastReleased' = -1
  /\ UNCHANGED dropped

-----------------------------------------------------------------------------
(* The network (external).                                                 *)

\* The second stream begins behind the first.
Packet(n, ssrc, src) ==
  [n |-> n, ssrc |-> ssrc, src |-> src,
   seq |-> (FirstSeq + n - (IF ssrc = 2 THEN SeqCircle \div 4 ELSE 0)) % SeqCircle]

PeerSends ==
  /\ sent < MaxPackets /\ sent' = sent + 1
  /\ stream' \in {stream} \union (IF sent > 0 THEN {2} ELSE {})
  /\ inFlight' = Append(inFlight, Packet(sent', stream', "peer"))
  /\ UNCHANGED <<netFaults, rtpRx, rtpLeg, played, rtpSeen, rtpTx>>

Fault ==
  /\ netFaults < MaxFaults /\ netFaults' = netFaults + 1
  /\ \/ \E k \in DOMAIN inFlight : inFlight' = RemoveAt(inFlight, k)
     \/ \E k \in DOMAIN inFlight : inFlight' = Append(inFlight, inFlight[k])
     \/ inFlight' = Append(inFlight, Packet(1, 9, "stranger"))
  /\ UNCHANGED <<sent, stream, rtpRx, rtpLeg, played, rtpSeen, rtpTx>>

-----------------------------------------------------------------------------
(* rx_loop.                                                                *)

\* One datagram; the select may prefer it to the token. The first source is the peer from
\* then on; others are dropped.
RxPacket(k) ==
  LET pkt == inFlight[k] IN
  /\ rxTask = "loop" /\ released = <<>>
  /\ k \in DOMAIN inFlight /\ k <= ReorderWindow
  /\ inFlight' = RemoveAt(inFlight, k)
  /\ \/ /\ learnedPeer \notin {"none", pkt.src}
        /\ UNCHANGED <<jitter, lastReleased, released, currentSsrc, learnedPeer, early, dropped,
                       flapped>>
     \/ /\ learnedPeer \in {"none", pkt.src}
        /\ learnedPeer' = pkt.src
        /\ currentSsrc' = pkt.ssrc
        /\ flapped' = (flapped \/ (currentSsrc \notin {0, pkt.ssrc} /\ pkt.ssrc # 2))
        /\ early' = [early EXCEPT ![pkt.n] = IF @ >= 0 THEN @ ELSE
              Cardinality({m \in DOMAIN early : m > pkt.n /\ early[m] >= 0})]
        /\ IF currentSsrc \notin {0, pkt.ssrc} THEN NewStream(pkt) ELSE Push(pkt)
  /\ UNCHANGED <<sent, stream, netFaults, rxTask, inbound, rtpLeg, played, rtpTx>>

\* send().await: waits for a place; a closed channel ends the task.
RxForward ==
  /\ rxTask # "done" /\ released # <<>>
  /\ IF ~ transportUp
     THEN rxTask' = "done" /\ released' = <<>> /\ UNCHANGED inbound
     ELSE /\ Len(inbound) < InboundDepth
          /\ inbound' = Append(inbound, Head(released)) /\ released' = Tail(released)
          /\ UNCHANGED rxTask
  /\ UNCHANGED <<rtpNet, jitter, lastReleased, currentSsrc, learnedPeer, rtpLeg, played,
                 rtpSeen, rtpTx>>

\* The token fires, or the socket fails: what is buffered goes out first.
RxEnds ==
  /\ rxTask = "loop" /\ released = <<>>
  /\ rxTask' = "drain" /\ released' = jitter /\ jitter' = <<>>
  /\ UNCHANGED <<rtpNet, lastReleased, currentSsrc, learnedPeer, inbound, rtpLeg, played,
                 rtpSeen, rtpTx>>

\* The drained task returns, or the drop's abort ends it wherever it is.
RxReturns ==
  /\ \/ rxTask = "drain" /\ released = <<>>
     \/ rxTask # "done" /\ ~ transportUp
  /\ rxTask' = "done"
  /\ UNCHANGED <<rtpNet, jitter, lastReleased, currentSsrc, learnedPeer, released, inbound,
                 rtpLeg, played, rtpSeen, rtpTx>>

-----------------------------------------------------------------------------
(* MediaTransport::recv, and the drop of the transport after Stop.         *)

RecvStart ==
  /\ rtpMedia = "new" /\ rtpMedia' = "open"
  /\ UNCHANGED <<rtpNet, rtpRx, rtpHangup, transportUp, played, rtpSeen, rtpTx>>

RecvAudio ==
  /\ rtpMedia = "open" /\ inbound # <<>>
  /\ inbound' = Tail(inbound) /\ played' = Append(played, Head(inbound))
  /\ UNCHANGED <<rtpNet, jitter, lastReleased, currentSsrc, learnedPeer, released, rxTask,
                 rtpLeg, rtpSeen, rtpTx>>

\* Both branches of the select may be ready; then either is taken.
RecvStop ==
  /\ rtpMedia = "open" /\ (rtpHangup \/ (inbound = <<>> /\ rxTask = "done"))
  /\ rtpMedia' = "stopped"
  /\ UNCHANGED <<rtpNet, rtpRx, rtpHangup, transportUp, played, rtpSeen, rtpTx>>

HangUp ==
  /\ ~ rtpHangup /\ rtpHangup' = TRUE
  /\ UNCHANGED <<rtpNet, rtpRx, rtpMedia, transportUp, played, rtpSeen, rtpTx>>

\* SipTransport::drop: the token fires, both tasks are aborted and the channels' ends of the
\* transport go. An abort takes hold when the task next waits: RxReturns, TxHangup.
TransportDrops ==
  /\ transportUp /\ transportUp' = FALSE /\ rtpHangup' = TRUE /\ rtpMedia' = "stopped"
  /\ UNCHANGED <<rtpNet, rtpRx, played, rtpSeen, rtpTx>>

-----------------------------------------------------------------------------
(* tx_loop. A frame is two chunks of the bot's audio.                      *)

FrameLen == 2

\* send_audio: waits for a place in the channel; an ended pump has closed it.
BotSends ==
  /\ botAudio < MaxBotAudio /\ transportUp /\ txTask # "done" /\ outbound < OutboundDepth
  /\ botAudio' = botAudio + 1 /\ outbound' = outbound + 1
  /\ UNCHANGED <<rtpNet, rtpRx, rtpLeg, played, rtpSeen, channelOpen, pending,
                 silent, framesOut, unsent, sendFailed, txTask>>

\* Comfort silence first, a frame every 20 ms.
TxPreroll ==
  /\ txTask = "preroll"
  /\ \/ /\ silent' = silent + 1 /\ UNCHANGED sendFailed
        /\ txTask' = IF silent' = PrerollFrames THEN "loop" ELSE "preroll"
     \/ txTask' = "done" /\ sendFailed' = TRUE /\ UNCHANGED silent
  /\ UNCHANGED <<rtpNet, rtpRx, rtpLeg, played, rtpSeen, botAudio, outbound,
                 channelOpen, pending, framesOut, unsent>>

TxRecv ==
  /\ txTask = "loop" /\ channelOpen
  /\ \/ /\ outbound > 0
        /\ outbound' = outbound - 1 /\ pending' = pending + 1 /\ UNCHANGED channelOpen
     \/ /\ outbound = 0 /\ ~ transportUp
        /\ channelOpen' = FALSE /\ UNCHANGED <<outbound, pending>>
  /\ UNCHANGED <<rtpNet, rtpRx, rtpLeg, played, rtpSeen, botAudio, silent,
                 framesOut, unsent, sendFailed, txTask>>

\* Every 20 ms one frame; it is out of the buffer when its send fails, and the pump ends.
\* With less than a frame left a closed channel ends it, too.
TxTick ==
  /\ txTask = "loop"
  /\ \/ /\ pending >= FrameLen /\ pending' = pending - FrameLen
        /\ \/ framesOut' = framesOut + 1 /\ UNCHANGED <<unsent, sendFailed, txTask>>
           \/ /\ unsent' = FrameLen /\ sendFailed' = TRUE /\ txTask' = "done"
              /\ UNCHANGED framesOut
     \/ /\ pending < FrameLen /\ ~ channelOpen
        /\ txTask' = "done" /\ UNCHANGED <<pending, framesOut, unsent, sendFailed>>
  /\ UNCHANGED <<rtpNet, rtpRx, rtpLeg, played, rtpSeen, botAudio, outbound,
                 channelOpen, silent>>

\* The token, or the abort behind it.
TxHangup ==
  /\ txTask # "done" /\ rtpHangup /\ txTask' = "done"
  /\ UNCHANGED <<rtpNet, rtpRx, rtpLeg, played, rtpSeen, botAudio, outbound,
                 channelOpen, pending, silent, framesOut, unsent, sendFailed>>

-----------------------------------------------------------------------------

RtpInit ==
  /\ sent = 0 /\ stream = 1 /\ inFlight = <<>> /\ netFaults = 0
  /\ jitter = <<>> /\ lastReleased = -1 /\ currentSsrc = 0 /\ learnedPeer = "none"
  /\ released = <<>> /\ rxTask = "loop" /\ inbound = <<>>
  /\ rtpMedia = "new" /\ rtpHangup = FALSE /\ played = <<>>
  /\ early = [n \in 1 .. MaxPackets |-> -1] /\ dropped = {} /\ flapped = FALSE
  /\ transportUp = TRUE /\ botAudio = 0 /\ outbound = 0 /\ channelOpen = TRUE /\ pending = 0
  /\ silent = 0 /\ framesOut = 0 /\ unsent = 0 /\ sendFailed = FALSE /\ txTask = "preroll"

RxNext ==
  \/ PeerSends \/ Fault \/ (\E k \in 1 .. ReorderWindow : RxPacket(k))
  \/ RxForward \/ RxEnds \/ RxReturns \/ RecvStart \/ RecvAudio \/ RecvStop \/ HangUp
  \/ TransportDrops

\* The two directions share the hangup token and the drop only.
TxNext ==
  BotSends \/ TxPreroll \/ TxRecv \/ TxTick \/ TxHangup \/ HangUp \/ TransportDrops

RtpNext == RxNext \/ TxNext

RtpSpec == RtpInit /\ [][RtpNext]_rtpVars

-----------------------------------------------------------------------------
(* Properties.                                                             *)

\* The caller is heard in order and without repetition, across the wrap of the sequence
\* numbers and a change of the SSRC, unless the old stream comes back after the new one
\* or a stranger was taken for the peer (JitterBuffer::push, rx_loop).
PlayedInOrder ==
  learnedPeer # "stranger" /\ ~ flapped =>
    \A i, j \in DOMAIN played : i < j => played[i].n < played[j].n

\* A packet that at most JITTER_DEPTH later ones have overtaken is not lost: what push
\* drops was there before, or had been overtaken by more (JitterBuffer::push).
WindowRepaired ==
  ~ flapped /\ learnedPeer # "stranger" =>
    \A d \in dropped : d.again \/ early[d.n] > JitterDepth

\* No sample of the bot's is dropped or sent twice on its way through channel and buffer, and
\* none is heard before the whole preroll; the pump ends only with the token or with a send
\* that failed, which costs one frame. What is queued then is lost: that a closed channel
\* lets the tail be played never comes about, since the drop that closes it also fires the
\* token and aborts the pump (send_audio, tx_loop, SipTransport::drop).
BotAudioWhole ==
  /\ botAudio = outbound + pending + FrameLen * framesOut + unsent
  /\ unsent \in {0, FrameLen} /\ (unsent > 0 => txTask = "done")
  /\ framesOut + unsent > 0 => silent = PrerollFrames
  /\ txTask = "done" => rtpHangup \/ sendFailed

\* Between the network and the pipeline audio stays in order and whole, and what could be
\* repaired is.
MediaInOrder == PlayedInOrder /\ WindowRepaired /\ BotAudioWhole
=============================================================================
