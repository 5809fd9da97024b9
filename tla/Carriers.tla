------------------------------ MODULE Carriers ------------------------------
(***************************************************************************)
(* A call over a carrier's media WebSocket: the serializer that turns the  *)
(* carrier's messages into media events and bot audio into its messages,   *)
(* the transport that reads them, and the writer task behind the socket.   *)
(* The last section has the key presses of the far end: RFC 4733 events,   *)
(* and tones in the audio.                                                 *)
(*                                                                         *)
(* The carrier is external: it opens the stream, sends audio, plays what   *)
(* it is sent and drops a message that does not name its stream. A chunk   *)
(* of audio is its number and the codec of its bytes.                      *)
(***************************************************************************)
EXTENDS Integers, Sequences, FiniteSets

CONSTANTS
  MaxChunks,      \* bound: chunks of bot audio
  MaxInbox,       \* bound: messages of the carrier
  TonePackets,    \* packets of a key press before its end packet
  MaxPresses,     \* bound: key presses
  MaxNet          \* bound: packets that the network loses or repeats

ASSUME CarrierAssumption ==
  /\ MaxChunks \in Nat /\ MaxInbox \in Nat /\ MaxPresses \in Nat /\ MaxNet \in Nat
  /\ TonePackets \in Nat

\* The serializers. events: start, media and stop come as JSON events, with the audio in
\* them; codec: of the audio, unless the start event says otherwise; named: messages to
\* the carrier name its stream; clears: there is a message that empties its buffer.
EventSerializer == [events |-> TRUE, codec |-> "ulaw", named |-> TRUE, clears |-> TRUE]
PlivoSerializer == EventSerializer
CorePlivoSerializer == EventSerializer
VobizSerializer == EventSerializer
TwilioSerializer == EventSerializer
CloudonixSerializer == EventSerializer
ExotelSerializer == [EventSerializer EXCEPT !.codec = "pcm16"]
TelnyxSerializer == [EventSerializer EXCEPT !.named = FALSE]
VonageSerializer == [events |-> FALSE, codec |-> "pcm16", named |-> FALSE, clears |-> TRUE]
AsteriskSerializer == [events |-> FALSE, codec |-> "ulaw", named |-> FALSE, clears |-> FALSE]
GenesysSerializer == [events |-> FALSE, codec |-> "ulaw", named |-> FALSE, clears |-> TRUE]
WsTransport == [events |-> FALSE, codec |-> "pcm16", named |-> FALSE, clears |-> FALSE]

Serializers ==
  [core_plivo |-> CorePlivoSerializer, plivo |-> PlivoSerializer, vobiz |-> VobizSerializer,
   twilio |-> TwilioSerializer, cloudonix |-> CloudonixSerializer, exotel |-> ExotelSerializer,
   telnyx |-> TelnyxSerializer, vonage |-> VonageSerializer, asterisk |-> AsteriskSerializer,
   genesys |-> GenesysSerializer, ws |-> WsTransport]

VARIABLES
  carrier,    \* the serializer in play, or "none"
  line,       \* the carrier: [stage, sid, codec, said, held], its stream and how much it said
  inbox,      \* messages on their way to the socket
  ser,        \* the serializer: [sid, codec, started, open, paused, seq, clientSeq, pending]
  media,      \* what recv gave to the pump
  taken,      \* bot audio and clears that a send accepted
  outbox,     \* the writer's queue
  sock,       \* the write half: "open", "dropped" (tx is gone), "closed" or "broken"
  written,    \* how many messages of taken are on the wire
  playing,    \* the carrier's playout buffer
  keypad,     \* which DTMF path is in play: "none", "rfc2833" or "inband"
  pressed,    \* keys pressed so far
  packets,    \* packets or blocks of audio on their way: [key, end, press] or [low, high, press]
  receiver,   \* Rfc2833Receiver: [active, fired]; InbandDtmfDetector: [held]
  heard,      \* presses that were recognized (a letter is, though it gives no frame)
  net         \* packets lost or repeated so far

lineVars == <<line, inbox>>
sendVars == <<taken, outbox, sock, written, playing>>
keyVars == <<pressed, packets, receiver, heard, net>>
carrierVars == <<carrier, lineVars, ser, media, sendVars, keypad, keyVars>>

-----------------------------------------------------------------------------
(* Serializers: the next state and what on_message returns.                *)

NewSerializer(c) ==
  [sid |-> "none", codec |-> IF c = "none" THEN "ulaw" ELSE Serializers[c].codec,
   started |-> FALSE, open |-> FALSE, paused |-> FALSE, seq |-> 0, clientSeq |-> 0, pending |-> <<>>]

Ignore(s) == [next |-> s, out |-> <<>>]
Gives(s, kind, m) ==
  [next |-> s, out |-> <<[kind |-> kind, held |-> m.held, good |-> m.codec = s.codec]>>]

\* on_message of the serializers of events.
EventMessage(s, m) ==
  CASE m.kind = "start" -> Gives([s EXCEPT !.sid = m.sid], "StreamStart", m)
    [] m.kind = "media" -> Gives(s, "Audio", m)
    [] m.kind \in {"stop", "close"} -> Gives(s, "Stop", m)
    [] OTHER -> Ignore(s)

\* Telnyx takes the codec from the start event, and stays with the configured one when the
\* event has none or one that it does not know. The carrier here names its codec, or uses the
\* configured one, and speaks G.711.
TelnyxMessage(s, m) ==
  EventMessage(IF m.kind = "start" /\ m.codec \in {"ulaw", "alaw"} THEN [s EXCEPT !.codec = m.codec] ELSE s, m)

VonageMessage(s, m) ==
  CASE m.kind = "binary" -> Gives(s, "Audio", m)
    [] m.kind = "close" -> Gives(s, "Stop", m)
    [] m.kind = "connected" /\ ~ s.started -> Gives([s EXCEPT !.started = TRUE], "StreamStart", m)
    [] OTHER -> Ignore(s)

AsteriskMessage(s, m) ==
  CASE m.kind = "binary" -> Gives(s, "Audio", m)
    [] m.kind = "close" -> Gives(s, "Stop", m)
    [] OTHER -> Ignore(s)

\* GenesysSerializer::message: a response is numbered and echoes the client's number.
Queued(s, type) ==
  [s EXCEPT !.seq = @ + 1,
            !.pending = Append(@, [type |-> type, seq |-> s.seq + 1, clientSeq |-> s.clientSeq])]

GenesysText(s, m) ==
  CASE m.kind = "open" -> Gives(Queued([s EXCEPT !.open = TRUE, !.sid = m.sid], "opened"), "StreamStart", m)
    [] m.kind = "ping" -> Ignore(Queued(s, "pong"))
    [] m.kind = "end" -> Gives(Queued([s EXCEPT !.open = FALSE], "closed"), "Stop", m)
    [] m.kind = "pause" -> Ignore([s EXCEPT !.paused = TRUE])
    [] m.kind = "resume" -> Ignore([s EXCEPT !.paused = FALSE])
    [] OTHER -> Ignore(s)

GenesysMessage(s, m) ==
  CASE m.kind = "binary" -> IF s.open /\ ~ s.paused THEN Gives(s, "Audio", m) ELSE Ignore(s)
    [] m.kind = "close" -> Gives(s, "Stop", m)
    [] OTHER -> GenesysText([s EXCEPT !.clientSeq = m.n], m)

\* WsTransport: no serializer; the end of the socket is a stop as well.
WsMessage(s, m) ==
  CASE m.kind = "binary" -> Gives(s, "Audio", m)
    [] m.kind = "close" -> Gives(s, "Stop", m)
    [] OTHER -> Ignore(s)

OnMessage(m) ==
  CASE carrier = "telnyx" -> TelnyxMessage(ser, m)
    [] carrier # "telnyx" /\ Serializers[carrier].events -> EventMessage(ser, m)
    [] carrier = "vonage" -> VonageMessage(ser, m)
    [] carrier = "asterisk" -> AsteriskMessage(ser, m)
    [] carrier = "genesys" -> GenesysMessage(ser, m)
    [] carrier = "ws" -> WsMessage(ser, m)

\* encode_clear and encode_audio: the stream's name goes along if the start event had one.

\* Mutant: the clear names no stream.
EncodeClearBare == [kind |-> "clear", n |-> 0, sid |-> "none", codec |-> ser.codec]
EncodeClear == [kind |-> "clear", n |-> 0, codec |-> ser.codec,
                sid |-> IF Serializers[carrier].named THEN ser.sid ELSE "none"]
EncodeAudio(n) == [kind |-> "audio", n |-> n, codec |-> ser.codec,
                   sid |-> IF Serializers[carrier].named THEN ser.sid ELSE "none"]

-----------------------------------------------------------------------------
(* The carrier.                                                            *)

Says(kind, n) ==
  [kind |-> kind, n |-> n, sid |-> line.sid, codec |-> line.codec, held |-> line.held]

\* The messages that follow in the carrier's protocol.
MaySay(kind) ==
  CASE Serializers[carrier].events -> \/ kind = "start" /\ line.stage = "new"
                                      \/ kind \in {"media", "stop"} /\ line.stage = "up"
                                      \/ kind \in {"noise", "close"}
    [] carrier = "vonage" -> \/ kind = "connected" /\ line.stage = "new"
                             \/ kind = "binary" /\ line.stage = "up"
                             \/ kind \in {"noise", "close"}
    [] carrier = "genesys" -> \/ kind = "open" /\ line.stage = "new"
                              \/ kind \in {"binary", "ping", "pause", "resume", "end"} /\ line.stage = "up"
                              \/ kind = "close"
    [] OTHER -> kind \in {"binary", "noise", "close"}

CarrierSays(kind) ==
  /\ carrier # "none" /\ line.stage \in {"new", "up"} /\ line.said < MaxInbox /\ MaySay(kind)
  /\ inbox' = Append(inbox, Says(kind, line.said + 1))
  /\ line' = [line EXCEPT !.said = @ + 1,
                          !.held = (@ \/ kind = "pause") /\ kind # "resume",
                          !.stage = CASE kind \in {"stop", "end", "close"} -> "down"
                                      [] kind = "noise" -> @
                                      [] OTHER -> "up"]
  /\ UNCHANGED <<carrier, ser, media, sendVars, keypad, keyVars>>

-----------------------------------------------------------------------------
(* The transport.                                                          *)

Ended == media # <<>> /\ media[Len(media)].kind = "Stop"
Started == \E k \in DOMAIN media : media[k].kind = "StreamStart"
Chunks == Cardinality({k \in DOMAIN taken : taken[k].kind = "audio"})

\* recv: the next message, until one gives something. The plain socket reports the
\* stream before it reads.
Recv ==
  /\ carrier # "none" /\ ~ Ended
  /\ IF carrier = "ws" /\ ~ ser.started
     THEN /\ ser' = [ser EXCEPT !.started = TRUE]
          /\ media' = Append(media, [kind |-> "StreamStart", held |-> FALSE, good |-> TRUE])
          /\ UNCHANGED inbox
     ELSE /\ inbox # <<>> /\ inbox' = Tail(inbox)
          /\ LET r == OnMessage(Head(inbox)) IN ser' = r.next /\ media' = media \o r.out
  /\ UNCHANGED <<carrier, line, sendVars, keypad, keyVars>>

\* The socket ended without a close: recv returns None, which the pump takes for a stop.
RecvEnds ==
  /\ carrier # "none" /\ line.stage \in {"new", "up"} /\ inbox = <<>> /\ ~ Ended
  /\ line' = [line EXCEPT !.stage = "down"]
  /\ media' = Append(media, [kind |-> "Stop", held |-> FALSE, good |-> TRUE])
  /\ UNCHANGED <<carrier, inbox, ser, sendVars, keypad, keyVars>>

\* send_audio and send_clear put the message on the writer's queue; once the writer is
\* gone they fail.
SendOut(m) ==
  /\ sock = "open"
  /\ taken' = Append(taken, m) /\ outbox' = Append(outbox, m)
  /\ UNCHANGED <<carrier, lineVars, ser, media, sock, written, playing, keypad, keyVars>>

SendAudio ==
  /\ carrier # "none" /\ Started /\ Chunks < MaxChunks
  /\ SendOut(EncodeAudio(Chunks + 1))

SendClear ==
  /\ carrier # "none" /\ Started /\ Serializers[carrier].clears
  /\ taken # <<>> /\ taken[Len(taken)].kind = "audio"
  /\ SendOut(EncodeClear)

\* The call is over: the socket is dropped and with it the sender of the queue.
DropSocket ==
  /\ sock = "open" /\ Ended /\ sock' = "dropped"
  /\ UNCHANGED <<carrier, lineVars, ser, media, taken, outbox, written, playing, keypad, keyVars>>

\* What the carrier does with a message: it plays audio, and a clear empties its buffer.
Played(m) ==
  IF Serializers[carrier].named /\ m.sid # line.sid THEN playing
  ELSE IF m.kind = "clear" THEN <<>>
  ELSE Append(playing, [n |-> m.n, good |-> m.codec = line.codec])

\* The writer task: it writes what is queued, also after the drop, then closes the sink.
Writer ==
  /\ sock \in {"open", "dropped"} /\ (outbox # <<>> \/ sock = "dropped")
  /\ IF outbox = <<>> THEN sock' = "closed" /\ UNCHANGED <<outbox, written, playing>>
     ELSE /\ outbox' = Tail(outbox) /\ written' = written + 1
          /\ playing' = Played(Head(outbox)) /\ UNCHANGED sock
  /\ UNCHANGED <<carrier, lineVars, ser, media, taken, keypad, keyVars>>

\* A write fails: the writer ends, and the queue is closed to the senders.
WriterFails ==
  /\ sock \in {"open", "dropped"} /\ outbox # <<>> /\ sock' = "broken" /\ outbox' = <<>>
  /\ UNCHANGED <<carrier, lineVars, ser, media, taken, written, playing, keypad, keyVars>>

\* The carrier plays a chunk.
Playout ==
  /\ playing # <<>> /\ playing' = Tail(playing)
  /\ UNCHANGED <<carrier, lineVars, ser, media, taken, outbox, sock, written, keypad, keyVars>>

-----------------------------------------------------------------------------
(* Key presses.                                                            *)

Symbols == {"1", "5", "A"}

\* Rfc2833Sender::encode_symbol.
EncodeSymbol(key, press) ==
  [k \in 1 .. TonePackets + 1 |-> [key |-> key, end |-> k = TonePackets + 1, press |-> press]]

\* on_payload of the receiver: its next state and whether the press is recognized.
OnPayload(r, p) ==
  LET s == IF r.active = p.key THEN r ELSE [active |-> p.key, fired |-> FALSE] IN
  [next |-> [s EXCEPT !.fired = @ \/ p.end], fires |-> p.end /\ ~ s.fired]

\* A block of audio: the energies of the low and of the high tones. Row and column of a key.
Row(key) == IF key = "5" THEN 2 ELSE 1
Column(key) == CASE key = "1" -> 1 [] key = "5" -> 2 [] key = "A" -> 4
Tone(k, loud) == [j \in 1 .. 4 |-> IF j = k THEN loud ELSE 0]
Floor == 2  \* energy_floor

\* argmax and second_max.
Peak(e) == CHOOSE j \in 1 .. 4 : (\A i \in 1 .. 4 : e[i] <= e[j]) /\ (\A i \in 1 .. j - 1 : e[i] < e[j])
Second(e, j) == CHOOSE m \in {e[i] : i \in (1 .. 4) \ {j}} : \A i \in (1 .. 4) \ {j} : e[i] <= m

\* detect: a peak in each group that is loud, that dominates its group by two to one, and
\* that the other group's does not outweigh by more than 8 dB (63 to 10).
Detect(b) ==
  LET l == Peak(b.low) h == Peak(b.high)
      el == b.low[l] eh == b.high[h] IN
  IF /\ el >= Floor /\ eh >= Floor
     /\ 2 * Second(b.low, l) <= el /\ 2 * Second(b.high, h) <= eh
     /\ 10 * el <= 63 * eh /\ 10 * eh <= 63 * el
  THEN {key \in Symbols : Row(key) = l /\ Column(key) = h} ELSE {}

\* on_audio of the in-band detector: a tone is a press when it was not held.
OnAudio(r, b) ==
  LET found == Detect(b) IN [next |-> [held |-> found], fires |-> found # {} /\ found # r.held]

\* The far end presses a key. In the audio the tone takes up to two blocks, and silence,
\* or a voice with tones of its own, comes between two presses.
Press(key) ==
  /\ keypad = "rfc2833" /\ Len(pressed) < MaxPresses
  /\ pressed' = Append(pressed, key)
  /\ packets' = packets \o EncodeSymbol(key, Len(pressed) + 1)
  /\ UNCHANGED <<carrier, lineVars, ser, media, sendVars, keypad, receiver, heard, net>>

PressInband(key, blocks, loud, gap) ==
  /\ keypad = "inband" /\ Len(pressed) < MaxPresses
  /\ pressed' = Append(pressed, key)
  /\ packets' = packets
       \o [k \in 1 .. blocks |-> [low |-> Tone(Row(key), loud), high |-> Tone(Column(key), 4),
                                  press |-> Len(pressed) + 1]]
       \o <<[low |-> gap, high |-> gap, press |-> 0]>>
  /\ UNCHANGED <<carrier, lineVars, ser, media, sendVars, keypad, receiver, heard, net>>

\* RTP loses a packet, or a packet comes twice (the end packet is sent again on purpose).
Loses ==
  /\ keypad = "rfc2833" /\ packets # <<>> /\ net < MaxNet
  /\ net' = net + 1 /\ packets' = Tail(packets)
  /\ UNCHANGED <<carrier, lineVars, ser, media, sendVars, keypad, pressed, receiver, heard>>
Repeats ==
  /\ keypad = "rfc2833" /\ packets # <<>> /\ net < MaxNet
  /\ net' = net + 1 /\ packets' = <<Head(packets)>> \o packets
  /\ UNCHANGED <<carrier, lineVars, ser, media, sendVars, keypad, pressed, receiver, heard>>

Hears ==
  /\ packets # <<>> /\ packets' = Tail(packets)
  /\ LET p == Head(packets)
         r == IF keypad = "rfc2833" THEN OnPayload(receiver, p) ELSE OnAudio(receiver, p) IN
     /\ receiver' = r.next
     /\ heard' = IF r.fires THEN Append(heard, p.press) ELSE heard
  /\ UNCHANGED <<carrier, lineVars, ser, media, sendVars, keypad, pressed, net>>

-----------------------------------------------------------------------------
CarrierInit ==
  /\ \E c \in DOMAIN Serializers \union {"none"},
        k \in {"none", "rfc2833", "inband"}, sid \in {"none", "s1"},
        codec \in {"ulaw", "alaw", "pcm16"} :
       /\ (c = "none") # (k = "none")
       /\ sid = "s1" => c # "none" /\ (c = "genesys" \/ Serializers[c].events)
       /\ codec = NewSerializer(c).codec \/ (c = "telnyx" /\ codec = "alaw")
       /\ carrier = c /\ keypad = k /\ ser = NewSerializer(c)
       /\ line = [stage |-> "new", sid |-> sid, codec |-> codec, said |-> 0, held |-> FALSE]
       /\ receiver = IF k = "inband" THEN [held |-> {}] ELSE [active |-> "none", fired |-> FALSE]
  /\ inbox = <<>> /\ media = <<>> /\ taken = <<>> /\ outbox = <<>> /\ sock = "open"
  /\ written = 0 /\ playing = <<>>
  /\ pressed = <<>> /\ packets = <<>> /\ heard = <<>> /\ net = 0

CarrierNext ==
  \/ \E kind \in {"start", "media", "stop", "noise", "connected", "binary", "open", "ping",
                  "pause", "resume", "end", "close"} : CarrierSays(kind)
  \/ Recv \/ RecvEnds \/ SendAudio \/ SendClear \/ DropSocket \/ Writer \/ WriterFails \/ Playout
  \/ \E key \in Symbols : Press(key)
  \/ \E key \in Symbols, blocks \in 1 .. 2, loud \in {3, 4, 30}, gap \in {Tone(1, 0), <<4, 3, 0, 0>>} :
       PressInband(key, blocks, loud, gap)
  \/ Loses \/ Repeats \/ Hears

CarrierSpec == CarrierInit /\ [][CarrierNext]_carrierVars

-----------------------------------------------------------------------------
(* Properties.                                                             *)

\* Audio is decoded by the codec it was encoded with, in both directions, also when the
\* codec is settled only by the start event (TelnyxSerializer).
CodecsAgree ==
  /\ \A k \in DOMAIN media : media[k].kind = "Audio" => media[k].good
  /\ \A k \in DOMAIN playing : playing[k].good

\* After a barge-in the carrier holds no audio from before it, once the clear is through
\* the writer's queue: the clear reaches the stream it is for and overtakes nothing
\* (encode_clear, AxumWsSocket).
BargeInSilences ==
  \A k \in 1 .. written : taken[k].kind = "clear" =>
    \A j \in DOMAIN playing : \E i \in k .. written : taken[i].kind = "audio" /\ taken[i].n = playing[j].n

\* What a send accepted is written, in order, before the socket is closed: a bot's last
\* words are not cut off by the end of the call (AxumWsSocket::new).
AcceptedWritten ==
  /\ outbox = SubSeq(taken, written + 1, Len(taken)) \/ sock = "broken"
  /\ sock = "closed" => written = Len(taken)

\* The caller's audio is handed on only while the session is open and not on hold, however
\* the messages are queued (GenesysSerializer::on_message).
HoldRespected ==
  carrier = "genesys" =>
    \A k \in DOMAIN media : media[k].kind = "Audio" => ~ media[k].held

\* One press is one key at most, over repeated, lost and held tones; a voice between two
\* presses is none (Rfc2833Receiver, InbandDtmfDetector).
NoGhostKeys == \A k \in 2 .. Len(heard) : heard[k - 1] < heard[k]

\* The call and the carrier agree on what is heard: codec, flushes, the last words, holds
\* and keys, over queues on both sides of the socket.
CarriersAgree ==
  CodecsAgree /\ BargeInSilences /\ AcceptedWritten /\ HoldRespected /\ NoGhostKeys

\* As the doc of the receiver has it, every press whose packets arrive is heard.
KeysHeard ==
  keypad = "rfc2833" /\ packets = <<>> /\ net = 0 => Len(heard) = Len(pressed)

\* As the comment of the serializer has it, the transport reports the session start of a
\* carrier that has no start event.
SessionStarts ==
  \A k \in DOMAIN media : media[k].kind = "Audio" => \E j \in 1 .. k : media[j].kind = "StreamStart"

\* As the doc of the serializer has it, the responses of the handshake are sent.
HandshakeAnswered == sock = "closed" => ser.pending = <<>>
=============================================================================
