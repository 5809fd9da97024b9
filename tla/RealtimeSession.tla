-------------------------- MODULE RealtimeSession ---------------------------
(***************************************************************************)
(* A session with a speech-to-speech provider, from the provider's frames  *)
(* to the events that the reader of RealtimeCall polls: the socket's own   *)
(* reader task, the event queue with its Notify, and for Gemini Live the   *)
(* resumption of a session that was dropped and the reopening of one whose *)
(* prompt changes. The client's methods hold the session's lock.           *)
(***************************************************************************)
EXTENDS Integers, Sequences, SequencesExt

CONSTANTS
  Ceiling,    \* MAX_CONSECUTIVE_RECONNECTS
  MaxFrames,  \* bound: frames from the provider
  MaxDrops,   \* bound: sockets that the provider closes
  MaxUpdates  \* bound: changes of the prompt

ASSUME SessionAssumption ==
  Ceiling \in Nat /\ MaxFrames \in Nat /\ MaxDrops \in Nat /\ MaxUpdates \in Nat

VARIABLES
  provider,   \* the protocol: "gemini", "openai" or "ultravox"
  conn,       \* whether there is a connection
  socket,     \* its reader task: "live" or "gone"
  evQueue,    \* its decoded events, with Lost or Closed at the end
  conv,       \* the conversation that the provider continues on it
  handle,     \* the conversation that the resumption handle resumes, or 0
  prompt,     \* the conversation that the current prompt began
  tries,      \* consecutive_reconnects
  update,     \* how far update_system is: "idle", "cleared" or "closed"
  permit,     \* the permit of the Notify
  consumer,   \* "poll", "wait", or "over": it has been told that the session ended
  decoded, delivered,  \* events the provider sent, and those the consumer got
  drops,      \* sockets lost since the consumer got an event
  ceilingHit, \* the session was ended because of the ceiling
  frames, lost, updates \* how much of each bound is used up

link == <<conn, socket, evQueue, conv>>
resume == <<handle, prompt, tries>>
client == <<permit, consumer, decoded, delivered, drops, ceilingHit>>
used == <<frames, lost, updates>>
sessionVars == <<provider, link, resume, update, client, used>>

\* Clients that wrap the OpenAI one: every call goes to it.
AzureRealtime == "openai"
GrokRealtime == "openai"
InworldRealtime == "openai"

SessionInit ==
  /\ provider \in {"gemini", "openai", "ultravox", AzureRealtime, GrokRealtime, InworldRealtime}
  /\ conn = TRUE /\ socket = "live" /\ evQueue = <<>> /\ conv = 1
  /\ handle = 0 /\ prompt = 1 /\ tries = 0 /\ update = "idle"
  /\ permit = FALSE /\ consumer = "poll" /\ decoded = <<>> /\ delivered = <<>>
  /\ drops = 0 /\ ceilingHit = FALSE
  /\ frames = 0 /\ lost = 0 /\ updates = 0

-----------------------------------------------------------------------------
(* Decoding. A frame is the set of the fields it carries.                  *)

Fields == {"audio", "user", "bot", "tool", "usage", "interrupted", "away", "handle"}

\* The event of one field, if the frame carries it.
Carried(f, field) == IF field \in f THEN <<field>> ELSE <<>>

\* One Gemini frame may carry several events, and a goAway behind them.
GeminiDecode(f) ==
  Carried(f, "interrupted") \o Carried(f, "audio") \o Carried(f, "user") \o Carried(f, "bot")
    \o Carried(f, "tool") \o Carried(f, "usage")

GeminiFrames == {{x} : x \in Fields} \union {{"bot", "away"}, {"bot", "usage", "handle"}}

\* An OpenAI frame is one event, or a server error, which is none and ends the session.
OpenAiDecode(f) == IF f = {"away"} THEN <<>> ELSE <<CHOOSE x \in f : TRUE>>
OpenAiFrames == {{x} : x \in Fields \ {"handle"}}

\* Ultravox has no frame for usage or for a barge-in; the end of the bot's turn is a
\* state frame that yields no event.
UltravoxDecode(f) == IF f \subseteq {"usage", "interrupted"} THEN <<>> ELSE <<CHOOSE x \in f : TRUE>>
UltravoxFrames == {{x} : x \in Fields \ {"handle", "away"}}

Decode(f) ==
  CASE provider = "gemini" -> GeminiDecode(f)
    [] provider = "openai" -> OpenAiDecode(f)
    [] OTHER -> UltravoxDecode(f)

FramesOf ==
  CASE provider = "gemini" -> GeminiFrames
    [] provider = "openai" -> OpenAiFrames
    [] OTHER -> UltravoxFrames

Numbered(evs) == [k \in DOMAIN evs |-> [kind |-> evs[k], nr |-> Len(decoded) + k]]
Lost == [kind |-> "Lost", nr |-> 0]
Closed == [kind |-> "Closed", nr |-> 0]

\* What a reader task leaves when its socket ends: Gemini may resume, the others are over.
GeminiLoss == Lost
OpenAiLoss == Closed
UltravoxLoss == Closed
SocketLoss ==
  CASE provider = "gemini" -> GeminiLoss
    [] provider = "openai" -> OpenAiLoss
    [] provider = "ultravox" -> UltravoxLoss

-----------------------------------------------------------------------------
(* The reader task of the socket.                                          *)

\* forward_frame, and notify_one. A Gemini goAway is a request to resume, an OpenAI error the end.
ForwardFrame(f) ==
  /\ conn /\ socket = "live" /\ f \in FramesOf
  /\ frames < MaxFrames /\ frames' = frames + 1
  /\ LET evs == Numbered(Decode(f))
         ends == "away" \in f IN
     /\ evQueue' = (evQueue \o evs) \o (IF ends THEN <<SocketLoss>> ELSE <<>>)
     /\ decoded' = decoded \o evs
     /\ socket' = IF ends THEN "gone" ELSE "live"
     /\ permit' = TRUE
  /\ handle' = IF "handle" \in f THEN conv ELSE handle
  /\ UNCHANGED <<provider, conn, conv, prompt, tries, update, consumer, delivered, drops,
                 ceilingHit, lost, updates>>

\* Mutant of SocketClosed: the consumer is not woken.
SocketClosedQuietly ==
  /\ conn /\ socket = "live" /\ socket' = "gone"
  /\ lost < MaxDrops /\ lost' = lost + 1
  /\ evQueue' = Append(evQueue, SocketLoss)
  /\ UNCHANGED <<provider, conn, conv, resume, update, permit, consumer, decoded, delivered,
                 drops, ceilingHit, frames, updates>>

\* The server closes the socket, or it fails: Gemini may resume, the others are over.
SocketClosed ==
  /\ conn /\ socket = "live" /\ socket' = "gone"
  /\ lost < MaxDrops /\ lost' = lost + 1
  /\ evQueue' = Append(evQueue, SocketLoss)
  /\ permit' = TRUE
  /\ UNCHANGED <<provider, conn, conv, resume, update, consumer, decoded, delivered,
                 drops, ceilingHit, frames, updates>>

-----------------------------------------------------------------------------
(* poll_event and next_event, under the session's lock.                    *)

\* update_system holds the lock until the new connection is there.
Unlocked == update = "idle"

Deliver ==
  /\ Unlocked /\ consumer = "poll" /\ conn /\ evQueue # <<>>
  /\ Head(evQueue).kind \notin {"Lost", "Closed"}
  /\ evQueue' = Tail(evQueue) /\ delivered' = Append(delivered, Head(evQueue))
  /\ tries' = 0 /\ drops' = 0
  /\ UNCHANGED <<provider, conn, socket, conv, handle, prompt, update, permit, consumer,
                 decoded, ceilingHit, used>>

\* Closed, or the evQueue of a connection that is not there.
DeliverEnd ==
  /\ Unlocked /\ consumer = "poll"
  /\ ~ conn \/ (evQueue # <<>> /\ Head(evQueue).kind = "Closed")
  /\ consumer' = "over"
  /\ UNCHANGED <<provider, link, resume, update, permit, decoded, delivered, drops, ceilingHit,
                 used>>

\* An Ultravox session has no Notify: its next_event waits for the evQueue itself.
Pending ==
  /\ Unlocked /\ consumer = "poll" /\ conn /\ evQueue = <<>>
  /\ provider # "ultravox"
  /\ consumer' = "wait"
  /\ UNCHANGED <<provider, link, resume, update, permit, decoded, delivered, drops, ceilingHit,
                 used>>

Notified ==
  /\ consumer = "wait" /\ permit
  /\ consumer' = "poll" /\ permit' = FALSE
  /\ UNCHANGED <<provider, link, resume, update, decoded, delivered, drops, ceilingHit, used>>

\* Mutant of TryReconnect: a socket that opens again resets the counter.
TryReconnectReset ==
  /\ Unlocked /\ consumer = "poll" /\ conn /\ evQueue # <<>> /\ Head(evQueue).kind = "Lost"
  /\ drops' = drops + 1
  /\ IF handle = 0 \/ tries >= Ceiling
     THEN /\ consumer' = "over" /\ ceilingHit' = (handle # 0)
          /\ UNCHANGED <<link, tries>>
     ELSE /\ tries' = 0 /\ UNCHANGED ceilingHit
          /\ socket' = "live" /\ evQueue' = <<>> /\ conv' = handle /\ UNCHANGED <<conn, consumer>>
  /\ UNCHANGED <<provider, handle, prompt, update, permit, decoded, delivered, used>>

\* try_reconnect: with a handle, below the ceiling, and if the socket opens again.
TryReconnect ==
  /\ Unlocked /\ consumer = "poll" /\ conn /\ evQueue # <<>> /\ Head(evQueue).kind = "Lost"
  /\ drops' = drops + 1
  /\ IF handle = 0 \/ tries >= Ceiling
     THEN /\ consumer' = "over" /\ ceilingHit' = (handle # 0)
          /\ UNCHANGED <<link, tries>>
     ELSE /\ tries' = tries + 1 /\ UNCHANGED ceilingHit
          /\ \/ /\ socket' = "live" /\ evQueue' = <<>> /\ conv' = handle
                /\ UNCHANGED <<conn, consumer>>
             \/ /\ conn' = FALSE /\ socket' = "gone" /\ evQueue' = <<>> /\ consumer' = "over"
                /\ UNCHANGED conv
  /\ UNCHANGED <<provider, handle, prompt, update, permit, decoded, delivered, used>>

-----------------------------------------------------------------------------
(* update_system, send_audio.                                              *)

\* OpenAI changes the prompt of the session it has; Ultravox ignores the change.
UpdateInSession ==
  /\ Unlocked /\ provider # "gemini" /\ consumer # "over" /\ conn
  /\ updates < MaxUpdates /\ updates' = updates + 1
  /\ IF provider = "openai" THEN prompt' = prompt + 1 /\ conv' = prompt' ELSE UNCHANGED <<prompt, conv>>
  /\ UNCHANGED <<provider, conn, socket, evQueue, handle, tries, update, client, frames, lost>>

\* Gemini forgets the handle, closes the connection and opens another one.
UpdateClear ==
  /\ Unlocked /\ provider = "gemini" /\ consumer # "over"
  /\ updates < MaxUpdates /\ updates' = updates + 1
  /\ handle' = 0 /\ update' = "cleared"
  /\ UNCHANGED <<provider, link, prompt, tries, client, frames, lost>>

\* What the old connection had decoded and the consumer has not fetched is dropped.
UpdateClose ==
  /\ update = "cleared" /\ update' = "closed"
  /\ conn' = FALSE /\ socket' = "gone" /\ evQueue' = <<>>
  /\ decoded' = delivered
  /\ UNCHANGED <<provider, conv, resume, permit, consumer, delivered, drops, ceilingHit, used>>

UpdateOpen ==
  /\ update = "closed" /\ update' = "idle"
  /\ \/ /\ conn' = TRUE /\ socket' = "live" /\ prompt' = prompt + 1 /\ conv' = prompt'
     \/ UNCHANGED <<conn, socket, prompt, conv>>
  /\ UNCHANGED <<provider, evQueue, handle, tries, client, used>>

\* Caller audio fails without a connection, and the service ends the call.
SendAudio ==
  /\ Unlocked /\ ~ conn /\ consumer # "over"
  /\ consumer' = "over"
  /\ UNCHANGED <<provider, link, resume, update, permit, decoded, delivered, drops, ceilingHit,
                 used>>

-----------------------------------------------------------------------------
SessionNext ==
  \/ \E f \in FramesOf : ForwardFrame(f)
  \/ SocketClosed
  \/ Deliver \/ DeliverEnd \/ Pending \/ Notified \/ TryReconnect
  \/ UpdateInSession \/ UpdateClear \/ UpdateClose \/ UpdateOpen
  \/ SendAudio

SessionSpec == SessionInit /\ [][SessionNext]_sessionVars

Consumer == Deliver \/ DeliverEnd \/ Pending \/ Notified \/ TryReconnect
Updater == UpdateClose \/ UpdateOpen

-----------------------------------------------------------------------------
(* Properties.                                                             *)

\* The events in the queue: all of it but the mark at its end.
Unmarked(q) == IF q # <<>> /\ q[Len(q)].kind \in {"Lost", "Closed"} THEN Front(q) ELSE q

\* A drop is transparent to the consumer: it gets what the provider sent, in order and
\* without a gap, over however many sockets (a change of the prompt drops the rest).
NothingSkipped ==
  decoded = delivered \o Unmarked(evQueue)

\* A session that drops again and again ends at the ceiling, and not before it: an
\* event in between gives it the whole budget back.
CeilingExact ==
  /\ drops <= Ceiling + 1
  /\ drops = Ceiling + 1 => consumer = "over"
  /\ ceilingHit => drops = Ceiling + 1

\* No wakeup is lost: what is queued is fetched.
EventsFetched == evQueue # <<>> ~> (evQueue = <<>> \/ consumer = "over")

\* A session that could not be reopened does not leave a call behind that nobody ends.
NoZombie == ~ conn ~> (conn \/ consumer = "over")

\* update_system: the session that a change of the prompt has opened is the one that
\* a later drop resumes, as its comment says the new prompt must take effect.
NewPromptSticks == update = "idle" /\ conn /\ provider = "gemini" => conv = prompt

\* A realtime session survives its sockets: nothing is skipped over a reconnect, and there
\* are as many of them as the ceiling allows.
SessionWhole == NothingSkipped /\ CeilingExact

\* A session that has something for the call is heard, and one that is lost ends the call.
SessionRecovers == EventsFetched /\ NoZombie
=============================================================================
