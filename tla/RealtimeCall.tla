---------------------------- MODULE RealtimeCall ----------------------------
(***************************************************************************)
(* The speech-to-speech call: the transport pump, the realtime service     *)
(* with its reader task, the brain, and the stages behind the brain down   *)
(* to Finalize (one stage here: each of them hands on what it receives in  *)
(* order). The frames of a stage are in two channels, and the system       *)
(* channel is served first, as in ProcessorChain. The provider's session   *)
(* and the carrier's transport are each behind a mutex that two tasks use. *)
(***************************************************************************)
EXTENDS Integers, Sequences, FiniteSets

CONSTANTS
  Notifies,   \* whether the provider has an event_notify
  MaxEvents,  \* bound: events of the provider
  MaxAudio    \* bound: caller audio frames waiting in front of the service

ASSUME RealtimeAssumption ==
  Notifies \in BOOLEAN /\ MaxEvents \in Nat /\ MaxAudio \in Nat \ {0}

Stages == {"svc", "brain", "tail"}
Parties == {"carrier", "session", "service", "brain", "cancel"}
Frame(kind, nr) == [kind |-> kind, nr |-> nr]
End == Frame("End", 0)
System == {"connected", "audio", "result", "reprompt", "call", "Interruption", "Cancel"}
NoReport == [phase |-> "none", lines |-> {}, disposition |-> FALSE, uploads |-> {}]

VARIABLES
  stream,     \* the carrier's stream: "new", "started" or "stopped"
  pump,       \* the transport pump: "off", "recv" or "done"
  tlock,      \* who holds the transport, or may take it next: "pump" or "tail"
  asked,      \* the parties whose request to end the call has found the head there
  forwarded,  \* the first of these Ends, or a Cancel, is past the head
  sys, norm,  \* the two channels of every stage
  pc,         \* what a stage is doing: "idle", an await of its handler, or "done"
  kicked,     \* kicked_off
  session,    \* the provider's session: "up" or "dead"
  events,     \* what it has to say and the reader has not fetched
  due,        \* the provider has something to answer
  nr,         \* events so far
  slock,      \* who holds the session across an await: "free" or "reader"
  reader,     \* the reader task: "off", "poll", "blocked", "wait", "broadcast", "done"
  permit,     \* the permit of the Notify
  partial,    \* bot_partial: the events whose text is not flushed
  current,    \* the tool call the brain works on
  open,       \* tool calls handed to the brain and not answered
  pushed, drained, \* lines the reader pushed, and those a barge-in threw away
  state,      \* LiveState: [lines, disposition]
  report      \* what Finalize has handed over

netVars == <<stream, pump, tlock>>
endVars == <<asked, forwarded>>
sessVars == <<kicked, session, events, due, nr, slock>>
readVars == <<reader, permit, partial>>
brainVars == <<current, open>>
doneVars == <<drained, state, report>>
vars == <<netVars, endVars, sys, norm, pc, sessVars, readVars, brainVars, pushed, doneVars>>

Init ==
  /\ stream = "new" /\ pump = "off" /\ tlock = "pump"
  /\ asked = {} /\ forwarded = FALSE
  /\ sys = [s \in Stages |-> <<>>] /\ norm = [s \in Stages |-> <<>>]
  /\ pc = [s \in Stages |-> "idle"]
  /\ kicked = FALSE /\ events = <<>> /\ due = FALSE /\ nr = 0 /\ slock = "free"
  /\ reader = "off" /\ permit = FALSE /\ partial = {}
  /\ current = 0 /\ open = {} /\ pushed = {} /\ drained = {}
  /\ state = [lines |-> {}, disposition |-> FALSE]
  /\ session = "dead" /\ report = NoReport

-----------------------------------------------------------------------------
(* Channels.                                                               *)

\* A stage that has left its loop has dropped its receivers.
Put(ch, s, fs) == IF pc[s] = "done" THEN ch ELSE [ch EXCEPT ![s] = @ \o fs]

\* The frames of one push are of one class here, and go into the channel of that class.
SystemClass(fs) == \A k \in 1 .. Len(fs) : fs[k].kind \in System
Deliver(sys1, norm1, s, fs) ==
  /\ sys' = IF SystemClass(fs) THEN Put(sys1, s, fs) ELSE sys1
  /\ norm' = IF SystemClass(fs) THEN norm1 ELSE Put(norm1, s, fs)
Push(s, fs) == Deliver(sys, norm, s, fs)

Ready(s) == pc[s] = "idle" /\ (sys[s] # <<>> \/ norm[s] # <<>>)
Received(s) == IF sys[s] # <<>> THEN Head(sys[s]) ELSE Head(norm[s])

\* What taking its next frame leaves in the channels of stage s.
SysLeft(s) == IF sys[s] # <<>> THEN [sys EXCEPT ![s] = Tail(@)] ELSE sys
NormLeft(s) == IF sys[s] # <<>> THEN norm ELSE [norm EXCEPT ![s] = Tail(@)]
Receive(s) == sys' = SysLeft(s) /\ norm' = NormLeft(s)

\* Stage s takes its next frame and hands fs to stage t.
ReceiveAndPush(s, t, fs) == Deliver(SysLeft(s), NormLeft(s), t, fs)

Goto(s, at) == pc' = [pc EXCEPT ![s] = at]
Ask(p) == asked' = IF forwarded THEN asked ELSE asked \union {p}

-----------------------------------------------------------------------------
(* The assembler, the transport pump and the head of the pipeline.         *)

Connect ==
  /\ pump = "off" /\ pump' = "recv" /\ session' = "up"
  /\ UNCHANGED <<stream, tlock, endVars, sys, norm, pc, kicked, events, due, nr, slock,
                 readVars, brainVars, pushed, doneVars>>

\* connect failed: no task is built, and the call is finalized at once.
ConnectFails ==
  /\ pump = "off" /\ pump' = "done" /\ Ask("session") /\ forwarded' = TRUE
  /\ pc' = [s \in Stages |-> IF s = "tail" THEN "failed" ELSE "done"]
  /\ UNCHANGED <<stream, tlock, sys, norm, sessVars, readVars, brainVars, pushed, doneVars>>

\* The mutex is first come, first served: a send that waits gets the transport when recv
\* has returned, and the pump gets it back after that.
Pumped(next) ==
  /\ pump = "recv" /\ tlock = "pump" /\ pump' = next
  /\ tlock' = IF pc["tail"] = "send" THEN "tail" ELSE "pump"

PumpStart ==
  /\ Pumped("recv")
  /\ stream = "new" /\ stream' = "started"
  /\ IF forwarded THEN UNCHANGED <<sys, norm>> ELSE Push("svc", <<Frame("connected", 0)>>)
  /\ UNCHANGED <<endVars, pc, sessVars, readVars, brainVars, pushed, doneVars>>

\* A frame of caller audio; once the head is gone the pump leaves its loop.
PumpAudio ==
  /\ stream = "started" /\ UNCHANGED stream
  /\ Pumped(IF forwarded THEN "done" ELSE "recv")
  /\ IF forwarded \/ Cardinality({k \in DOMAIN sys.svc : sys.svc[k].kind = "audio"}) = MaxAudio
     THEN UNCHANGED <<sys, norm>> ELSE Push("svc", <<Frame("audio", 0)>>)
  /\ UNCHANGED <<endVars, pc, sessVars, readVars, brainVars, pushed, doneVars>>

PumpStop ==
  /\ Pumped("done")
  /\ stream' = "stopped" /\ Ask("carrier")
  /\ UNCHANGED <<forwarded, sys, norm, pc, sessVars, readVars, brainVars, pushed, doneVars>>

\* An end request reaches the head, and its End goes down to the service.
HeadEnd ==
  /\ asked \ {"cancel"} # {} /\ ~ forwarded
  /\ forwarded' = TRUE
  /\ Push("svc", <<End>>)
  /\ UNCHANGED <<netVars, asked, pc, sessVars, readVars, brainVars, pushed, doneVars>>

CancelTask ==
  /\ pump # "off" /\ ~ forwarded
  /\ forwarded' = TRUE /\ Ask("cancel")
  /\ Push("svc", <<Frame("Cancel", 0)>>)
  /\ UNCHANGED <<netVars, pc, sessVars, readVars, brainVars, pushed, doneVars>>

\* stop() has asked for the reader's end: abort() takes effect where the reader next waits.
Stopped == pc["svc"] = "done"

-----------------------------------------------------------------------------
(* The provider: it speaks when it was spoken to, and may drop the session *)
(* for good at any time. An event after stop() is as good as one before it *)
(* that the reader has not fetched.                                        *)

ProviderEvent(kind) ==
  /\ session = "up" /\ reader # "done" /\ ~ Stopped /\ nr < MaxEvents /\ nr' = nr + 1
  /\ kind \in {"usage", "Closed"} \/ due
  /\ due' = (due /\ kind # "usage")
  /\ events' = Append(events, Frame(kind, nr'))
  /\ permit' = TRUE
  /\ UNCHANGED <<netVars, endVars, sys, norm, pc, kicked, session, slock, reader, partial,
                 brainVars, pushed, doneVars>>

-----------------------------------------------------------------------------
(* The reader task of the service.                                         *)

\* flush_bot: the bot's line, numbered by its last delta.
Flush == IF partial = {} THEN <<>>
         ELSE <<Frame("line", CHOOSE n \in partial : \A m \in partial : m <= n)>>
Lines(fs) == {fs[k].nr : k \in {j \in 1 .. Len(fs) : fs[j].kind = "line"}}

\* The frames that an event sends down, after the flush where it is a boundary.
Emitted(e) ==
  CASE e.kind = "user" -> <<Frame("line", e.nr)>>
    [] e.kind = "speech" -> <<e>>
    [] e.kind = "call" -> <<e>>
    [] e.kind = "usage" -> Flush \o <<e>>
    [] e.kind \in {"Interrupted", "Closed"} -> Flush
    [] OTHER -> <<>>

HandleEvent(e) ==
  /\ Push("brain", Emitted(e))
  /\ pushed' = IF Stopped THEN pushed ELSE pushed \union Lines(Emitted(e))
  /\ open' = IF e.kind = "call" /\ pc["brain"] # "done" THEN open \union {e.nr} ELSE open
  /\ partial' = IF e.kind = "bot" THEN partial \union {e.nr}
                ELSE IF e.kind \in {"usage", "Interrupted", "Closed"} THEN {} ELSE partial
  /\ reader' = CASE e.kind = "Interrupted" -> "broadcast" [] e.kind = "Closed" -> "done"
                 [] OTHER -> "poll"
  /\ IF e.kind = "Closed" THEN Ask("session") ELSE UNCHANGED asked

\* One event, fetched under the lock; or the end of the stream, None.
ReaderEvent ==
  /\ \/ reader = "poll" /\ slock = "free"
     \/ reader = "blocked" /\ ~ Stopped
  /\ events # <<>> \/ session = "dead"
  /\ slock' = "free"
  /\ HandleEvent(IF events # <<>> THEN Head(events) ELSE Frame("Closed", nr))
  /\ events' = IF events # <<>> THEN Tail(events) ELSE events
  /\ UNCHANGED <<netVars, forwarded, pc, kicked, session, due, nr, permit, current, doneVars>>

\* Mutant of ReaderPending: next_event is awaited under the lock whatever the provider.
ReaderPendingLocked ==
  /\ reader = "poll" /\ slock = "free" /\ events = <<>> /\ session = "up" /\ ~ Stopped
  /\ reader' = "blocked" /\ slock' = "reader"
  /\ UNCHANGED <<netVars, endVars, sys, norm, pc, kicked, session, events, due, nr, permit,
                 partial, brainVars, pushed, doneVars>>

\* Nothing is there: wait without the lock, or, without a Notify, with it.
ReaderPending ==
  /\ reader = "poll" /\ slock = "free" /\ events = <<>> /\ session = "up" /\ ~ Stopped
  /\ reader' = IF Notifies THEN "wait" ELSE "blocked"
  /\ slock' = IF Notifies THEN "free" ELSE "reader"
  /\ UNCHANGED <<netVars, endVars, sys, norm, pc, kicked, session, events, due, nr, permit,
                 partial, brainVars, pushed, doneVars>>

ReaderWake ==
  /\ reader = "wait" /\ permit /\ ~ Stopped
  /\ reader' = "poll" /\ permit' = FALSE
  /\ UNCHANGED <<netVars, endVars, sys, norm, pc, sessVars, partial, brainVars, pushed, doneVars>>

ReaderBroadcast ==
  /\ reader = "broadcast" /\ reader' = "poll"
  /\ Push("brain", <<Frame("Interruption", 0)>>)
  /\ UNCHANGED <<netVars, endVars, pc, sessVars, permit, partial, brainVars, pushed, doneVars>>

\* The runtime drops the aborted reader, and with it the lock, if it holds it.
ReaderDropped ==
  /\ Stopped /\ reader \notin {"off", "done"}
  /\ reader' = "done" /\ slock' = "free" /\ partial' = {}
  /\ UNCHANGED <<netVars, endVars, sys, norm, pc, kicked, session, events, due, nr, permit,
                 brainVars, pushed, doneVars>>

-----------------------------------------------------------------------------
(* The realtime service.                                                   *)

Spawn == reader' = IF reader = "off" THEN "poll" ELSE reader

\* What has to wait for the session's lock.
SvcRecv ==
  /\ Ready("svc") /\ Received("svc").kind \in {"connected", "audio", "result", "reprompt"}
  /\ LET kind == Received("svc").kind IN
       /\ IF kind \in {"connected", "audio"} THEN Spawn ELSE UNCHANGED reader
       /\ Goto("svc", IF kind = "connected" /\ kicked THEN "idle" ELSE kind)
  /\ Receive("svc")
  /\ UNCHANGED <<netVars, endVars, sessVars, permit, partial, brainVars, pushed, doneVars>>

\* kickoff, send_audio and send_tool_result: on a dead session they fail, and a failure of
\* the first two ends the call. The connection may be lost before the kickoff; afterwards
\* it is the provider's Closed or a reprompt that loses it.
SvcSend ==
  /\ pc["svc"] \in {"connected", "audio", "result"} /\ slock = "free"
  /\ Goto("svc", "idle")
  /\ \/ /\ session = "up"
        /\ kicked' = (kicked \/ pc["svc"] = "connected") /\ due' = TRUE
        /\ UNCHANGED <<asked, session>>
     \/ /\ session = "dead" \/ pc["svc"] = "connected"
        /\ IF pc["svc"] = "result" THEN UNCHANGED asked ELSE Ask("service")
        /\ session' = "dead" /\ UNCHANGED <<kicked, due>>
  /\ UNCHANGED <<netVars, forwarded, sys, norm, events, nr, slock, readVars,
                 brainVars, pushed, doneVars>>

\* update_system changes the session, or opens a new one, and what the old one still
\* had to say is gone. A failure to open it is only recorded.
SvcReprompt ==
  /\ pc["svc"] = "reprompt" /\ slock = "free"
  /\ Goto("svc", "idle")
  /\ session' \in {"up", "dead"} /\ events' \in {events, <<>>}
  /\ UNCHANGED <<netVars, endVars, sys, norm, kicked, due, nr, slock, readVars, brainVars,
                 pushed, doneVars>>

\* Mutant of SvcStop: the terminal frame goes on in the channel that is served first.
SvcStopAhead ==
  /\ Ready("svc") /\ Received("svc").kind \in {"End", "Cancel"}
  /\ sys' = Put(SysLeft("svc"), "brain", <<Received("svc")>>) /\ norm' = NormLeft("svc")
  /\ Goto("svc", "done")
  /\ UNCHANGED <<netVars, endVars, sessVars, readVars, brainVars, pushed, doneVars>>

\* stop() aborts the reader, without waiting for it, and the terminal frame goes on.
SvcStop ==
  /\ Ready("svc") /\ Received("svc").kind \in {"End", "Cancel"}
  /\ ReceiveAndPush("svc", "brain", <<Received("svc")>>)
  /\ Goto("svc", "done")
  /\ UNCHANGED <<netVars, endVars, sessVars, readVars, brainVars, pushed, doneVars>>

-----------------------------------------------------------------------------
(* The brain.                                                              *)

\* A tool call is relayed, or moves the graph, or leaves it where it is, or ends it;
\* the first two await the control plane.
BrainCall ==
  /\ Ready("brain") /\ Received("brain").kind = "call"
  /\ Receive("brain")
  /\ current' = Received("brain").nr
  /\ \E does \in {"relay", "move", "stay", "end"} : Goto("brain", does)
  /\ UNCHANGED <<netVars, endVars, sessVars, readVars, open, pushed, doneVars>>

\* Mutant of BrainAnswer: a relay that fails is not answered.
BrainAnswerSilent ==
  /\ pc["brain"] \in {"relay", "move", "stay", "end"}
  /\ \/ /\ pc["brain"] = "relay" /\ Goto("brain", "idle") /\ UNCHANGED <<sys, norm, open>>
     \/ /\ LET move == IF pc["brain"] = "move" THEN <<Frame("reprompt", current)>> ELSE <<>> IN
             Push("svc", move \o <<Frame("result", current)>>)
        /\ open' = open \ {current}
        /\ Goto("brain", IF pc["brain"] = "end" THEN "keep" ELSE "idle")
  /\ UNCHANGED <<netVars, endVars, sessVars, readVars, current, pushed, doneVars>>

\* The answer goes up, behind the new prompt if the graph has moved.
BrainAnswer ==
  /\ pc["brain"] \in {"relay", "move", "stay", "end"}
  /\ LET move == IF pc["brain"] = "move" THEN <<Frame("reprompt", current)>> ELSE <<>> IN
     Push("svc", move \o <<Frame("result", current)>>)
  /\ open' = open \ {current}
  /\ Goto("brain", IF pc["brain"] = "end" THEN "keep" ELSE "idle")
  /\ UNCHANGED <<netVars, endVars, sessVars, readVars, current, pushed, doneVars>>

\* The disposition and the collected variables, and then the request to end.
BrainEnd ==
  /\ pc["brain"] = "keep" /\ Goto("brain", "idle")
  /\ state' = [state EXCEPT !.disposition = TRUE] /\ Ask("brain")
  /\ UNCHANGED <<netVars, forwarded, sys, norm, sessVars, readVars, brainVars, pushed,
                 drained, report>>

BrainForward ==
  /\ Ready("brain") /\ Received("brain").kind \in {"line", "usage", "speech"}
  /\ ReceiveAndPush("brain", "tail", <<Received("brain")>>)
  /\ UNCHANGED <<netVars, endVars, pc, sessVars, readVars, brainVars, pushed, doneVars>>

BrainStop ==
  /\ Ready("brain") /\ Received("brain").kind \in {"End", "Cancel"}
  /\ ReceiveAndPush("brain", "tail", <<Received("brain")>>)
  /\ Goto("brain", "done")
  /\ UNCHANGED <<netVars, endVars, sessVars, readVars, brainVars, pushed, doneVars>>

\* A barge-in drains the normal channel; an End in it is kept, and is served at once.
Kept(s) == IF \E k \in 1 .. Len(norm[s]) : norm[s][k] = End THEN <<End>> ELSE <<>>
Drained(s) == drained' = drained \union Lines(norm[s])

BrainInterruption ==
  /\ Ready("brain") /\ Received("brain").kind = "Interruption"
  /\ Drained("brain")
  /\ sys' = [sys EXCEPT !["brain"] = Tail(@),
                        !["tail"] = IF pc["tail"] = "done" THEN @
                                    ELSE Append(@, Received("brain"))]
  /\ IF Kept("brain") = <<>>
     THEN norm' = [norm EXCEPT !["brain"] = <<>>] /\ UNCHANGED pc
     ELSE /\ norm' = Put([norm EXCEPT !["brain"] = <<>>], "tail", Kept("brain"))
          /\ Goto("brain", "done")
  /\ UNCHANGED <<netVars, endVars, sessVars, readVars, brainVars, pushed, state, report>>

-----------------------------------------------------------------------------
(* The recorder, the transcript, the transport's output and Finalize.      *)

TailRecv ==
  /\ Ready("tail") /\ Received("tail").kind \in {"line", "usage", "speech"}
  /\ LET f == Received("tail") IN
       /\ state' = IF f.kind = "line" THEN [state EXCEPT !.lines = @ \union {f.nr}] ELSE state
       /\ Goto("tail", IF f.kind = "speech" THEN "send" ELSE "idle")
  /\ Receive("tail")
  /\ UNCHANGED <<netVars, endVars, sessVars, readVars, brainVars, pushed, drained, report>>

TailInterruption ==
  /\ Ready("tail") /\ Received("tail").kind = "Interruption"
  /\ Drained("tail")
  /\ sys' = [sys EXCEPT !["tail"] = Tail(@)]
  /\ norm' = [norm EXCEPT !["tail"] = Kept("tail")]
  /\ Goto("tail", "send")
  /\ UNCHANGED <<netVars, endVars, sessVars, readVars, brainVars, pushed, state, report>>

\* send_audio and send_clear, once the transport's lock is free.
TailSend ==
  /\ pc["tail"] = "send" /\ (tlock = "tail" \/ pump = "done")
  /\ Goto("tail", "idle") /\ tlock' = "pump"
  /\ UNCHANGED <<stream, pump, endVars, sys, norm, sessVars, readVars, brainVars, pushed, doneVars>>

\* stop() of Finalize: the snapshot of the LiveState is taken once.
TailStop ==
  /\ \/ Ready("tail") /\ Received("tail").kind \in {"End", "Cancel"} /\ Receive("tail")
     \/ pc["tail"] = "failed" /\ UNCHANGED <<sys, norm>>
  /\ Goto("tail", "done")
  /\ report' = [phase |-> "recording", lines |-> state.lines,
                disposition |-> state.disposition, uploads |-> {}]
  /\ UNCHANGED <<netVars, endVars, sessVars, readVars, brainVars, pushed, drained, state>>

\* upload_artifact: either of its two requests may fail, and the report goes on.
Upload(kind, next) ==
  /\ report.phase = kind
  /\ \/ report' = [report EXCEPT !.phase = next, !.uploads = @ \union {kind}]
     \/ report' = [report EXCEPT !.phase = next]
  /\ UNCHANGED <<netVars, endVars, sys, norm, pc, sessVars, readVars, brainVars, pushed,
                 drained, state>>

\* Mutant of Finalize: a recording that is not stored ends it.
FinalizeFragile ==
  \/ /\ report.phase = "recording"
     /\ \/ report' = [report EXCEPT !.phase = "transcript", !.uploads = @ \union {"recording"}]
        \/ report' = [report EXCEPT !.phase = "given up"]
     /\ UNCHANGED <<netVars, endVars, sys, norm, pc, sessVars, readVars, brainVars, pushed,
                    drained, state>>
  \/ Upload("transcript", "complete")
  \/ /\ report.phase = "complete"
     /\ report' = [report EXCEPT !.phase = "done"]
     /\ UNCHANGED <<netVars, endVars, sys, norm, pc, sessVars, readVars, brainVars, pushed,
                    drained, state>>

Finalize ==
  \/ Upload("recording", "transcript")
  \/ Upload("transcript", "complete")
  \/ /\ report.phase = "complete"
     /\ report' = [report EXCEPT !.phase = "done"]
     /\ UNCHANGED <<netVars, endVars, sys, norm, pc, sessVars, readVars, brainVars, pushed,
                    drained, state>>

\* After the report the task returns, and the pump is aborted.
Over == report.phase = "done" /\ UNCHANGED vars

-----------------------------------------------------------------------------
Reader == ReaderEvent \/ ReaderPending \/ ReaderWake \/ ReaderBroadcast \/ ReaderDropped
Service == SvcRecv \/ SvcSend \/ SvcReprompt \/ SvcStop
Brain == BrainCall \/ BrainAnswer \/ BrainEnd \/ BrainForward \/ BrainStop \/ BrainInterruption
Output == TailRecv \/ TailInterruption \/ TailSend \/ TailStop \/ Finalize
EventKinds == {"user", "bot", "speech", "call", "usage", "Interrupted", "Closed"}

Next ==
  \/ Connect \/ ConnectFails
  \/ PumpStart \/ PumpAudio \/ PumpStop \/ HeadEnd \/ CancelTask
  \/ \E kind \in EventKinds : ProviderEvent(kind)
  \/ ReaderEvent \/ ReaderPending \/ ReaderWake \/ ReaderBroadcast \/ ReaderDropped
  \/ SvcRecv \/ SvcSend \/ SvcReprompt \/ SvcStop
  \/ BrainCall \/ BrainAnswer \/ BrainEnd \/ BrainForward \/ BrainStop \/ BrainInterruption
  \/ TailRecv \/ TailInterruption \/ TailSend \/ TailStop \/ Finalize
  \/ Over

Spec == Init /\ [][Next]_vars

\* Every task runs. No event has to come, and nobody has to ask for the end.
Served ==
  /\ WF_vars(Reader) /\ WF_vars(Service) /\ WF_vars(Brain) /\ WF_vars(Output)
  /\ WF_vars(HeadEnd)

QuietSpec == Spec /\ Served

\* A carrier also streams the caller's audio for as long as the call is up.
FairSpec == Spec /\ Served /\ WF_vars(PumpStart \/ PumpAudio)

-----------------------------------------------------------------------------
(* Properties.                                                             *)

Call == INSTANCE CallContract WITH wanted <- asked, phase <-
          CASE report.phase = "none" -> "live" [] report.phase = "done" -> "completed"
            [] OTHER -> "reporting"

RealtimeTypeOK ==
  /\ pump \in {"off", "recv", "done"} /\ (tlock = "tail" => pc["tail"] = "send")
  /\ asked \subseteq Parties
  /\ slock = "reader" <=> reader = "blocked"
  /\ partial \union open \union pushed \union drained \subseteq 1 .. MaxEvents
  /\ \A s \in Stages : \A k \in 1 .. Len(norm[s]) : norm[s][k].kind \notin System

\* What was said before the call ended is in the transcript that is uploaded: a line
\* the reader had pushed when the End went by is reported, unless a barge-in drained
\* it, though the End takes a way of its own through the head. A line that the reader
\* pushes after stop(), before the abort has reached it, may come too late.
LinesReported ==
  report.phase # "none" /\ "cancel" \notin asked => pushed \subseteq report.lines \union drained

\* A call the brain has ended is reported with the brain's disposition, whoever else
\* ends it at the same time.
DispositionReported ==
  report.phase # "none" /\ "brain" \in asked => report.disposition

\* However a call ends, one report of it is completed, though either upload may fail,
\* and only after somebody has asked for the end.
ReportedOnce == Call!FairSpec

Unfetched(n) == \E k \in DOMAIN events : events[k].nr = n

\* The reader serves both directions of the session: it does not lock out the caller's
\* audio while it waits for an event, and it does not sleep over an event that comes
\* between its poll and its wait (spawn_reader, event_notify). This is promised for
\* providers with an event_notify only: the others (Ultravox, Nova Sonic) are awaited
\* under the session's lock, and while they are silent the caller is not heard.
SessionServed ==
  Notifies =>
    /\ pc["svc"] = "audio" ~> pc["svc"] # "audio"
    /\ \A n \in 1 .. MaxEvents : Unfetched(n) ~> (~ Unfetched(n) \/ reader = "done" \/ Stopped)

\* A tool call is answered, or the call is over.
CallAnswered == \A c \in 1 .. MaxEvents : c \in open ~> (c \notin open \/ pc["brain"] = "done")

\* Barge-in, as the reader's comment has it: what the bot had said is finalized.
BotLineKept == report.phase # "none" /\ "cancel" \notin asked => pushed \subseteq report.lines

\* The transport's lock, as its comment has it: a send is never starved by recv.
BotHeard == pc["tail"] = "send" ~> pc["tail"] # "send"

\* The report of a call is true: it has the lines that were said and the disposition that
\* the brain gave, whichever way the call ended (FinalizeProcessor).
ReportWhole == RealtimeTypeOK /\ LinesReported /\ DispositionReported
=============================================================================
