------------------------------ MODULE SipAgent ------------------------------
(***************************************************************************)
(* The SIP user agent on one trunk and the host that answers its calls:    *)
(* incoming_pump, InboundInvite, the dialog supervisor, originate, the     *)
(* REGISTER loop with unregister and shutdown (SipAgent), and              *)
(* serve_sip_inbound / sip_originate (the server). The dialog layer, the   *)
(* peer and the registrar are external.                                    *)
(***************************************************************************)
EXTENDS Integers, Sequences, FiniteSets

CONSTANTS
  Inbound, Outbound,  \* calls of each direction
  QueueDepth,         \* capacity of the inbound channel (16)
  RtpPorts,           \* rtp_port_tries: RTP ports to bind
  MinReregister,      \* MIN_REREGISTER_SECS
  Expiries,           \* expiries the registrar may grant
  MaxRegisters        \* bound: REGISTER requests of the loop

SipCalls == Inbound \union Outbound

ASSUME SipAssumption ==
  /\ Inbound \intersect Outbound = {} /\ IsFiniteSet(SipCalls)
  /\ {QueueDepth, RtpPorts, MinReregister} \subseteq Nat \ {0} /\ MaxRegisters \in Nat
  /\ Expiries \subseteq Nat

VARIABLES
  phase,     \* "idle", "queued", "resolving", "up" (a transport runs), "over"
  dialogs,   \* dialogs in the layer's map
  peer,      \* what the peer knows: "none", "waits" (for a final response), "up", "down"
  ended,     \* Terminated is in the dialog's state channel
  supervisor,\* "none", "watch", "bye" or "done"
  hangup,    \* the transport's hangup token
  queue,     \* the inbound channel
  agentUp,   \* the root cancel token has not fired
  regLoop,   \* register_loop: "off", "send", "flight", "sleep" or "done"
  regCancel, \* register_cancel
  registered,\* the watch channel
  delay,     \* seconds the loop still sleeps
  binding,   \* the registrar's binding of us: seconds left (external)
  granted,   \* the expiry of the last 200 OK
  unreg,     \* unregister: "none", "flight" or "done"
  unregOk,   \* it was answered with 200 OK
  regs       \* REGISTER requests so far

sipCallVars == <<phase, dialogs, peer, ended, supervisor, hangup, queue>>
sipRegVars == <<regLoop, regCancel, registered, delay, binding, granted, unreg, unregOk, regs>>
sipVars == <<sipCallVars, agentUp, sipRegVars>>

-----------------------------------------------------------------------------
(* Calls.                                                                  *)

Sets(f, c, v) == [f EXCEPT ![c] = v]
\* A bound socket belongs to a running transport.
PortsUsed == Cardinality({c \in SipCalls : phase[c] = "up"})
BindRtpSocket == PortsUsed < RtpPorts

\* incoming_pump and handle_new_invite: an unusable offer is refused (488), a full queue
\* sheds the call (503), and only then is there a dialog. The pump never waits.
NewInvite(c) ==
  /\ c \in Inbound /\ phase[c] = "idle" /\ agentUp
  /\ \/ \* sdp::parse fails
        phase' = Sets(phase, c, "over") /\ peer' = Sets(peer, c, "down") /\ UNCHANGED <<dialogs, queue>>
     \/ /\ Len(queue) < QueueDepth
        /\ dialogs' = dialogs \union {c} /\ queue' = Append(queue, c)
        /\ phase' = Sets(phase, c, "queued") /\ peer' = Sets(peer, c, "waits")
     \/ /\ Len(queue) = QueueDepth
        /\ phase' = Sets(phase, c, "over") /\ peer' = Sets(peer, c, "down") /\ UNCHANGED <<dialogs,
                                                                                           queue>>
  /\ UNCHANGED <<ended, supervisor, hangup, agentUp, sipRegVars>>

\* serve_sip_inbound: every invite gets a task of its own.
NextInbound ==
  /\ queue # <<>>
  /\ phase' = Sets(phase, Head(queue), "resolving") /\ queue' = Tail(queue)
  /\ UNCHANGED <<dialogs, peer, ended, supervisor, hangup, agentUp, sipRegVars>>

\* resolve_inbound or resolve_call fails (or the run is completed): InboundInvite::reject.
Reject(c) ==
  /\ c \in Inbound /\ phase[c] = "resolving"
  /\ phase' = Sets(phase, c, "over") /\ peer' = Sets(peer, c, "down")
  /\ dialogs' = dialogs \ {c}
  /\ UNCHANGED <<ended, supervisor, hangup, queue, agentUp, sipRegVars>>

Established(c) ==
  /\ phase' = Sets(phase, c, "up") /\ peer' = Sets(peer, c, "up")
  /\ supervisor' = Sets(supervisor, c, "watch")

\* InboundInvite::answer. Without a port, or on a dialog that the peer has cancelled,
\* it returns an error and the host logs it.
Answer(c) ==
  /\ c \in Inbound /\ phase[c] = "resolving"
  /\ \/ BindRtpSocket /\ ~ ended[c] /\ Established(c)
     \/ /\ ~ BindRtpSocket \/ ended[c]
        /\ phase' = Sets(phase, c, "over") /\ UNCHANGED <<peer, supervisor>>
  /\ UNCHANGED <<dialogs, ended, hangup, queue, agentUp, sipRegVars>>

\* originate: no port; no or a negative final response (the layer drops the dialog); a
\* 200 OK whose SDP does not parse; or an established call.
Originate(c) ==
  /\ c \in Outbound /\ phase[c] = "idle" /\ agentUp
  /\ \/ phase' = Sets(phase, c, "over") /\ UNCHANGED <<peer, supervisor, dialogs>>
     \/ /\ BindRtpSocket /\ dialogs' = dialogs \union {c}
        /\ \/ phase' = Sets(phase, c, "over") /\ peer' = Sets(peer, c, "up") /\ UNCHANGED supervisor
           \/ Established(c)
  /\ UNCHANGED <<ended, hangup, queue, agentUp, sipRegVars>>

\* The peer cancels or hangs up: the request finds its dialog, whose state becomes
\* Terminated, or is answered with 481.
PeerEnds(c) ==
  /\ peer[c] \in {"waits", "up"} /\ agentUp
  /\ peer' = Sets(peer, c, "down")
  /\ ended' = IF c \in dialogs THEN Sets(ended, c, TRUE) ELSE ended
  /\ UNCHANGED <<phase, dialogs, supervisor, hangup, queue, agentUp, sipRegVars>>

\* The supervisor sees Terminated: the transport is told, the dialog released.
SupervisorTerminated(c) ==
  /\ supervisor[c] = "watch" /\ ended[c]
  /\ supervisor' = Sets(supervisor, c, "done") /\ hangup' = Sets(hangup, c, TRUE)
  /\ dialogs' = dialogs \ {c}
  /\ UNCHANGED <<phase, peer, ended, queue, agentUp, sipRegVars>>

\* Mutant: the map is cleared only when the BYE is answered.
SupervisorByeAnswered(c) ==
  /\ supervisor[c] = "watch" /\ hangup[c]
  /\ \/ /\ supervisor' = Sets(supervisor, c, "done")
        /\ dialogs' = dialogs \ {c} /\ peer' = Sets(peer, c, "down")
     \/ supervisor' = Sets(supervisor, c, "done") /\ UNCHANGED <<peer, dialogs>>
  /\ UNCHANGED <<phase, ended, hangup, queue, agentUp, sipRegVars>>

\* The transport was dropped: BYE, which the peer gets, or which fails or times out; the
\* dialog is released either way.
SupervisorBye(c) ==
  /\ supervisor[c] = "watch" /\ hangup[c]
  /\ supervisor' = Sets(supervisor, c, "done")
  /\ peer' \in {peer, Sets(peer, c, "down")}
  /\ dialogs' = dialogs \ {c}
  /\ UNCHANGED <<phase, ended, hangup, queue, agentUp, sipRegVars>>

\* The call ends (the bot hangs up, or Stop arrived): the transport is dropped.
DropTransport(c) ==
  /\ phase[c] = "up" /\ phase' = Sets(phase, c, "over")
  /\ hangup' = Sets(hangup, c, TRUE)
  /\ UNCHANGED <<dialogs, peer, ended, supervisor, queue, agentUp, sipRegVars>>

-----------------------------------------------------------------------------
(* Registration. One tick is one second; an answer takes no time.          *)

\* Mutant: the floor is on the delay, not on the expiry.
ReregisterDelayFloor(expires) == LET d == (expires * 3) \div 4 IN IF d < MinReregister THEN MinReregister ELSE d

ReregisterDelay(expires) == ((IF expires < MinReregister THEN MinReregister ELSE expires) * 3) \div 4

RegSend ==
  /\ regLoop = "send" /\ regs < MaxRegisters /\ agentUp
  /\ regLoop' = "flight" /\ regs' = regs + 1
  /\ UNCHANGED <<sipCallVars, agentUp, regCancel, registered, delay, binding, granted, unreg, unregOk>>

\* The registrar answers the loop's REGISTER: bound for an expiry of its choice.
RegOk(e) ==
  /\ regLoop = "flight"
  /\ binding' = e /\ granted' = e
  /\ registered' = TRUE /\ delay' = ReregisterDelay(e) /\ regLoop' = "sleep"
  /\ UNCHANGED <<sipCallVars, agentUp, regCancel, unreg, unregOk, regs>>

\* Rejected, or no answer.
RegFails ==
  /\ regLoop = "flight"
  /\ registered' = FALSE /\ delay' = MinReregister /\ regLoop' = "sleep"
  /\ UNCHANGED <<sipCallVars, agentUp, regCancel, binding, granted, unreg, unregOk, regs>>

RegWakes ==
  /\ regLoop = "sleep" /\ delay = 0 /\ ~ regCancel
  /\ regLoop' = "send"
  /\ UNCHANGED <<sipCallVars, agentUp, regCancel, registered, delay, binding, granted, unreg,
                 unregOk, regs>>

\* The token is looked at only while the loop sleeps.
RegCancelled ==
  /\ regLoop = "sleep" /\ regCancel
  /\ regLoop' = "done" /\ registered' = FALSE
  /\ UNCHANGED <<sipCallVars, agentUp, regCancel, delay, binding, granted, unreg, unregOk, regs>>

\* Time passes while the loop sleeps.
SipTick ==
  /\ regLoop = "sleep" /\ ~ regCancel /\ delay > 0
  /\ delay' = delay - 1 /\ binding' = IF binding > 0 THEN binding - 1 ELSE 0
  /\ UNCHANGED <<sipCallVars, agentUp, regLoop, regCancel, registered, granted, unreg, unregOk, regs>>

\* shutdown: unregister cancels the loop and sends Expires: 0.
Unregister ==
  /\ unreg = "none" /\ agentUp
  /\ regCancel' = TRUE
  /\ unreg' = IF regLoop = "off" THEN "done" ELSE "flight"
  /\ UNCHANGED <<sipCallVars, agentUp, regLoop, registered, delay, binding, granted, unregOk, regs>>

\* Answered, rejected or timed out; the registrar may have got it all the same.
UnregisterAnswered ==
  /\ unreg = "flight" /\ unreg' = "done"
  /\ \/ unregOk' = TRUE /\ binding' = 0
     \/ unregOk' = FALSE /\ binding' \in {0, binding}
  /\ UNCHANGED <<sipCallVars, agentUp, regLoop, regCancel, registered, delay, granted, regs>>

\* Then the root token: the endpoint and all its tasks end.
Shutdown ==
  /\ unreg = "done" /\ agentUp
  /\ agentUp' = FALSE /\ regLoop' = IF regLoop = "off" THEN "off" ELSE "done"
  /\ UNCHANGED <<sipCallVars, regCancel, registered, delay, binding, granted, unreg, unregOk, regs>>

-----------------------------------------------------------------------------

SipInit ==
  /\ phase = [c \in SipCalls |-> "idle"] /\ dialogs = {}
  /\ peer = [c \in SipCalls |-> "none"] /\ ended = [c \in SipCalls |-> FALSE]
  /\ supervisor = [c \in SipCalls |-> "none"] /\ hangup = [c \in SipCalls |-> FALSE]
  /\ queue = <<>> /\ agentUp = TRUE
  /\ regLoop \in {"off", "send"} /\ regCancel = FALSE
  /\ registered = (regLoop = "off") /\ delay = 0 /\ binding = 0 /\ granted = 0
  /\ unreg = "none" /\ unregOk = FALSE /\ regs = 0

CallSteps ==
  \/ NextInbound
  \/ \E c \in SipCalls :
       \/ NewInvite(c) \/ Reject(c) \/ Answer(c) \/ Originate(c) \/ PeerEnds(c)
       \/ SupervisorTerminated(c) \/ SupervisorBye(c) \/ DropTransport(c)

RegisterSteps ==
  \/ RegSend \/ RegFails \/ RegWakes \/ RegCancelled \/ SipTick
  \/ (\E e \in Expiries : RegOk(e))
  \/ Unregister \/ UnregisterAnswered \/ Shutdown

SipNext == CallSteps \/ RegisterSteps

SipSpec == SipInit /\ [][SipNext]_sipVars

\* The host and the supervisors run; a call that was told to stop is dropped.
SipFairness ==
  /\ WF_sipVars(NextInbound)
  /\ \A c \in SipCalls :
       /\ WF_sipVars(Reject(c) \/ Answer(c))
       /\ WF_sipVars(SupervisorTerminated(c)) /\ WF_sipVars(SupervisorBye(c))
       /\ WF_sipVars(hangup[c] /\ DropTransport(c))

-----------------------------------------------------------------------------
(* Properties.                                                             *)

\* A call that was up leaves nothing behind once either side has hung up: the transport
\* and with it the RTP port is dropped and the dialog is out of the map, also when the
\* BYE is lost or crosses the peer's own (spawn_dialog_supervisor).
CallReleased ==
  \A c \in SipCalls :
    (phase[c] = "up" /\ (ended[c] \/ hangup[c])) ~> (phase[c] = "over" /\ c \notin dialogs)

\* "dialogs can't leak across calls": a dialog in the map is queued, being resolved, or
\* watched by a supervisor. An answer without an RTP port breaks it.
DialogsOwned ==
  \A c \in dialogs : phase[c] \in {"queued", "resolving"} \/ supervisor[c] = "watch"

\* is_registered is honest: with an expiry the code does not have to floor, the binding
\* is refreshed before it lapses (reregister_delay_secs).
RegisteredIsBound ==
  registered /\ regLoop = "sleep" /\ ~ regCancel /\ granted >= MinReregister => binding > 0

\* "so it can't re-bind us": once the registrar has confirmed the de-REGISTER nothing
\* binds the trunk again. A REGISTER that was under way breaks it.
UnregisterSticks == unregOk => binding = 0
=============================================================================
