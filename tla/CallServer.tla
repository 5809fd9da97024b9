----------------------------- MODULE CallServer -----------------------------
(***************************************************************************)
(* The server's WebRTC calls: an offer resolves its run and builds the     *)
(* brain, registers a channel of live events under the call's id, binds a  *)
(* media socket, and runs the call detached; a browser may subscribe to    *)
(* the events meanwhile. A guard takes the registration back when the      *)
(* offer fails or the call is over, each of which takes several steps.     *)
(*                                                                         *)
(* External: the session source, the operating system's ports, the         *)
(* providers, and the browsers.                                            *)
(***************************************************************************)
EXTENDS Integers, Sequences, FiniteSets

CONSTANTS
  Offers,       \* offers, each a call to be
  PortRanges,   \* settings [base, tries]: media_port_base (0: the system chooses) and _tries
  PortMax,      \* u16::MAX
  OthersPorts,  \* ports that something else on the machine holds
  MaxEvents     \* bound: events of a call

ASSUME ServerAssumption ==
  /\ PortMax \in Nat /\ MaxEvents \in Nat
  /\ PortRanges \subseteq [base : 0..PortMax, tries : 0..PortMax]
  /\ OthersPorts \subseteq 1..PortMax

VARIABLES
  range,       \* the setting in play
  stage,       \* offer -> "new", "resolved", "registered", "bound", "running", "ending" or "over";
               \*          "refusing" and "refused"
  tried,       \* offer -> how many ports bind_media_socket has found taken
  portless,    \* offers turned away for want of a port
  port,        \* offer -> its media socket's port, or 0
  registry,  \* the calls in the EventRegistry
  receiver,    \* offer -> who has the receiver: "none", "registry", "page"; "ended" or "gone"
  publisher,   \* offer -> a CallEvents is alive
  channel,     \* offer -> events published and not yet streamed
  published,   \* offer -> how many events were published
  streamed     \* offer -> the events its page got

serverVars ==
  <<range, stage, tried, portless, port, registry, receiver, publisher, channel, published, streamed>>
portVars == <<range, tried, portless, port>>
eventVars == <<channel, published, streamed>>

-----------------------------------------------------------------------------
(* Offers.                                                                 *)

\* resolve_brain: the session source may fail, the run may be over, the graph may be
\* invalid; each is an answer of its own and nothing was set up.
ResolveBrain(o) ==
  /\ stage[o] = "new"
  /\ \E outcome \in {"resolved", "refused"} : stage' = [stage EXCEPT ![o] = outcome]
  /\ UNCHANGED <<portVars, registry, receiver, publisher, eventVars>>

\* EventRegistry::register: a fresh channel whose receiver waits in the registry.
Register(o) ==
  /\ stage[o] = "resolved"
  /\ stage' = [stage EXCEPT ![o] = "registered"]
  /\ registry' = registry \cup {o}
  /\ receiver' = [receiver EXCEPT ![o] = "registry"]
  /\ publisher' = [publisher EXCEPT ![o] = TRUE]
  /\ UNCHANGED <<portVars, eventVars>>

\* RegistryGuard::drop: a receiver that waits in the registry goes with its entry, one
\* that a page has does not.
GuardDropped(o) ==
  /\ registry' = registry \ {o}
  /\ receiver' = [receiver EXCEPT ![o] = IF @ = "registry" THEN "gone" ELSE @]

Bound == OthersPorts \cup {port[o] : o \in Offers}

\* The port that bind_media_socket tries next, while there is one: at least one is tried,
\* and none past the last.
NextPort(o) == range.base + tried[o]
HasNext(o) ==
  /\ tried[o] < (IF range.tries > 1 THEN range.tries ELSE 1)
  /\ NextPort(o) <= PortMax

\* bind_media_socket, one bind: the system's choice when there is no base, otherwise the
\* next port of the range. Other offers and calls go on between two binds.
TryPort(o) ==
  /\ stage[o] = "registered"
  /\ \/ /\ range.base = 0
        /\ \E p \in (1..PortMax) \ Bound : port' = [port EXCEPT ![o] = p]
        /\ stage' = [stage EXCEPT ![o] = "bound"] /\ UNCHANGED tried
     \/ /\ range.base # 0 /\ HasNext(o) /\ NextPort(o) \notin Bound
        /\ port' = [port EXCEPT ![o] = NextPort(o)]
        /\ stage' = [stage EXCEPT ![o] = "bound"] /\ UNCHANGED tried
     \/ /\ range.base # 0 /\ HasNext(o) /\ NextPort(o) \in Bound
        /\ tried' = [tried EXCEPT ![o] = @ + 1] /\ UNCHANGED <<port, stage>>
  /\ UNCHANGED <<registry, receiver, publisher, eventVars, range, portless>>

\* No port is left to try: handle_offer returns, and drops its guard before its observers.
NoPort(o) ==
  /\ stage[o] = "registered"
  /\ range.base = 0 \/ ~ HasNext(o)
  /\ stage' = [stage EXCEPT ![o] = "refusing"] /\ portless' = portless \cup {o}
  /\ GuardDropped(o)
  /\ UNCHANGED <<publisher, eventVars, range, tried, port>>

\* WebRtcTransport::accept_offer, and the call runs detached; an offer that cannot be
\* accepted takes the socket with it.
AcceptOffer(o) ==
  /\ stage[o] = "bound"
  /\ \/ /\ stage' = [stage EXCEPT ![o] = "running"]
        /\ UNCHANGED <<port, registry, receiver>>
     \/ /\ stage' = [stage EXCEPT ![o] = "refusing"]
        /\ port' = [port EXCEPT ![o] = 0] /\ GuardDropped(o)
  /\ UNCHANGED <<publisher, eventVars, range, tried, portless>>

\* The call: its observers publish events.
Publish(o) ==
  /\ stage[o] = "running" /\ published[o] < MaxEvents
  /\ published' = [published EXCEPT ![o] = @ + 1]
  /\ channel' = [channel EXCEPT ![o] = IF receiver[o] = "gone" THEN @ ELSE Append(@, published[o] + 1)]
  /\ UNCHANGED <<stage, portVars, registry, receiver, publisher, streamed>>

\* run_call_with: the providers could not be built, or the call ended.
CallEnds(o) ==
  /\ stage[o] = "running" /\ stage' = [stage EXCEPT ![o] = "ending"]
  /\ UNCHANGED <<portVars, registry, receiver, publisher, eventVars>>

\* The observers, and the publisher with them, are dropped: inside run_call_with, or behind
\* the guard of an offer that failed.
DropEvents(o) ==
  /\ stage[o] \in {"ending", "refusing"} /\ publisher[o]
  /\ publisher' = [publisher EXCEPT ![o] = FALSE]
  /\ stage' = [stage EXCEPT ![o] = IF @ = "refusing" THEN "refused" ELSE @]
  /\ UNCHANGED <<portVars, registry, receiver, eventVars>>

\* The peer's task, which the dropped transport ends, gives the socket back.
DropSocket(o) ==
  /\ stage[o] \in {"ending", "over"} /\ port[o] # 0
  /\ port' = [port EXCEPT ![o] = 0]
  /\ UNCHANGED <<stage, registry, receiver, publisher, eventVars, range, tried, portless>>

\* run_call_with has returned, and the spawned task drops its keepalive. Until then a page
\* finds the ended call in the registry.
CallOver(o) ==
  /\ stage[o] = "ending" /\ ~ publisher[o]
  /\ stage' = [stage EXCEPT ![o] = "over"]
  /\ GuardDropped(o)
  /\ UNCHANGED <<portVars, publisher, eventVars>>

-----------------------------------------------------------------------------
(* Live events.                                                            *)

\* take_receiver: the receiver is handed out once.
Subscribe(o) ==
  /\ o \in registry /\ receiver[o] = "registry"
  /\ receiver' = [receiver EXCEPT ![o] = "page"]
  /\ UNCHANGED <<stage, portVars, registry, publisher, eventVars>>

\* Mutant: the stream ends with the call, whatever is left to tell.
StreamEventsHasty(o) ==
  /\ receiver[o] = "page"
  /\ \/ /\ channel[o] # <<>> /\ publisher[o]
        /\ streamed' = [streamed EXCEPT ![o] = Append(@, Head(channel[o]))]
        /\ channel' = [channel EXCEPT ![o] = Tail(@)]
        /\ UNCHANGED receiver
     \/ /\ ~publisher[o]
        /\ receiver' = [receiver EXCEPT ![o] = "ended"]
        /\ UNCHANGED <<channel, streamed>>
  /\ UNCHANGED <<stage, portVars, registry, publisher, published>>

\* stream_events: one event after the other, until the channel is empty and closed.
StreamEvents(o) ==
  /\ receiver[o] = "page"
  /\ \/ /\ channel[o] # <<>>
        /\ streamed' = [streamed EXCEPT ![o] = Append(@, Head(channel[o]))]
        /\ channel' = [channel EXCEPT ![o] = Tail(@)]
        /\ UNCHANGED receiver
     \/ /\ channel[o] = <<>> /\ ~publisher[o]
        /\ receiver' = [receiver EXCEPT ![o] = "ended"]
        /\ UNCHANGED <<channel, streamed>>
  /\ UNCHANGED <<stage, portVars, registry, publisher, published>>

\* The page goes away.
PageLeaves(o) ==
  /\ receiver[o] = "page" /\ channel[o] # <<>>
  /\ receiver' = [receiver EXCEPT ![o] = "gone"]
  /\ channel' = [channel EXCEPT ![o] = <<>>]
  /\ UNCHANGED <<stage, portVars, registry, publisher, published, streamed>>

ServerInit ==
  /\ stage = [o \in Offers |-> "new"] /\ port = [o \in Offers |-> 0]
  /\ registry = {} /\ receiver = [o \in Offers |-> "none"] /\ publisher = [o \in Offers |-> FALSE]
  /\ channel = [o \in Offers |-> <<>>] /\ published = [o \in Offers |-> 0]
  /\ streamed = [o \in Offers |-> <<>>] /\ range \in PortRanges
  /\ tried = [o \in Offers |-> 0] /\ portless = {}

ServerNext ==
  \E o \in Offers :
    \/ ResolveBrain(o) \/ Register(o) \/ TryPort(o) \/ NoPort(o) \/ AcceptOffer(o) \/ Publish(o)
    \/ CallEnds(o) \/ DropEvents(o) \/ DropSocket(o) \/ CallOver(o)
    \/ Subscribe(o) \/ StreamEvents(o) \/ PageLeaves(o)

ServerSpec == ServerInit /\ [][ServerNext]_serverVars

-----------------------------------------------------------------------------
(* Properties.                                                             *)

\* A page hears its call from the first event on, in order and without a gap, whenever it
\* came, be it after the call had ended; and a stream that ends of itself has told
\* everything (register, take_receiver, stream_events).
EventsWhole ==
  \A o \in Offers :
    /\ \A i \in 1..Len(streamed[o]) : streamed[o][i] = i
    /\ receiver[o] = "page" => streamed[o] \o channel[o] = [i \in 1..published[o] |-> i]
    /\ receiver[o] = "ended" => Len(streamed[o]) = published[o]

\* The range that a firewall opens: port_base and the ports behind it, port_tries in all.
InRange(p) == p = range.base \/ (range.base < p /\ p < range.base + range.tries)

\* A call's socket is in the pinned range, and an offer is turned away for want of a port
\* only when each port of the range was tried: also with no tries configured and at the
\* last port, while other offers bind and let go (bind_media_socket).
PortsInRange ==
  range.base # 0 =>
    /\ \A o \in Offers : port[o] # 0 => InRange(port[o])
    /\ \A o \in portless : \A p \in 1..PortMax : InRange(p) => p < NextPort(o)

\* However an offer or a call went, in the end nothing of it is left: no entry in the
\* registry, no publisher that would keep a page waiting and no receiver that nobody can
\* take (RegistryGuard, handle_offer).
NothingLeftBehind ==
  \A o \in Offers :
    stage[o] \in {"over", "refused"} =>
      o \notin registry /\ ~ publisher[o] /\ receiver[o] # "registry"

\* A page that follows a call that is over comes to the end of the stream (stream_events).
StreamsEnd ==
  \A o \in Offers :
    (receiver[o] = "page" /\ stage[o] \in {"ending", "over", "refusing", "refused"})
      ~> (receiver[o] # "page")

\* The stream's task runs when there is something to tell, and what a function holds is
\* dropped when it returns; calls and offers need not end.
ServerFairness == \A o \in Offers : WF_serverVars(StreamEvents(o)) /\ WF_serverVars(DropEvents(o))

\* What the server hands out belongs to one call and comes back: its events, its ports and,
\* when an offer fails, all that had been set up for it.
ServerKeeps == EventsWhole /\ PortsInRange /\ NothingLeftBehind
=============================================================================
