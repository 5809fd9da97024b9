------------------------- MODULE ServiceParts_proofs -------------------------
(***************************************************************************)
(* Proofs about the components that MCServiceParts checks side by side:    *)
(* the registration of the SIP agent, the call server and the parallel     *)
(* block. Each component is proved for its own specification.              *)
(***************************************************************************)
EXTENDS SipAgent, CallServer, ParallelPipeline, SequenceFacts, FiniteSetTheorems, TLAPS

-----------------------------------------------------------------------------
(* The registration of SipAgent.                                           *)

RegisterTypes ==
  /\ regLoop \in {"off", "send", "flight", "sleep", "done"} /\ unreg \in {"none", "flight", "done"}
  /\ regCancel \in BOOLEAN /\ registered \in BOOLEAN /\ unregOk \in BOOLEAN
  /\ delay \in Nat /\ binding \in Nat /\ granted \in Nat /\ regs \in Nat

\* The loop wakes before the binding that it was granted lapses. Only a de-REGISTER takes the
\* binding away early, and it has cancelled the loop first.
WakesInTime ==
  /\ unreg # "none" => regCancel
  /\ registered /\ regLoop = "sleep" /\ ~ regCancel /\ granted >= MinReregister => delay < binding

RegisterInv == RegisterTypes /\ WakesInTime

\* Three quarters of an expiry that is not floored are less than all of it.
LEMMA DelayInTime ==
  ASSUME NEW e \in Nat
  PROVE  ReregisterDelay(e) \in Nat /\ (e >= MinReregister => ReregisterDelay(e) < e)
<1>1. MinReregister \in Nat /\ MinReregister > 0 BY SipAssumption
<1>2. \A n \in Nat : (n * 3) \div 4 \in Nat /\ (n > 0 => (n * 3) \div 4 < n) OBVIOUS
<1> QED BY <1>1, <1>2 DEF ReregisterDelay

\* A step of the registration keeps the invariant.
LEMMA RegisterStep ==
  ASSUME RegisterInv, RegisterSteps
  PROVE  RegisterInv'
<1> USE SipAssumption DEF RegisterInv, RegisterTypes, WakesInTime
<1>1. CASE RegSend BY <1>1 DEF RegSend
<1>2. CASE RegFails BY <1>2 DEF RegFails
<1>3. CASE RegWakes BY <1>3 DEF RegWakes
<1>4. CASE RegCancelled BY <1>4 DEF RegCancelled
<1>5. CASE SipTick BY <1>5 DEF SipTick
<1>6. ASSUME NEW e \in Expiries, RegOk(e) PROVE RegisterInv' BY <1>6, DelayInTime DEF RegOk
<1>7. CASE Unregister BY <1>7 DEF Unregister
<1>8. CASE UnregisterAnswered
  <2>1. UNCHANGED <<regLoop, regCancel, registered, delay, granted, regs>> /\ unreg = "flight" /\ unreg' = "done"
    BY <1>8 DEF UnregisterAnswered
  <2>2. binding' \in Nat BY <1>8 DEF UnregisterAnswered
  <2>3. unregOk' \in BOOLEAN BY <1>8, Zenon DEF UnregisterAnswered
  <2> QED BY <2>1, <2>2, <2>3
<1>9. CASE Shutdown BY <1>9 DEF Shutdown
<1> QED BY <1>1, <1>2, <1>3, <1>4, <1>5, <1>6, <1>7, <1>8, <1>9 DEF RegisterSteps

\* is_registered is honest whatever the trunk answers and however often it fails: with an
\* expiry that the code does not floor, the binding is refreshed before it lapses.
THEOREM RegistrationHonest == SipSpec => []RegisteredIsBound
<1>1. SipInit => RegisterInv
  <2> SUFFICES ASSUME SipInit PROVE RegisterInv
    OBVIOUS
  <2>1. registered \in BOOLEAN BY Zenon DEF SipInit
  <2>2. WakesInTime BY DEF SipInit, WakesInTime
  <2> QED BY <2>1, <2>2 DEF SipInit, RegisterInv, RegisterTypes
<1>2. RegisterInv /\ [SipNext]_sipVars => RegisterInv'
  <2> SUFFICES ASSUME RegisterInv, [SipNext]_sipVars PROVE RegisterInv'
    OBVIOUS
  <2>1. CallSteps => UNCHANGED sipRegVars
    BY DEF CallSteps, NextInbound, NewInvite, Reject, Answer, Originate, PeerEnds,
       SupervisorTerminated, SupervisorBye, DropTransport
  <2>2. CASE UNCHANGED sipRegVars
    BY <2>2 DEF sipRegVars, RegisterInv, RegisterTypes, WakesInTime
  <2> QED BY <2>1, <2>2, RegisterStep DEF SipNext, sipVars
<1>3. RegisterInv => RegisteredIsBound
  BY DEF RegisterInv, RegisterTypes, WakesInTime, RegisteredIsBound
<1> QED BY <1>1, <1>2, <1>3, PTL DEF SipSpec

-----------------------------------------------------------------------------
(* CallServer.                                                             *)

ServerTypes ==
  /\ range \in PortRanges /\ registry \subseteq Offers /\ portless \subseteq Offers
  /\ stage \in [Offers -> {"new", "resolved", "registered", "bound", "running", "ending", "over",
                          "refusing", "refused"}]
  /\ tried \in [Offers -> Nat] /\ port \in [Offers -> 0 .. PortMax]
  /\ receiver \in [Offers -> {"none", "registry", "page", "ended", "gone"}]
  /\ publisher \in [Offers -> BOOLEAN]
  /\ channel \in [Offers -> Seq(Nat)] /\ streamed \in [Offers -> Seq(Nat)]
  /\ published \in [Offers -> Nat]

\* What is set up for an offer is there from its registration to its end, and no longer.
SetUp ==
  \A o \in Offers :
    /\ publisher[o] => stage[o] \in {"registered", "bound", "running", "ending", "refusing"}
    /\ stage[o] \in {"registered", "bound", "running", "refusing"} => publisher[o]
    /\ o \in registry \/ receiver[o] = "registry" =>
         stage[o] \in {"registered", "bound", "running", "ending"}
    /\ receiver[o] = "none" => stage[o] \in {"new", "resolved", "refused"}
    /\ stage[o] \in {"new", "resolved"} =>
         receiver[o] = "none" /\ published[o] = 0 /\ channel[o] = <<>> /\ streamed[o] = <<>>

\* The channel continues what was streamed, up to what was published, for as long as there
\* is a receiver; a stream that has ended has told everything, and nothing more will come.
Continues ==
  \A o \in Offers :
    /\ \A i \in 1 .. Len(streamed[o]) : streamed[o][i] = i
    /\ receiver[o] \in {"registry", "page"} =>
         /\ Len(streamed[o]) + Len(channel[o]) = published[o]
         /\ \A i \in 1 .. Len(channel[o]) : channel[o][i] = Len(streamed[o]) + i
    /\ receiver[o] = "ended" => Len(streamed[o]) = published[o] /\ ~ publisher[o]

\* An offer that was turned away is not tried again.
PortsInv ==
  /\ PortsInRange
  /\ \A o \in portless : stage[o] \in {"refusing", "refused"}

ServerInv == ServerTypes /\ SetUp /\ Continues /\ PortsInv

\* Steps that neither bind nor let go leave the ports as they were.
LEMMA PortsLeft ==
  ASSUME PortsInv, UNCHANGED portVars,
         \A o \in portless : stage[o] \in {"refusing", "refused"} => stage'[o] \in {"refusing", "refused"}
  PROVE  PortsInv'
BY DEF PortsInv, PortsInRange, InRange, NextPort, portVars

\* An offer's path up to the registration keeps the invariant.
LEMMA ServerSetUp ==
  ASSUME ServerInv, NEW o \in Offers, ResolveBrain(o) \/ Register(o) \/ Subscribe(o) \/ CallEnds(o)
  PROVE  ServerInv'
<1> USE DEF ServerInv, ServerTypes, eventVars, portVars
<1>0. PortsInv'
  <2>1. UNCHANGED portVars BY DEF ResolveBrain, Register, Subscribe, CallEnds
  <2>2. \A q \in portless : stage[q] \in {"refusing", "refused"} => stage'[q] \in {"refusing", "refused"}
    BY DEF ResolveBrain, Register, Subscribe, CallEnds
  <2>3. PortsInv OBVIOUS
  <2> QED BY ONLY <2>1, <2>2, <2>3, PortsLeft
<1>1. CASE ResolveBrain(o)
  <2>1. PICK outcome \in {"resolved", "refused"} : stage' = [stage EXCEPT ![o] = outcome]
    BY <1>1 DEF ResolveBrain
  <2>2. /\ UNCHANGED <<range, tried, portless, port, registry, receiver, publisher>>
        /\ UNCHANGED <<channel, published, streamed>> /\ stage[o] = "new"
    BY <1>1 DEF ResolveBrain
  <2>3. ServerTypes' BY <2>1, <2>2
  <2>4. SetUp' BY <2>1, <2>2 DEF SetUp
  <2>5. Continues' BY <2>2 DEF Continues
  <2> QED BY <1>0, <2>3, <2>4, <2>5
<1>2. CASE Register(o)
  <2>1. ServerTypes' BY <1>2 DEF Register
  <2>2. SetUp' BY <1>2 DEF Register, SetUp
  <2>3. Continues' BY <1>2 DEF Register, SetUp, Continues
  <2> QED BY <1>0, <2>1, <2>2, <2>3
<1>3. CASE Subscribe(o)
  <2>1. ServerTypes' BY <1>3 DEF Subscribe
  <2>2. SetUp' BY <1>3 DEF Subscribe, SetUp
  <2>3. Continues' BY <1>3 DEF Subscribe, Continues
  <2> QED BY <1>0, <2>1, <2>2, <2>3
<1>4. CASE CallEnds(o)
  <2>1. ServerTypes' BY <1>4 DEF CallEnds
  <2>2. SetUp' BY <1>4 DEF CallEnds, SetUp
  <2>3. Continues' BY <1>4 DEF CallEnds, Continues
  <2> QED BY <1>0, <2>1, <2>2, <2>3
<1> QED BY <1>1, <1>2, <1>3, <1>4

\* One bind: a port that is taken in this step is of the range.
LEMMA ServerBinds ==
  ASSUME ServerInv, NEW o \in Offers, TryPort(o)
  PROVE  ServerInv'
<1> USE DEF ServerInv, ServerTypes, eventVars
<1>0. /\ range.base \in Nat /\ range.tries \in Nat /\ PortMax \in Nat /\ tried[o] \in Nat
      /\ o \notin portless /\ stage[o] = "registered"
  <2>1. stage[o] = "registered" BY DEF TryPort
  <2>2. o \notin portless BY <2>1 DEF PortsInv
  <2>3. range \in [base : 0..PortMax, tries : 0..PortMax] /\ PortMax \in Nat BY ServerAssumption
  <2> QED BY <2>1, <2>2, <2>3
<1>1. UNCHANGED <<registry, receiver, publisher, channel, published, streamed, range, portless>>
  BY DEF TryPort
<1>2. CASE UNCHANGED <<port, stage>> /\ tried' = [tried EXCEPT ![o] = @ + 1]
  <2>1. ServerTypes' BY <1>0, <1>1, <1>2
  <2>2. SetUp' BY <1>1, <1>2 DEF SetUp
  <2>3. Continues' BY <1>1, <1>2 DEF Continues
  <2>4. \A q \in portless : NextPort(q)' = NextPort(q) BY <1>0, <1>1, <1>2 DEF NextPort
  <2>5. \A q : InRange(q)' = InRange(q) BY <1>1 DEF InRange
  <2>6. PortsInv' BY <1>1, <1>2, <2>4, <2>5 DEF PortsInv, PortsInRange
  <2> QED BY <2>1, <2>2, <2>3, <2>6
<1>3. ASSUME NEW p \in 1 .. PortMax, port' = [port EXCEPT ![o] = p], range.base # 0 => InRange(p),
             stage' = [stage EXCEPT ![o] = "bound"], tried' = tried
      PROVE  ServerInv'
  <2>1. ServerTypes' BY <1>0, <1>1, <1>3
  <2>2. SetUp' BY <1>0, <1>1, <1>3 DEF SetUp
  <2>3. Continues' BY <1>1, <1>3 DEF Continues
  <2>4. \A q : NextPort(q)' = NextPort(q) BY <1>1, <1>3 DEF NextPort
  <2>5. \A q : InRange(q)' = InRange(q) BY <1>1 DEF InRange
  <2>6. PortsInv' BY <1>0, <1>1, <1>3, <2>4, <2>5 DEF PortsInv, PortsInRange
  <2> QED BY <2>1, <2>2, <2>3, <2>6
<1>4. ASSUME range.base # 0, HasNext(o)
      PROVE  NextPort(o) \in 1 .. PortMax /\ InRange(NextPort(o))
  BY <1>0, <1>4 DEF HasNext, NextPort, InRange
<1> QED BY <1>2, <1>3, <1>4 DEF TryPort

\* An offer is turned away when each port of the range has been tried.
LEMMA RangeTried ==
  ASSUME ServerTypes, NEW o \in Offers, range.base # 0, ~ HasNext(o),
         NEW p \in 1 .. PortMax, InRange(p)
  PROVE  p < NextPort(o)
<1>1. range.base \in Nat /\ range.tries \in Nat /\ PortMax \in Nat /\ tried[o] \in Nat
  BY ServerAssumption DEF ServerTypes
<1> QED BY <1>1 DEF HasNext, NextPort, InRange

\* What an offer or a call held is let go.
LEMMA ServerEnds ==
  ASSUME ServerInv, NEW o \in Offers,
         NoPort(o) \/ AcceptOffer(o) \/ DropEvents(o) \/ DropSocket(o) \/ CallOver(o)
  PROVE  ServerInv'
<1> USE DEF ServerInv, ServerTypes, eventVars, portVars
<1>0. 0 \in 0 .. PortMax BY ServerAssumption
<1>1. UNCHANGED <<channel, published, streamed, range, tried>>
  BY DEF NoPort, AcceptOffer, DropEvents, DropSocket, CallOver
<1>2. /\ \A q : NextPort(q)' = NextPort(q)
      /\ \A q : InRange(q)' = InRange(q)
  BY <1>1 DEF NextPort, InRange
<1>3. CASE NoPort(o)
  <2>1. /\ stage' = [stage EXCEPT ![o] = "refusing"] /\ portless' = portless \cup {o} /\ stage[o] = "registered"
        /\ registry' = registry \ {o} /\ UNCHANGED <<publisher, port>>
        /\ receiver' = [receiver EXCEPT ![o] = IF receiver[o] = "registry" THEN "gone" ELSE receiver[o]]
    BY <1>3 DEF NoPort, GuardDropped
  <2>2. ServerTypes' BY <1>1, <2>1
  <2>3. SetUp' BY <1>1, <2>1 DEF SetUp
  <2>4. Continues' BY <1>1, <2>1 DEF Continues
  <2>5. range.base # 0 => \A p \in 1 .. PortMax : InRange(p) => p < NextPort(o)
    BY <1>3, RangeTried DEF NoPort
  <2>6. PortsInv' BY <1>1, <1>2, <2>1, <2>5 DEF PortsInv, PortsInRange
  <2> QED BY <2>2, <2>3, <2>4, <2>6
<1>4. CASE AcceptOffer(o) /\ stage' = [stage EXCEPT ![o] = "running"]
  <2>1. stage[o] = "bound" /\ UNCHANGED <<publisher, portless>> BY <1>4 DEF AcceptOffer
  <2>2. UNCHANGED <<port, registry, receiver>>
    BY <1>4, <2>1, "running" # "refusing" DEF AcceptOffer
  <2>3. ServerTypes' BY <1>1, <1>4, <2>1, <2>2
  <2>4. SetUp' BY <1>1, <1>4, <2>1, <2>2 DEF SetUp
  <2>5. Continues' BY <1>1, <2>1, <2>2 DEF Continues
  <2>6. PortsInv' BY <1>1, <1>2, <1>4, <2>1, <2>2 DEF PortsInv, PortsInRange
  <2> QED BY <2>3, <2>4, <2>5, <2>6
<1>5. CASE AcceptOffer(o) /\ stage' = [stage EXCEPT ![o] = "refusing"]
  <2>1. stage[o] = "bound" /\ UNCHANGED <<publisher, portless>> BY <1>5 DEF AcceptOffer
  <2>2. /\ registry' = registry \ {o} /\ port' = [port EXCEPT ![o] = 0]
        /\ receiver' = [receiver EXCEPT ![o] = IF receiver[o] = "registry" THEN "gone" ELSE receiver[o]]
    BY <1>5, <2>1, "running" # "refusing" DEF AcceptOffer, GuardDropped
  <2>3. ServerTypes' BY <1>0, <1>1, <1>5, <2>1, <2>2
  <2>4. SetUp' BY <1>1, <1>5, <2>1, <2>2 DEF SetUp
  <2>5. Continues' BY <1>1, <2>1, <2>2 DEF Continues
  <2>6. PortsInv' BY <1>1, <1>2, <1>5, <2>1, <2>2 DEF PortsInv, PortsInRange
  <2> QED BY <2>3, <2>4, <2>5, <2>6
<1>6. CASE DropEvents(o)
  <2>1. /\ stage[o] \in {"ending", "refusing"} /\ UNCHANGED <<port, portless, registry, receiver>>
        /\ publisher' = [publisher EXCEPT ![o] = FALSE]
        /\ stage' = [stage EXCEPT ![o] = IF stage[o] = "refusing" THEN "refused" ELSE stage[o]]
    BY <1>6 DEF DropEvents
  <2>2. ServerTypes' BY <1>1, <2>1
  <2>3. SetUp' BY <1>1, <2>1 DEF SetUp
  <2>4. Continues' BY <1>1, <2>1 DEF Continues
  <2>5. PortsInv' BY <1>1, <1>2, <2>1 DEF PortsInv, PortsInRange
  <2> QED BY <2>2, <2>3, <2>4, <2>5
<1>7. CASE DropSocket(o)
  <2>1. port' = [port EXCEPT ![o] = 0] /\ UNCHANGED <<stage, portless, registry, receiver, publisher>>
    BY <1>7 DEF DropSocket
  <2>2. ServerTypes' BY <1>0, <1>1, <2>1
  <2>3. SetUp' BY <1>1, <2>1 DEF SetUp
  <2>4. Continues' BY <1>1, <2>1 DEF Continues
  <2>5. PortsInv' BY <1>1, <1>2, <2>1 DEF PortsInv, PortsInRange
  <2> QED BY <2>2, <2>3, <2>4, <2>5
<1>8. CASE CallOver(o)
  <2>1. /\ stage[o] = "ending" /\ ~ publisher[o] /\ stage' = [stage EXCEPT ![o] = "over"]
        /\ registry' = registry \ {o} /\ UNCHANGED <<port, portless, publisher>>
        /\ receiver' = [receiver EXCEPT ![o] = IF receiver[o] = "registry" THEN "gone" ELSE receiver[o]]
    BY <1>8 DEF CallOver, GuardDropped
  <2>2. ServerTypes' BY <1>1, <2>1
  <2>3. SetUp' BY <1>1, <2>1 DEF SetUp
  <2>4. Continues' BY <1>1, <2>1 DEF Continues
  <2>5. PortsInv' BY <1>1, <1>2, <2>1 DEF PortsInv, PortsInRange
  <2> QED BY <2>2, <2>3, <2>4, <2>5
<1> QED BY <1>3, <1>4, <1>5, <1>6, <1>7, <1>8 DEF AcceptOffer

\* An event joins the channel behind the others.
LEMMA ServerPublishes ==
  ASSUME ServerInv, NEW o \in Offers, Publish(o)
  PROVE  ServerInv'
<1> USE DEF ServerInv, ServerTypes
<1>1. /\ channel[o] \in Seq(Nat) /\ streamed[o] \in Seq(Nat) /\ published[o] \in Nat
      /\ Len(channel[o]) \in Nat /\ Len(streamed[o]) \in Nat
  OBVIOUS
<1> DEFINE c == Append(channel[o], published[o] + 1)
<1>2. /\ c \in Seq(Nat) /\ Len(c) = Len(channel[o]) + 1
      /\ \A i \in 1 .. Len(channel[o]) : c[i] = channel[o][i]
      /\ c[Len(channel[o]) + 1] = published[o] + 1
  BY <1>1
<1>3. channel' = [channel EXCEPT ![o] = IF receiver[o] = "gone" THEN @ ELSE c] BY DEF Publish
<1> HIDE DEF c
<1>4. published' = [published EXCEPT ![o] = published[o] + 1] BY DEF Publish
<1>5. UNCHANGED <<stage, portVars, registry, receiver, publisher, streamed>> BY DEF Publish
<1>6. stage[o] = "running" BY DEF Publish
<1>7. ServerTypes' BY <1>1, <1>2, <1>3, <1>4, <1>5 DEF portVars
<1>8. SetUp' BY <1>3, <1>4, <1>5, <1>6 DEF SetUp
<1>9. PortsInv' BY <1>5, PortsLeft
<1>10. Continues'
  <2> SUFFICES ASSUME NEW q \in Offers, q = o
               PROVE  /\ receiver[q] \in {"registry", "page"} =>
                           /\ Len(streamed[q]) + Len(channel'[q]) = published'[q]
                           /\ \A i \in 1 .. Len(channel'[q]) : channel'[q][i] = Len(streamed[q]) + i
                      /\ receiver[q] # "ended"
    BY <1>3, <1>4, <1>5, ZenonT(60) DEF Continues
  <2>1. receiver[o] # "ended" BY <1>6 DEF SetUp, Continues
  <2>2. receiver[o] \in {"registry", "page"} => channel'[o] = c /\ published'[o] = published[o] + 1
    BY <1>3, <1>4
  <2> SUFFICES ASSUME receiver[o] \in {"registry", "page"}
               PROVE  /\ Len(streamed[o]) + Len(c) = published[o] + 1
                      /\ \A i \in 1 .. Len(c) : c[i] = Len(streamed[o]) + i
    BY <2>1, <2>2
  <2>3. /\ Len(streamed[o]) + Len(channel[o]) = published[o]
        /\ \A i \in 1 .. Len(channel[o]) : channel[o][i] = Len(streamed[o]) + i
    BY DEF Continues
  <2>4. ASSUME NEW i \in 1 .. Len(c) PROVE c[i] = Len(streamed[o]) + i
    <3>1. i \in 1 .. Len(channel[o]) \/ i = Len(channel[o]) + 1 BY <1>1, <1>2
    <3>2. CASE i \in 1 .. Len(channel[o]) BY <1>2, <2>3, <3>2
    <3>3. CASE i = Len(channel[o]) + 1 BY <1>1, <1>2, <2>3, <3>3
    <3> QED BY <3>1, <3>2, <3>3
  <2> QED BY <1>1, <1>2, <2>3, <2>4
<1> QED BY <1>7, <1>8, <1>9, <1>10

\* The stream takes the events from the front; it ends when there are no more.
LEMMA ServerStreams ==
  ASSUME ServerInv, NEW o \in Offers, StreamEvents(o) \/ PageLeaves(o)
  PROVE  ServerInv'
<1> USE DEF ServerInv, ServerTypes
<1>1. /\ channel[o] \in Seq(Nat) /\ streamed[o] \in Seq(Nat) /\ published[o] \in Nat
      /\ Len(channel[o]) \in Nat /\ Len(streamed[o]) \in Nat
  OBVIOUS
<1>2. UNCHANGED <<stage, portVars, registry, publisher, published>> /\ receiver[o] = "page"
  BY DEF StreamEvents, PageLeaves
<1>3. PortsInv' BY <1>2, PortsLeft
<1>4. CASE channel[o] # <<>> /\ StreamEvents(o)
  <2> DEFINE s == Append(streamed[o], Head(channel[o]))
             t == Tail(channel[o])
  <2>1. /\ t \in Seq(Nat) /\ Len(t) = Len(channel[o]) - 1 /\ Head(channel[o]) = channel[o][1]
        /\ Len(channel[o]) > 0 /\ Head(channel[o]) \in Nat
        /\ \A i \in 1 .. Len(t) : t[i] = channel[o][i + 1]
    BY <1>1, <1>4, HeadTailProperties
  <2>2. /\ s \in Seq(Nat) /\ Len(s) = Len(streamed[o]) + 1
        /\ \A i \in 1 .. Len(streamed[o]) : s[i] = streamed[o][i]
        /\ s[Len(streamed[o]) + 1] = channel[o][1]
    BY <1>1, <2>1
  <2>3. streamed' = [streamed EXCEPT ![o] = s] /\ channel' = [channel EXCEPT ![o] = t] /\ UNCHANGED receiver
    BY <1>4 DEF StreamEvents
  <2> HIDE DEF s, t
  <2>4. ServerTypes' BY <1>2, <2>1, <2>2, <2>3 DEF portVars
  <2>5. SetUp' BY <1>2, <2>3 DEF SetUp
  <2>6. Continues'
    <3> SUFFICES ASSUME NEW q \in Offers, q = o
                 PROVE  /\ \A i \in 1 .. Len(s) : s[i] = i
                        /\ Len(s) + Len(t) = published[o]
                        /\ \A i \in 1 .. Len(t) : t[i] = Len(s) + i
      BY <1>2, <2>3 DEF Continues
    <3>1. /\ \A i \in 1 .. Len(streamed[o]) : streamed[o][i] = i
          /\ Len(streamed[o]) + Len(channel[o]) = published[o]
          /\ \A i \in 1 .. Len(channel[o]) : channel[o][i] = Len(streamed[o]) + i
      BY <1>2 DEF Continues
    <3>2. channel[o][1] = Len(streamed[o]) + 1 BY <1>1, <2>1, <3>1
    <3>3. ASSUME NEW i \in 1 .. Len(s) PROVE s[i] = i
      <4>1. i \in 1 .. Len(streamed[o]) \/ i = Len(streamed[o]) + 1 BY <1>1, <2>2
      <4> QED BY <2>2, <3>1, <3>2, <4>1
    <3>4. Len(s) + Len(t) = published[o] BY <1>1, <2>1, <2>2, <3>1
    <3>5. ASSUME NEW i \in 1 .. Len(t) PROVE t[i] = Len(s) + i
      <4>1. i + 1 \in 1 .. Len(channel[o]) BY <1>1, <2>1
      <4>2. channel[o][i + 1] = Len(streamed[o]) + (i + 1) BY <3>1, <4>1
      <4> QED BY <1>1, <2>1, <2>2, <4>2
    <3> QED BY <3>3, <3>4, <3>5
  <2> QED BY <1>3, <2>4, <2>5, <2>6
<1>5. CASE channel[o] = <<>> /\ StreamEvents(o)
  <2>1. ~ publisher[o] /\ receiver' = [receiver EXCEPT ![o] = "ended"] /\ UNCHANGED <<channel, streamed>>
    BY <1>5 DEF StreamEvents
  <2>2. Len(streamed[o]) = published[o] BY <1>1, <1>2, <1>5 DEF Continues
  <2>3. ServerTypes' /\ SetUp' BY <1>2, <2>1 DEF SetUp, portVars
  <2>4. Continues' BY <1>2, <2>1, <2>2 DEF Continues
  <2> QED BY <1>3, <2>3, <2>4
<1>6. CASE PageLeaves(o)
  <2>1. /\ receiver' = [receiver EXCEPT ![o] = "gone"] /\ channel' = [channel EXCEPT ![o] = <<>>]
        /\ UNCHANGED streamed
    BY <1>6 DEF PageLeaves
  <2>2. <<>> \in Seq(Nat) OBVIOUS
  <2>3. ServerTypes' BY <1>2, <2>1, <2>2 DEF portVars
  <2>4. SetUp' BY <1>2, <2>1 DEF SetUp
  <2>5. Continues' BY <1>2, <2>1 DEF Continues
  <2> QED BY <1>3, <2>3, <2>4, <2>5
<1> QED BY <1>4, <1>5, <1>6

\* The invariant says what the server keeps.
LEMMA ServerInvKeeps == ServerInv => ServerKeeps
<1> SUFFICES ASSUME ServerInv PROVE ServerKeeps
  OBVIOUS
<1>1. EventsWhole
  <2> SUFFICES ASSUME NEW o \in Offers, receiver[o] = "page"
               PROVE  streamed[o] \o channel[o] = [i \in 1 .. published[o] |-> i]
    BY DEF EventsWhole, ServerInv, Continues
  <2> DEFINE s == streamed[o]
             t == channel[o]
             n == published[o]
  <2>1. s \in Seq(Nat) /\ t \in Seq(Nat) /\ n \in Nat /\ Len(s) \in Nat /\ Len(t) \in Nat
    BY DEF ServerInv, ServerTypes
  <2>2. /\ \A i \in 1 .. Len(s) : s[i] = i
        /\ Len(s) + Len(t) = n /\ \A i \in 1 .. Len(t) : t[i] = Len(s) + i
    BY DEF ServerInv, Continues
  <2> HIDE DEF s, t, n
  <2>3. /\ s \o t \in Seq(Nat) /\ Len(s \o t) = n
        /\ \A i \in 1 .. n : (s \o t)[i] = IF i <= Len(s) THEN s[i] ELSE t[i - Len(s)]
    BY <2>1, <2>2, ConcatProperties
  <2>4. ASSUME NEW i \in 1 .. n PROVE (s \o t)[i] = i
    <3>1. CASE i <= Len(s) BY <2>1, <2>2, <2>3, <3>1
    <3>2. CASE i > Len(s)
      <4>1. i - Len(s) \in 1 .. Len(t) BY <2>1, <2>2, <3>2
      <4>2. t[i - Len(s)] = Len(s) + (i - Len(s)) BY <2>2, <4>1
      <4>3. Len(s) + (i - Len(s)) = i BY <2>1
      <4>4. (s \o t)[i] = t[i - Len(s)] BY <2>1, <2>3, <3>2
      <4> QED BY <4>2, <4>3, <4>4
    <3>3. i \in Nat /\ (i <= Len(s) \/ i > Len(s)) BY <2>1
    <3> QED BY <3>1, <3>2, <3>3
  <2> DEFINE u == s \o t
  <2> HIDE DEF u
  <2>5. u \in Seq(Nat) /\ Len(u) = n /\ \A i \in 1 .. n : u[i] = i BY <2>3, <2>4 DEF u
  <2>6. u = [i \in 1 .. n |-> i] BY <2>1, <2>5
  <2>7. s \o t = [i \in 1 .. n |-> i] BY <2>6 DEF u
  <2> QED BY <2>7 DEF s, t, n
<1>2. PortsInRange BY DEF ServerInv, PortsInv
<1>3. NothingLeftBehind BY DEF NothingLeftBehind, ServerInv, ServerTypes, SetUp
<1> QED BY <1>1, <1>2, <1>3 DEF ServerKeeps

\* However offers, pages and calls interleave, a page hears its call from the first event on
\* and to the last, even one that comes while the call's end is under way; a socket is in
\* the pinned range, whose every port was tried before an offer is turned away; and nothing
\* is left of an offer that failed or a call that is over.
THEOREM ServerSound == ServerSpec => []ServerKeeps
<1>1. ServerInit => ServerInv
  <2> SUFFICES ASSUME ServerInit PROVE ServerInv
    OBVIOUS
  <2> USE ServerAssumption DEF ServerInit
  <2>1. <<>> \in Seq(Nat) /\ Len(<<>>) = 0 OBVIOUS
  <2>2. ServerTypes BY <2>1 DEF ServerTypes
  <2>3. SetUp BY DEF SetUp
  <2>4. Continues BY <2>1 DEF Continues
  <2>5. PortsInv BY DEF PortsInv, PortsInRange
  <2> QED BY <2>2, <2>3, <2>4, <2>5 DEF ServerInv
<1>2. ServerInv /\ [ServerNext]_serverVars => ServerInv'
  <2> SUFFICES ASSUME ServerInv, [ServerNext]_serverVars PROVE ServerInv'
    OBVIOUS
  <2>1. CASE UNCHANGED serverVars
    BY <2>1 DEF serverVars, ServerInv, ServerTypes, SetUp, Continues, PortsInv, PortsInRange, InRange,
                NextPort
  <2> QED BY <2>1, ServerSetUp, ServerEnds, ServerBinds, ServerPublishes, ServerStreams DEF ServerNext
<1> QED BY <1>1, <1>2, ServerInvKeeps, PTL DEF ServerSpec

-----------------------------------------------------------------------------
(* The parallel block.                                                     *)

SysFrame == {f \in BlockFrame : f.kind \in SystemKinds}
NormFrame == {f \in BlockFrame : f.kind \notin SystemKinds}
IsLifecycle(f) == f.kind \in Lifecycle

BlockTypes ==
  /\ sys \in [Channels -> Seq(SysFrame)] /\ norm \in [Channels -> Seq(NormFrame)]
  /\ ids \in 1 .. MaxIds /\ copying \in Seq([frame : BlockFrame, to : Branches])
  /\ live \subseteq Channels /\ "fanin" \in live
  /\ pushes \in [Branches -> Seq(BlockFrame)]
  /\ pending \in [kind : Lifecycle \cup {"none"}, count : Nat] /\ (pending.kind = "none" => pending.count = 0)
  /\ flushing \in Seq(BlockFrame) /\ FanInTypeOK

\* No frame is twice in a sequence.
Distinct(q) == \A j, k \in 1 .. Len(q) : q[j] = q[k] => j = k

\* What fan_in has let through or holds back is there once, and is marked as seen unless it is a
\* lifecycle frame, of which it holds none back.
EmitInv ==
  /\ Distinct(out) /\ Distinct(flushing) /\ Distinct(buffer)
  /\ Range(out) \cap Range(flushing) = {} /\ Range(out) \cap Range(buffer) = {}
  /\ Range(flushing) \cap Range(buffer) = {}
  /\ \A f \in Range(out) \cup Range(flushing) : ~ IsLifecycle(f) => f.id \in seenIds
  /\ \A f \in Range(buffer) : ~ IsLifecycle(f) /\ f.id \in seenIds

\* A lifecycle frame has passed the block, as far as fan_in is concerned.
StartOut == \E f \in Range(out) \cup Range(flushing) : f.kind = "Start"
TermOut == \E f \in Range(out) \cup Range(flushing) : Terminal(f.kind)

Places == {"before", "chan", "push", "fanin", "done"}
AllBefore(pl) == \A b \in Branches : pl[b] = "before"

\* A queue holds at most one lifecycle frame, of kind kk, and only if it may.
Carries(q, kk, may) ==
  \A k \in 1 .. Len(q) : IsLifecycle(q[k]) =>
    /\ q[k].kind = kk /\ may = TRUE
    /\ \A j \in 1 .. Len(q) : IsLifecycle(q[j]) => j = k

\* Every lifecycle frame in a queue of fan_in is the one of a branch of its own.
Labelled(q, ls, kk, pl) ==
  /\ ls \in Seq(Branches) /\ Len(ls) = Len(q)
  /\ \A k \in 1 .. Len(q) : IsLifecycle(q[k]) =>
       /\ q[k].kind = kk /\ pl[ls[k]] = "fanin"
       /\ \A j \in 1 .. Len(q) : IsLifecycle(q[j]) /\ ls[j] = ls[k] => j = k

CopyFree == \A k \in 1 .. Len(copying) : ~ IsLifecycle(copying[k].frame)
AtHead(pl) == AllBefore(pl) /\ CopyFree /\ ~ TermOut

CopyInv(pl, kk) ==
  /\ \A k \in 1 .. Len(copying) : IsLifecycle(copying[k].frame) =>
       copying[k].frame.kind = kk /\ pl[copying[k].to] = "before" /\ ~ TermOut
  /\ \A j, k \in 1 .. Len(copying) :
       copying[j].frame = copying[k].frame /\ (copying[j].to = copying[k].to => j = k)

BranchInv(pl, kk) ==
  \A b \in Branches :
    /\ Carries(sys[b], kk, pl[b] = "chan") /\ Carries(norm[b], kk, pl[b] = "chan")
    /\ Carries(pushes[b], kk, pl[b] = "push")

\* The end of the block: whoever has passed the terminal frame has returned, and fan_out returns
\* with the last copy of it.
EndInv(pl, kk) ==
  /\ (kk = "Start") <=> ~ StartOut
  /\ TermOut => "head" \notin live /\ live \cap Branches = {} /\ AllBefore(pl)
  /\ StartOut => \A b \in Branches : pl[b] \in {"fanin", "done"} => b \notin live
  /\ StartOut /\ ~ AllBefore(pl) => "head" \notin live \/ ~ CopyFree

DoneSet(pl) == {b \in Branches : pl[b] = "done"}

SyncInv(pl, kk, ls, ln) ==
  /\ pl \in [Branches -> Places] /\ kk \in Lifecycle
  /\ Carries(sys["head"], kk, AtHead(pl)) /\ Carries(norm["head"], kk, AtHead(pl))
  /\ CopyInv(pl, kk) /\ BranchInv(pl, kk) /\ EndInv(pl, kk)
  /\ Labelled(sys["fanin"], ls, kk, pl) /\ Labelled(norm["fanin"], ln, kk, pl)
  /\ pending.kind \in {"none", kk} /\ pending.count = Cardinality(DoneSet(pl))

BlockInv ==
  /\ BlockTypes /\ EmitInv
  /\ \E pl \in [Branches -> Places], kk \in Lifecycle, ls, ln \in Seq(Branches) : SyncInv(pl, kk, ls, ln)

\* A queue that carries a lifecycle frame, after one more frame and after one less.
LEMMA CarryAppend ==
  ASSUME NEW S, NEW q \in Seq(S), NEW f \in S, NEW kk, NEW may \in BOOLEAN, NEW may2 \in BOOLEAN,
         Carries(q, kk, may),
         IsLifecycle(f) => f.kind = kk /\ ~ may /\ may2,
         ~ IsLifecycle(f) => (may => may2)
  PROVE  Carries(Append(q, f), kk, may2)
<1>1. /\ Len(q) \in Nat /\ Len(Append(q, f)) = Len(q) + 1
      /\ \A k \in 1 .. Len(Append(q, f)) :
           \/ k \in 1 .. Len(q) /\ Append(q, f)[k] = q[k]
           \/ k = Len(q) + 1 /\ Append(q, f)[k] = f
  BY AppendAt
<1>2. CASE IsLifecycle(f)
  <2>1. \A k \in 1 .. Len(q) : ~ IsLifecycle(q[k]) BY <1>2 DEF Carries
  <2>2. \A k \in 1 .. Len(Append(q, f)) : IsLifecycle(Append(q, f)[k]) => k = Len(q) + 1 /\ Append(q, f)[k] = f
    BY <1>1, <2>1
  <2> QED BY <1>2, <2>2 DEF Carries
<1>3. CASE ~ IsLifecycle(f)
  <2>1. \A k \in 1 .. Len(Append(q, f)) : IsLifecycle(Append(q, f)[k]) => k \in 1 .. Len(q) /\ Append(q, f)[k] = q[k]
    BY <1>1, <1>3
  <2>2. may => may2 BY <1>3
  <2> QED BY <2>1, <2>2 DEF Carries
<1> QED BY <1>2, <1>3

\* What is left of such a queue carries nothing once its lifecycle frame is taken.
LEMMA CarryTail ==
  ASSUME NEW S, NEW q \in Seq(S), q # <<>>, NEW kk, NEW may \in BOOLEAN, Carries(q, kk, may)
  PROVE  /\ IsLifecycle(Head(q)) => Head(q).kind = kk /\ may /\ \A m \in BOOLEAN : Carries(Tail(q), kk, m)
         /\ ~ IsLifecycle(Head(q)) => Carries(Tail(q), kk, may)
<1>1. /\ Len(q) \in Nat /\ Len(Tail(q)) = Len(q) - 1
      /\ Head(q) = q[1] /\ 1 \in 1 .. Len(q)
      /\ \A k \in 1 .. Len(Tail(q)) : k + 1 \in 1 .. Len(q) /\ Tail(q)[k] = q[k + 1]
  BY TailAt
<1>2. CASE IsLifecycle(Head(q))
  <2>1. \A k \in 1 .. Len(q) : IsLifecycle(q[k]) => k = 1 BY <1>1, <1>2 DEF Carries
  <2>2. \A k \in 1 .. Len(Tail(q)) : ~ IsLifecycle(Tail(q)[k]) BY <1>1, <2>1
  <2>3. Head(q).kind = kk /\ may BY <1>1, <1>2 DEF Carries
  <2> QED BY <1>2, <2>2, <2>3 DEF Carries
<1>3. CASE ~ IsLifecycle(Head(q))
  <2>1. ASSUME NEW k \in 1 .. Len(Tail(q)), IsLifecycle(Tail(q)[k])
        PROVE  /\ Tail(q)[k].kind = kk /\ may = TRUE
               /\ \A j \in 1 .. Len(Tail(q)) : IsLifecycle(Tail(q)[j]) => j = k
    <3>1. k + 1 \in 1 .. Len(q) /\ IsLifecycle(q[k + 1]) /\ Tail(q)[k] = q[k + 1] BY <1>1, <2>1
    <3>2. q[k + 1].kind = kk /\ may = TRUE /\ \A j \in 1 .. Len(q) : IsLifecycle(q[j]) => j = k + 1
      BY <3>1 DEF Carries
    <3>3. ASSUME NEW j \in 1 .. Len(Tail(q)), IsLifecycle(Tail(q)[j]) PROVE j = k
      <4>1. j + 1 \in 1 .. Len(q) /\ IsLifecycle(q[j + 1]) BY <1>1, <3>3
      <4>2. j + 1 = k + 1 BY <3>2, <4>1
      <4> QED BY <4>2
    <3> QED BY <3>1, <3>2, <3>3
  <2> QED BY <1>3, <2>1 DEF Carries
<1> QED BY <1>2, <1>3

\* One that may hold a lifecycle frame in fewer cases, and one that holds none.
LEMMA CarryMore ==
  ASSUME NEW q, NEW kk, NEW may \in BOOLEAN, NEW may2 \in BOOLEAN, Carries(q, kk, may), may => may2
  PROVE  Carries(q, kk, may2)
BY DEF Carries

\* A queue without a lifecycle frame, or an empty one, may have any kind under way.
LEMMA CarryNone ==
  ASSUME NEW q, NEW kk, NEW k2, NEW may \in BOOLEAN, Carries(q, kk, FALSE)
  PROVE  Carries(q, k2, may)
BY DEF Carries

LEMMA CarryEmpty ==
  ASSUME NEW kk, NEW may \in BOOLEAN
  PROVE  Carries(<<>>, kk, may)
BY DEF Carries

\* The labels of a queue of fan_in grow and shrink with it.
LEMMA LabelAppend ==
  ASSUME NEW S, NEW q \in Seq(S), NEW f \in S, NEW ls, NEW kk, NEW pl \in [Branches -> Places],
         NEW b \in Branches, NEW p2 \in [Branches -> Places], Labelled(q, ls, kk, pl),
         IsLifecycle(f) => f.kind = kk /\ pl[b] # "fanin" /\ p2[b] = "fanin",
         \A a \in Branches : pl[a] = "fanin" => p2[a] = "fanin"
  PROVE  Labelled(Append(q, f), Append(ls, b), kk, p2)
<1>1. /\ Len(q) \in Nat /\ Len(Append(q, f)) = Len(q) + 1
      /\ \A k \in 1 .. Len(Append(q, f)) :
           \/ k \in 1 .. Len(q) /\ Append(q, f)[k] = q[k]
           \/ k = Len(q) + 1 /\ Append(q, f)[k] = f
  BY AppendAt
<1>2. ls \in Seq(Branches) /\ Len(ls) = Len(q) BY DEF Labelled
<1>3. /\ Append(ls, b) \in Seq(Branches) /\ Len(Append(ls, b)) = Len(q) + 1
      /\ \A k \in 1 .. Len(q) : Append(ls, b)[k] = ls[k] /\ ls[k] \in Branches
      /\ Append(ls, b)[Len(q) + 1] = b
  BY <1>2, AppendProperties, ElementOfSeq
<1>4. ASSUME NEW k \in 1 .. Len(Append(q, f)), IsLifecycle(Append(q, f)[k])
      PROVE  /\ Append(q, f)[k].kind = kk /\ p2[Append(ls, b)[k]] = "fanin"
             /\ \A j \in 1 .. Len(Append(q, f)) :
                  IsLifecycle(Append(q, f)[j]) /\ Append(ls, b)[j] = Append(ls, b)[k] => j = k
  <2>1. ASSUME NEW i \in 1 .. Len(q), IsLifecycle(Append(q, f)[i])
        PROVE  /\ q[i] = Append(q, f)[i] /\ IsLifecycle(q[i]) /\ q[i].kind = kk /\ pl[ls[i]] = "fanin"
               /\ Append(ls, b)[i] = ls[i] /\ ls[i] \in Branches
               /\ \A j \in 1 .. Len(q) : IsLifecycle(q[j]) /\ ls[j] = ls[i] => j = i
    <3>1. i \in 1 .. Len(Append(q, f)) /\ i # Len(q) + 1 BY <1>1
    <3>2. q[i] = Append(q, f)[i] BY <1>1, <3>1
    <3> QED BY <2>1, <3>2, <1>3 DEF Labelled
  <2>2. CASE k \in 1 .. Len(q)
    <3>1. Append(q, f)[k].kind = kk /\ p2[Append(ls, b)[k]] = "fanin" BY <2>1, <2>2, <1>4, ZenonT(60)
    <3>2. ASSUME NEW j \in 1 .. Len(Append(q, f)), IsLifecycle(Append(q, f)[j]), Append(ls, b)[j] = Append(ls, b)[k]
          PROVE  j = k
      <4>1. CASE j \in 1 .. Len(q) BY <2>1, <2>2, <3>2, <4>1, <1>4
      <4>2. CASE j = Len(q) + 1
        <5>1. IsLifecycle(f) /\ Append(ls, b)[j] = b BY <1>1, <1>3, <3>2, <4>2
        <5>2. pl[ls[k]] = "fanin" /\ Append(ls, b)[k] = ls[k] BY <2>1, <2>2, <1>4
        <5>3. pl[b] = "fanin" BY <5>1, <5>2, <3>2
        <5> QED BY <5>1, <5>3
      <4> QED BY <4>1, <4>2, <1>1
    <3> QED BY <3>1, <3>2
  <2>3. CASE k = Len(q) + 1
    <3>1. Append(q, f)[k] = f /\ Append(ls, b)[k] = b BY <1>1, <1>3, <2>3
    <3>2. f.kind = kk /\ p2[b] = "fanin" /\ pl[b] # "fanin" BY <3>1, <1>4
    <3>3. ASSUME NEW j \in 1 .. Len(Append(q, f)), IsLifecycle(Append(q, f)[j]), Append(ls, b)[j] = Append(ls, b)[k]
          PROVE  j = k
      <4>1. CASE j \in 1 .. Len(q)
        <5>1. pl[ls[j]] = "fanin" /\ Append(ls, b)[j] = ls[j] BY <2>1, <3>3, <4>1
        <5>2. pl[b] = "fanin" BY <5>1, <3>1, <3>3
        <5> QED BY <5>2, <3>2
      <4> QED BY <4>1, <1>1, <2>3
    <3> QED BY <3>1, <3>2, <3>3
  <2> QED BY <2>2, <2>3, <1>1
<1> QED BY <1>1, <1>3, <1>4 DEF Labelled

\* Taking a lifecycle frame from a queue of fan_in counts its branch as done.
LEMMA LabelTail ==
  ASSUME NEW S, NEW q \in Seq(S), q # <<>>, NEW ls, NEW kk, NEW pl \in [Branches -> Places], Labelled(q, ls, kk, pl)
  PROVE  /\ IsLifecycle(Head(q)) =>
              /\ Head(q).kind = kk /\ Head(ls) \in Branches /\ pl[Head(ls)] = "fanin"
              /\ Labelled(Tail(q), Tail(ls), kk, [pl EXCEPT ![Head(ls)] = "done"])
         /\ ~ IsLifecycle(Head(q)) => Labelled(Tail(q), Tail(ls), kk, pl)
<1>1. /\ Len(q) \in Nat /\ Len(Tail(q)) = Len(q) - 1
      /\ Head(q) = q[1] /\ 1 \in 1 .. Len(q)
      /\ \A k \in 1 .. Len(Tail(q)) : k + 1 \in 1 .. Len(q) /\ Tail(q)[k] = q[k + 1]
  BY TailAt
<1>2. ls \in Seq(Branches) /\ Len(ls) = Len(q) BY DEF Labelled
<1>3. ls # <<>> BY <1>1, <1>2, EmptySeq
<1>4. /\ Tail(ls) \in Seq(Branches) /\ Len(Tail(ls)) = Len(q) - 1
      /\ Head(ls) = ls[1] /\ Head(ls) \in Branches
      /\ \A k \in 1 .. Len(Tail(ls)) : Tail(ls)[k] = ls[k + 1]
  BY <1>2, <1>3, TailAt
<1>5. \A k \in 1 .. Len(q) : ls[k] \in Branches BY <1>2, ElementOfSeq
<1>6. ASSUME NEW p2 \in [Branches -> Places],
             \A k \in 1 .. Len(q) : k # 1 /\ IsLifecycle(q[k]) => p2[ls[k]] = "fanin"
      PROVE  Labelled(Tail(q), Tail(ls), kk, p2)
  <2>1. ASSUME NEW k \in 1 .. Len(Tail(q)), IsLifecycle(Tail(q)[k])
        PROVE  /\ Tail(q)[k].kind = kk /\ p2[Tail(ls)[k]] = "fanin"
               /\ \A j \in 1 .. Len(Tail(q)) : IsLifecycle(Tail(q)[j]) /\ Tail(ls)[j] = Tail(ls)[k] => j = k
    <3>1. /\ k + 1 \in 1 .. Len(q) /\ IsLifecycle(q[k + 1]) /\ Tail(q)[k] = q[k + 1] /\ Tail(ls)[k] = ls[k + 1]
          /\ k + 1 # 1
      BY <1>1, <1>4, <2>1
    <3>2. q[k + 1].kind = kk /\ \A j \in 1 .. Len(q) : IsLifecycle(q[j]) /\ ls[j] = ls[k + 1] => j = k + 1
      BY <3>1 DEF Labelled
    <3>3. ASSUME NEW j \in 1 .. Len(Tail(q)), IsLifecycle(Tail(q)[j]), Tail(ls)[j] = Tail(ls)[k] PROVE j = k
      <4>1. j + 1 \in 1 .. Len(q) /\ IsLifecycle(q[j + 1]) /\ Tail(ls)[j] = ls[j + 1] BY <1>1, <1>4, <3>3
      <4>2. j + 1 = k + 1 BY <3>1, <3>2, <3>3, <4>1
      <4> QED BY <4>2
    <3>4. p2[ls[k + 1]] = "fanin" BY <1>6, <3>1
    <3> QED BY <3>1, <3>2, <3>3, <3>4
  <2> QED BY <1>1, <1>4, <2>1 DEF Labelled
<1>7. CASE IsLifecycle(Head(q))
  <2>1. Head(q).kind = kk /\ pl[Head(ls)] = "fanin" BY <1>1, <1>4, <1>7 DEF Labelled
  <2>2. PICK p2 : p2 = [pl EXCEPT ![Head(ls)] = "done"] OBVIOUS
  <2>3. p2 \in [Branches -> Places] BY <2>2 DEF Places
  <2>4. \A k \in 1 .. Len(q) : k # 1 /\ IsLifecycle(q[k]) => ls[k] # ls[1] /\ pl[ls[k]] = "fanin"
    BY <1>1, <1>7 DEF Labelled
  <2>5. \A a \in Branches : a # Head(ls) => p2[a] = pl[a] BY <2>2
  <2>6. \A k \in 1 .. Len(q) : k # 1 /\ IsLifecycle(q[k]) => p2[ls[k]] = "fanin" BY <2>4, <2>5, <1>4, <1>5
  <2>7. Labelled(Tail(q), Tail(ls), kk, p2) BY <1>6, <2>3, <2>6
  <2> QED BY <1>7, <1>4, <2>1, <2>2, <2>7
<1>8. CASE ~ IsLifecycle(Head(q))
  <2>1. \A k \in 1 .. Len(q) : IsLifecycle(q[k]) => pl[ls[k]] = "fanin" BY DEF Labelled
  <2> QED BY <1>6, <1>8, <2>1
<1> QED BY <1>7, <1>8

\* The labels stay when no branch that has a frame in the queue moves, and when it has none.
LEMMA LabelMove ==
  ASSUME NEW q, NEW ls, NEW kk, NEW pl, NEW p2, Labelled(q, ls, kk, pl),
         \A a \in Branches : pl[a] = "fanin" => p2[a] = "fanin"
  PROVE  Labelled(q, ls, kk, p2)
<1>1. ls \in Seq(Branches) /\ Len(ls) = Len(q) BY DEF Labelled
<1>2. \A k \in 1 .. Len(q) : ls[k] \in Branches BY <1>1, ElementOfSeq
<1> QED BY <1>2 DEF Labelled

\* When no branch has a frame at fan_in, its queues hold no lifecycle frame.
LEMMA LabelFree ==
  ASSUME NEW q, NEW ls, NEW kk, NEW pl, NEW k2, NEW p2, Labelled(q, ls, kk, pl),
         \A a \in Branches : pl[a] # "fanin"
  PROVE  Labelled(q, ls, k2, p2)
<1>1. ls \in Seq(Branches) /\ Len(ls) = Len(q) BY DEF Labelled
<1>2. \A k \in 1 .. Len(q) : ls[k] \in Branches BY <1>1, ElementOfSeq
<1> QED BY <1>2 DEF Labelled

\* A queue of frames of the other class than kk holds no lifecycle frame.
LEMMA LabelOther ==
  ASSUME NEW q, NEW ls, NEW kk, NEW pl, NEW p2, Labelled(q, ls, kk, pl),
         \A k \in 1 .. Len(q) : q[k].kind # kk
  PROVE  Labelled(q, ls, kk, p2)
BY DEF Labelled

\* The block's own channels are not those of a branch.
LEMMA ChannelsOfBlock ==
  /\ "head" \in Channels /\ "fanin" \in Channels /\ Branches \subseteq Channels
  /\ "head" # "fanin" /\ "head" \notin Branches /\ "fanin" \notin Branches
BY ParallelAssumption DEF Channels

\* A block has finitely many branches, and at least one (ParallelPipeline::build).
LEMMA BranchCount == IsFiniteSet(Branches) /\ Cardinality(Branches) \in Nat /\ Cardinality(Branches) # 0
<1>1. IsFiniteSet(Branches) /\ Branches # {} BY ParallelAssumption
<1>2. Cardinality(Branches) \in Nat BY <1>1, FS_CardinalityType
<1>3. Cardinality(Branches) # 0 BY <1>1, FS_EmptySet
<1> QED BY <1>1, <1>2, <1>3

\* What a biased receive takes, and what it leaves.
LEMMA BlockReceive ==
  ASSUME BlockTypes, NEW c \in Channels, Waiting(c), Receive(c)
  PROVE  /\ Received(c) \in BlockFrame
         /\ sys' \in [Channels -> Seq(SysFrame)] /\ norm' \in [Channels -> Seq(NormFrame)]
         /\ \A d \in Channels : d # c => sys'[d] = sys[d] /\ norm'[d] = norm[d]
         /\ \/ /\ Received(c).kind \in SystemKinds /\ sys[c] # <<>> /\ Received(c) = Head(sys[c])
               /\ sys'[c] = Tail(sys[c]) /\ norm'[c] = norm[c]
            \/ /\ Received(c).kind \notin SystemKinds /\ norm[c] # <<>> /\ Received(c) = Head(norm[c])
               /\ norm'[c] = Tail(norm[c]) /\ sys'[c] = sys[c]
<1>1. sys \in [Channels -> Seq(SysFrame)] /\ norm \in [Channels -> Seq(NormFrame)] BY DEF BlockTypes
<1>2. sys[c] \in Seq(SysFrame) /\ norm[c] \in Seq(NormFrame) BY <1>1
<1>3. CASE sys[c] # <<>>
  <2>1. Head(sys[c]) \in SysFrame /\ Tail(sys[c]) \in Seq(SysFrame) BY <1>2, <1>3, HeadTailProperties
  <2>2. Received(c) = Head(sys[c]) /\ sys' = [sys EXCEPT ![c] = Tail(@)] /\ norm' = norm
    BY <1>3 DEF Received, Receive
  <2>3. Received(c) \in BlockFrame /\ Received(c).kind \in SystemKinds BY <2>1, <2>2 DEF SysFrame
  <2>4. sys' \in [Channels -> Seq(SysFrame)] /\ sys'[c] = Tail(sys[c]) /\ \A d \in Channels : d # c => sys'[d] = sys[d]
    BY <1>1, <2>1, <2>2
  <2> QED BY <1>1, <1>3, <2>2, <2>3, <2>4
<1>4. CASE sys[c] = <<>>
  <2>1. norm[c] # <<>> BY <1>4 DEF Waiting
  <2>2. Head(norm[c]) \in NormFrame /\ Tail(norm[c]) \in Seq(NormFrame) BY <1>2, <2>1, HeadTailProperties
  <2>3. Received(c) = Head(norm[c]) /\ norm' = [norm EXCEPT ![c] = Tail(@)] /\ sys' = sys
    BY <1>4 DEF Received, Receive
  <2>4. Received(c) \in BlockFrame /\ Received(c).kind \notin SystemKinds BY <2>2, <2>3 DEF NormFrame
  <2>5. norm' \in [Channels -> Seq(NormFrame)] /\ norm'[c] = Tail(norm[c]) /\ \A d \in Channels : d # c => norm'[d] = norm[d]
    BY <1>1, <2>2, <2>3
  <2> QED BY <1>1, <2>1, <2>3, <2>4, <2>5
<1> QED BY <1>3, <1>4

\* Where a frame that is sent goes.
LEMMA BlockSend ==
  ASSUME BlockTypes, NEW c \in Channels, NEW f \in BlockFrame, Send(c, f)
  PROVE  /\ sys' \in [Channels -> Seq(SysFrame)] /\ norm' \in [Channels -> Seq(NormFrame)]
         /\ \A d \in Channels : d # c => sys'[d] = sys[d] /\ norm'[d] = norm[d]
         /\ \/ c \notin live /\ sys'[c] = sys[c] /\ norm'[c] = norm[c]
            \/ /\ c \in live /\ f \in SysFrame
               /\ sys'[c] = Append(sys[c], f) /\ norm'[c] = norm[c]
            \/ /\ c \in live /\ f \in NormFrame
               /\ norm'[c] = Append(norm[c], f) /\ sys'[c] = sys[c]
<1>1. sys \in [Channels -> Seq(SysFrame)] /\ norm \in [Channels -> Seq(NormFrame)] BY DEF BlockTypes
<1>2. sys[c] \in Seq(SysFrame) /\ norm[c] \in Seq(NormFrame) BY <1>1
<1>3. CASE c \notin live /\ UNCHANGED chans BY <1>1, <1>3 DEF chans
<1>4. CASE c \in live /\ f.kind \in SystemKinds /\ sys' = [sys EXCEPT ![c] = Append(@, f)] /\ norm' = norm
  <2>1. f \in SysFrame BY <1>4 DEF SysFrame
  <2>2. Append(sys[c], f) \in Seq(SysFrame) BY <1>2, <2>1, AppendProperties
  <2>3. sys' \in [Channels -> Seq(SysFrame)] /\ sys'[c] = Append(sys[c], f) /\ \A d \in Channels : d # c => sys'[d] = sys[d]
    BY <1>1, <1>4, <2>2
  <2> QED BY <1>1, <1>4, <2>1, <2>3
<1>5. CASE c \in live /\ f.kind \notin SystemKinds /\ norm' = [norm EXCEPT ![c] = Append(@, f)] /\ sys' = sys
  <2>1. f \in NormFrame BY <1>5 DEF NormFrame
  <2>2. Append(norm[c], f) \in Seq(NormFrame) BY <1>2, <2>1, AppendProperties
  <2>3. norm' \in [Channels -> Seq(NormFrame)] /\ norm'[c] = Append(norm[c], f) /\ \A d \in Channels : d # c => norm'[d] = norm[d]
    BY <1>1, <1>5, <2>2
  <2> QED BY <1>1, <1>5, <2>1, <2>3
<1> QED BY <1>3, <1>4, <1>5 DEF Send

\* The sequence that fan_out copies along names every branch once.
LEMMA HeadsOfBranches ==
  ASSUME NEW f \in BlockFrame, NEW cp,
         cp = [k \in DOMAIN SetToSeq(Branches) |-> [frame |-> f, to |-> SetToSeq(Branches)[k]]]
  PROVE  /\ cp \in Seq([frame : BlockFrame, to : Branches]) /\ Len(cp) \in Nat
         /\ \A k \in 1 .. Len(cp) : cp[k].frame = f /\ cp[k].to \in Branches
         /\ \A j, k \in 1 .. Len(cp) : cp[j].to = cp[k].to => j = k
<1> DEFINE n == Cardinality(Branches)
<1>1. IsFiniteSet(Branches) /\ n \in Nat BY BranchCount
<1>2. ExistsBijection(1 .. n, Branches) BY <1>1, FS_CardinalityType
<1>3. \E g \in [1 .. n -> Branches] : IsInjective(g)
  BY <1>2 DEF ExistsBijection, Bijection, Injection, Surjection, IsInjective
<1>4. PICK h : h = SetToSeq(Branches) OBVIOUS
<1>5. h \in [1 .. n -> Branches] /\ IsInjective(h) BY <1>3, <1>4 DEF SetToSeq
<1>6. cp = [k \in 1 .. n |-> [frame |-> f, to |-> h[k]]] BY <1>4, <1>5
<1>7. cp \in Seq([frame : BlockFrame, to : Branches]) /\ Len(cp) = n
  <2>1. PICK R : R = [frame : BlockFrame, to : Branches] OBVIOUS
  <2>2. \A k \in 1 .. n : [frame |-> f, to |-> h[k]] \in R BY <1>5, <2>1
  <2>3. cp \in [1 .. n -> R] BY <1>6, <2>2
  <2> HIDE DEF n
  <2>4. cp \in Seq(R) /\ Len(cp) = n BY <1>1, <2>3
  <2> QED BY <2>1, <2>4
<1>8. \A k \in 1 .. n : cp[k].frame = f /\ cp[k].to = h[k] /\ h[k] \in Branches BY <1>5, <1>6
<1>9. \A j, k \in 1 .. n : h[j] = h[k] => j = k BY <1>5 DEF IsInjective
<1> QED BY <1>1, <1>7, <1>8, <1>9

\* What a branch keeps of its normal queue at a barge-in.
LEMMA KeptFacts ==
  ASSUME NEW S, NEW q \in Seq(S)
  PROVE  \/ KeptEnd(q) = <<>>
         \/ \E i \in 1 .. Len(q) : q[i] \in S /\ q[i].kind = "End" /\ KeptEnd(q) = <<q[i]>>
<1>1. PICK ends : ends = {k \in DOMAIN q : q[k].kind = "End"} OBVIOUS
<1>2. DOMAIN q = 1 .. Len(q) /\ Len(q) \in Nat /\ \A k \in 1 .. Len(q) : q[k] \in S BY LenProperties, ElementOfSeq
<1>3. KeptEnd(q) = IF ends = {} THEN <<>> ELSE <<q[Min(ends)]>> BY <1>1 DEF KeptEnd
<1>4. CASE ends # {}
  <2>1. ends \in SUBSET Nat BY <1>1, <1>2
  <2>2. Min(ends) \in ends BY <2>1, <1>4, MinNat
  <2>3. PICK i : i = Min(ends) OBVIOUS
  <2>4. i \in 1 .. Len(q) /\ q[i].kind = "End" BY <1>1, <1>2, <2>2, <2>3
  <2>5. KeptEnd(q) = <<q[i]>> BY <1>3, <1>4, <2>3
  <2> QED BY <2>4, <2>5, <1>2
<1> QED BY <1>3, <1>4

\* A pair, as a concatenation.
LEMMA PairConcat == ASSUME NEW h, NEW e PROVE <<h>> \o <<e>> = <<h, e>>
<1>1. PICK x : x = <<h>> OBVIOUS
<1>2. PICK y : y = <<e>> OBVIOUS
<1>3. x \in Seq({h, e}) /\ y \in Seq({h, e}) /\ Len(x) = 1 /\ Len(y) = 1 /\ x[1] = h /\ y[1] = e BY <1>1, <1>2
<1>4. /\ x \o y \in Seq({h, e}) /\ Len(x \o y) = 2 
      /\ \A i \in 1 .. 2 : (x \o y)[i] = IF i <= Len(x) THEN x[i] ELSE y[i - Len(x)]
  BY <1>3, ConcatProperties, SMTT(40)
<1>5. (x \o y)[1] = h /\ (x \o y)[2] = e BY <1>3, <1>4
<1>6. PICK z : z = x \o y OBVIOUS
<1>7. z \in Seq({h, e}) /\ Len(z) = 2 /\ z[1] = h /\ z[2] = e BY <1>4, <1>5, <1>6
<1>8. z = <<h, e>> BY <1>7
<1> QED BY <1>1, <1>2, <1>6, <1>8

\* What a branch has to push after a barge-in: the interruption, and perhaps the End.
LEMMA BargeInPushes ==
  ASSUME BlockTypes, NEW b \in Branches, BranchBargeIn(b)
  PROVE  /\ sys' \in [Channels -> Seq(SysFrame)] /\ norm' \in [Channels -> Seq(NormFrame)]
         /\ \A d \in Channels : d # b => sys'[d] = sys[d] /\ norm'[d] = norm[d]
         /\ sys[b] # <<>> /\ sys'[b] = Tail(sys[b]) /\ norm'[b] = <<>> /\ pushes[b] = <<>>
         /\ Head(sys[b]).kind = "Interruption"
         /\ pushes' \in [Branches -> Seq(BlockFrame)] /\ \A a \in Branches : a # b => pushes'[a] = pushes[a]
         /\ \/ pushes'[b] = <<Head(sys[b])>>
            \/ \E i \in 1 .. Len(norm[b]) : norm[b][i].kind = "End" /\ pushes'[b] = <<Head(sys[b]), norm[b][i]>>
<1>1. /\ sys \in [Channels -> Seq(SysFrame)] /\ norm \in [Channels -> Seq(NormFrame)]
      /\ pushes \in [Branches -> Seq(BlockFrame)] /\ b \in Channels
  BY ChannelsOfBlock DEF BlockTypes
<1>2. sys[b] \in Seq(SysFrame) /\ norm[b] \in Seq(NormFrame) BY <1>1
<1>3. sys[b] # <<>>
  <2> SUFFICES ASSUME sys[b] = <<>> PROVE FALSE OBVIOUS
  <2>1. norm[b] # <<>> /\ Received(b) = Head(norm[b]) BY DEF BranchBargeIn, Idle, Waiting, Received
  <2>2. Head(norm[b]) \in NormFrame BY <1>2, <2>1, HeadTailProperties
  <2>3. Head(norm[b]).kind \notin SystemKinds BY <2>2 DEF NormFrame
  <2>4. Head(norm[b]).kind = "Interruption" BY <2>1 DEF BranchBargeIn
  <2> QED BY <2>3, <2>4 DEF SystemKinds
<1>4. Received(b) = Head(sys[b]) /\ Head(sys[b]) \in SysFrame /\ Tail(sys[b]) \in Seq(SysFrame)
  BY <1>2, <1>3, HeadTailProperties DEF Received
<1>5. /\ sys' = [sys EXCEPT ![b] = Tail(@)] /\ norm' = [norm EXCEPT ![b] = <<>>] /\ pushes[b] = <<>>
      /\ Head(sys[b]).kind = "Interruption"
      /\ pushes' = [pushes EXCEPT ![b] = <<Head(sys[b])>> \o KeptEnd(norm[b])]
  BY <1>4 DEF BranchBargeIn, Idle, Then
<1>6. PICK h : h = Head(sys[b]) OBVIOUS
<1>7. h \in BlockFrame /\ Head(sys[b]) \in BlockFrame BY <1>4, <1>6 DEF SysFrame
<1>8. PICK p : p = <<Head(sys[b])>> \o KeptEnd(norm[b]) OBVIOUS
<1>9. /\ p \in Seq(BlockFrame)
      /\ \/ p = <<h>>
         \/ \E i \in 1 .. Len(norm[b]) : norm[b][i].kind = "End" /\ p = <<h, norm[b][i]>>
  <2>1. CASE KeptEnd(norm[b]) = <<>>
    <3>1. p = <<h>> BY <1>6, <1>8, <2>1
    <3> QED BY <3>1, <1>7
  <2>2. ASSUME NEW i \in 1 .. Len(norm[b]), norm[b][i] \in NormFrame, norm[b][i].kind = "End", KeptEnd(norm[b]) = <<norm[b][i]>>
        PROVE  p \in Seq(BlockFrame) /\ norm[b][i].kind = "End" /\ p = <<h, norm[b][i]>>
    <3>1. p = <<h>> \o <<norm[b][i]>> BY <1>6, <1>8, <2>2
    <3>2. p = <<h, norm[b][i]>>
      <4>1. PICK e : e = norm[b][i] OBVIOUS
      <4>2. <<h>> \o <<e>> = <<h, e>> BY PairConcat
      <4> QED BY <3>1, <4>1, <4>2
    <3>3. norm[b][i] \in BlockFrame BY <2>2 DEF NormFrame
    <3> QED BY <3>2, <3>3, <2>2, <1>7
  <2> QED BY <2>1, <2>2, <1>2, KeptFacts
<1>10. /\ sys' \in [Channels -> Seq(SysFrame)] /\ sys'[b] = Tail(sys[b])
       /\ \A d \in Channels : d # b => sys'[d] = sys[d]
  BY <1>1, <1>4, <1>5
<1>11. /\ norm' \in [Channels -> Seq(NormFrame)] /\ norm'[b] = <<>>
       /\ \A d \in Channels : d # b => norm'[d] = norm[d]
  BY <1>1, <1>5
<1>12. /\ pushes' \in [Branches -> Seq(BlockFrame)] /\ pushes'[b] = p
       /\ \A a \in Branches : a # b => pushes'[a] = pushes[a]
  BY <1>1, <1>5, <1>8, <1>9
<1> QED BY <1>3, <1>5, <1>6, <1>9, <1>10, <1>11, <1>12

\* A branch pushes to fan_in; one that has returned takes its channels with it.
LEMMA PushFacts ==
  ASSUME BlockTypes, NEW b \in Branches, BranchPush(b), NEW f, f = Head(pushes[b])
  PROVE  /\ f \in BlockFrame /\ pushes[b] # <<>>
         /\ pushes' \in [Branches -> Seq(BlockFrame)] /\ pushes'[b] = Tail(pushes[b])
         /\ \A a \in Branches : a # b => pushes'[a] = pushes[a]
         /\ live' = (IF Terminal(f.kind) THEN live \ {b} ELSE live) /\ live' \subseteq Channels /\ "fanin" \in live'
         /\ sys' \in [Channels -> Seq(SysFrame)] /\ norm' \in [Channels -> Seq(NormFrame)]
         /\ \A d \in Channels : d # "fanin" =>
              \/ sys'[d] = sys[d] /\ norm'[d] = norm[d]
              \/ sys'[d] = <<>> /\ norm'[d] = <<>>
         /\ \/ f \in SysFrame /\ sys'["fanin"] = Append(sys["fanin"], f) /\ norm'["fanin"] = norm["fanin"]
            \/ f \in NormFrame /\ norm'["fanin"] = Append(norm["fanin"], f) /\ sys'["fanin"] = sys["fanin"]
<1>1. /\ sys \in [Channels -> Seq(SysFrame)] /\ norm \in [Channels -> Seq(NormFrame)]
      /\ pushes \in [Branches -> Seq(BlockFrame)] /\ live \subseteq Channels /\ "fanin" \in live
      /\ "fanin" \in Channels /\ b # "fanin"
  BY ChannelsOfBlock DEF BlockTypes
<1>2. /\ pushes[b] # <<>> /\ pushes' = [pushes EXCEPT ![b] = Tail(pushes[b])]
      /\ live' = (IF Terminal(f.kind) THEN live \ {b} ELSE live)
      /\ sys' = [c \in Channels |->
            IF c = "fanin" /\ f.kind \in SystemKinds THEN Append(sys[c], f)
            ELSE IF c \in live' THEN sys[c] ELSE <<>>]
      /\ norm' = [c \in Channels |->
            IF c = "fanin" /\ f.kind \notin SystemKinds THEN Append(norm[c], f)
            ELSE IF c \in live' THEN norm[c] ELSE <<>>]
  BY DEF BranchPush, Then
<1>3. f \in BlockFrame /\ Tail(pushes[b]) \in Seq(BlockFrame) BY <1>1, <1>2, HeadTailProperties
<1>4. live' \subseteq Channels /\ "fanin" \in live' BY <1>1, <1>2
<1>7. /\ pushes' \in [Branches -> Seq(BlockFrame)] /\ pushes'[b] = Tail(pushes[b])
      /\ \A a \in Branches : a # b => pushes'[a] = pushes[a]
  <2>1. PICK t : t = Tail(pushes[b]) OBVIOUS
  <2>2. PICK Q : Q = Seq(BlockFrame) OBVIOUS
  <2>3. pushes \in [Branches -> Q] /\ t \in Q /\ pushes' = [pushes EXCEPT ![b] = t] BY <1>1, <1>2, <1>3, <2>1, <2>2
  <2>4. pushes' \in [Branches -> Q] /\ pushes'[b] = t /\ \A a \in Branches : a # b => pushes'[a] = pushes[a]
    BY <2>3
  <2> QED BY <2>1, <2>2, <2>4
<1>5. CASE f.kind \in SystemKinds
  <2>1. f \in SysFrame BY <1>3, <1>5 DEF SysFrame
  <2>2. Append(sys["fanin"], f) \in Seq(SysFrame) BY <1>1, <2>1, AppendProperties
  <2>3. sys'["fanin"] = Append(sys["fanin"], f) /\ norm'["fanin"] = norm["fanin"] BY <1>1, <1>2, <1>4, <1>5
  <2>4. \A d \in Channels : d # "fanin" =>
          sys'[d] = (IF d \in live' THEN sys[d] ELSE <<>>) /\ norm'[d] = (IF d \in live' THEN norm[d] ELSE <<>>)
    BY <1>2
  <2>5. DOMAIN sys' = Channels /\ DOMAIN norm' = Channels BY <1>2
  <2>6. ASSUME NEW d \in Channels PROVE sys'[d] \in Seq(SysFrame)
    <3>1. sys[d] \in Seq(SysFrame) /\ <<>> \in Seq(SysFrame) BY <1>1, RangeNone
    <3> QED BY <3>1, <2>2, <2>3, <2>4
  <2>7. ASSUME NEW d \in Channels PROVE norm'[d] \in Seq(NormFrame)
    <3>1. norm[d] \in Seq(NormFrame) /\ <<>> \in Seq(NormFrame) BY <1>1, RangeNone
    <3> QED BY <3>1, <2>3, <2>4
  <2>8. sys' \in [Channels -> Seq(SysFrame)] /\ norm' \in [Channels -> Seq(NormFrame)]
    BY <1>2, <2>6, <2>7
  <2> QED BY <1>2, <1>3, <1>4, <1>7, <2>1, <2>3, <2>4, <2>8
<1>6. CASE f.kind \notin SystemKinds
  <2>1. f \in NormFrame BY <1>3, <1>6 DEF NormFrame
  <2>2. Append(norm["fanin"], f) \in Seq(NormFrame) BY <1>1, <2>1, AppendProperties
  <2>3. norm'["fanin"] = Append(norm["fanin"], f) /\ sys'["fanin"] = sys["fanin"] BY <1>1, <1>2, <1>4, <1>6
  <2>4. \A d \in Channels : d # "fanin" =>
          sys'[d] = (IF d \in live' THEN sys[d] ELSE <<>>) /\ norm'[d] = (IF d \in live' THEN norm[d] ELSE <<>>)
    BY <1>2
  <2>6. ASSUME NEW d \in Channels PROVE norm'[d] \in Seq(NormFrame)
    <3>1. norm[d] \in Seq(NormFrame) /\ <<>> \in Seq(NormFrame) BY <1>1, RangeNone
    <3> QED BY <3>1, <2>2, <2>3, <2>4
  <2>7. ASSUME NEW d \in Channels PROVE sys'[d] \in Seq(SysFrame)
    <3>1. sys[d] \in Seq(SysFrame) /\ <<>> \in Seq(SysFrame) BY <1>1, RangeNone
    <3> QED BY <3>1, <2>3, <2>4
  <2>8. sys' \in [Channels -> Seq(SysFrame)] /\ norm' \in [Channels -> Seq(NormFrame)]
    BY <1>2, <2>6, <2>7
  <2> QED BY <1>2, <1>3, <1>4, <1>7, <2>1, <2>3, <2>4, <2>8
<1> QED BY <1>5, <1>6

\* A lifecycle frame that fan_in takes is counted, completes the count, or is held back.
LEMMA SyncFacts ==
  ASSUME BlockTypes, FanInSync, NEW f, f = Received("fanin")
  PROVE  /\ f \in BlockFrame /\ IsLifecycle(f) /\ flushing = <<>> /\ Waiting("fanin") /\ Receive("fanin")
         /\ UNCHANGED <<ids, copying, live, pushes, seenIds, out>>
         /\ \/ /\ pending.kind \in {"none", f.kind} /\ pending.count + 1 < Cardinality(Branches)
               /\ pending' = [kind |-> f.kind, count |-> pending.count + 1]
               /\ flushing' = <<>> /\ buffer' = buffer
            \/ /\ pending.kind \in {"none", f.kind} /\ pending.count + 1 >= Cardinality(Branches)
               /\ pending' = NoLifecycle /\ flushing' = <<f>> \o buffer /\ buffer' = <<>>
            \/ /\ pending.kind \notin {"none", f.kind} /\ pending' = pending
               /\ flushing' = <<>> /\ buffer' = Append(buffer, f)
<1>1. /\ f.kind \in Lifecycle /\ flushing = <<>> /\ Waiting("fanin") /\ Receive("fanin")
      /\ UNCHANGED <<ids, copying, live, pushes, seenIds, out>>
  BY DEF FanInSync, FanInReady
<1>2. f \in BlockFrame BY <1>1, BlockReceive, ChannelsOfBlock
<1>3. pending.kind = "none" => pending.count = 0 BY DEF BlockTypes
<1>4. f.kind # "none" BY <1>1 DEF Lifecycle
<1>5. PICK same : same = (pending.kind = f.kind) OBVIOUS
<1>6. PICK count : count = IF pending.kind = f.kind THEN pending.count + 1 ELSE 1 OBVIOUS
<1>7. \/ /\ pending.kind = f.kind \/ pending.kind = "none"
         /\ pending' = (IF count >= Cardinality(Branches) THEN NoLifecycle ELSE [kind |-> f.kind, count |-> count])
         /\ flushing' = (IF count >= Cardinality(Branches) THEN <<f>> \o buffer ELSE <<>>)
         /\ buffer' = (IF count >= Cardinality(Branches) THEN <<>> ELSE buffer)
      \/ /\ pending.kind # f.kind /\ pending.kind # "none"
         /\ buffer' = Append(buffer, f) /\ pending' = pending /\ flushing' = flushing
  BY <1>6 DEF FanInSync
<1>8. Cardinality(Branches) \in Nat /\ pending.count \in Nat BY BranchCount DEF BlockTypes
<1>9. ASSUME pending.kind = f.kind \/ pending.kind = "none" PROVE count = pending.count + 1
  BY <1>9, <1>3, <1>6, <1>4, <1>8
<1>10. CASE pending.kind # f.kind /\ pending.kind # "none" BY <1>1, <1>2, <1>7, <1>10 DEF IsLifecycle
<1>11. CASE (pending.kind = f.kind \/ pending.kind = "none") /\ count >= Cardinality(Branches)
  BY <1>1, <1>2, <1>7, <1>9, <1>11 DEF IsLifecycle
<1>12. CASE (pending.kind = f.kind \/ pending.kind = "none") /\ ~ (count >= Cardinality(Branches))
  <2>1. pending.count + 1 < Cardinality(Branches) BY <1>8, <1>9, <1>12
  <2> QED BY <1>1, <1>2, <1>7, <1>9, <1>12, <2>1 DEF IsLifecycle
<1> QED BY <1>10, <1>11, <1>12

\* Every step keeps the types.
LEMMA BlockTypesStep ==
  ASSUME BlockTypes, [ParallelNext]_parallelVars
  PROVE  BlockTypes'
<1> DEFINE Entry == [frame : BlockFrame, to : Branches]
<1>0. /\ sys \in [Channels -> Seq(SysFrame)] /\ norm \in [Channels -> Seq(NormFrame)]
      /\ ids \in 1 .. MaxIds /\ copying \in Seq(Entry) /\ live \subseteq Channels /\ "fanin" \in live
      /\ pushes \in [Branches -> Seq(BlockFrame)] /\ flushing \in Seq(BlockFrame)
      /\ pending \in [kind : Lifecycle \cup {"none"}, count : Nat] /\ (pending.kind = "none" => pending.count = 0)
      /\ FanInTypeOK
  BY DEF BlockTypes
<1> DEFINE SendTypes == /\ sys \in [Channels -> Seq(SysFrame)] /\ norm \in [Channels -> Seq(NormFrame)]
                        /\ ids \in 1 .. MaxIds /\ copying \in Seq(Entry) /\ live \subseteq Channels /\ "fanin" \in live
                        /\ pushes \in [Branches -> Seq(BlockFrame)]
<1>1. ASSUME UNCHANGED fanInVars, SendTypes' PROVE BlockTypes'
  BY <1>0, <1>1 DEF BlockTypes, fanInVars, FanInTypeOK
<1>2. MaxIds \in Nat /\ Entering \subseteq {"Interruption", "End", "Cancel", "Text"} BY ParallelAssumption
<1>3. ASSUME NEW n \in 1 .. MaxIds, NEW kind \in {"Interruption", "End", "Cancel", "Text", "Start"}
      PROVE  [kind |-> kind, id |-> n] \in BlockFrame
  BY DEF BlockFrame, Lifecycle
<1>4. ASSUME ids < MaxIds, ids' = ids + 1 PROVE ids' \in 1 .. MaxIds BY <1>0, <1>2, <1>4
<1>5. ASSUME NEW kind \in Entering, Enter(kind) PROVE BlockTypes'
  <2>1. ids' \in 1 .. MaxIds /\ Send("head", [kind |-> kind, id |-> ids']) /\ UNCHANGED <<copying, live, pushes, fanInVars>>
    BY <1>4, <1>5 DEF Enter
  <2>2. PICK f : f = [kind |-> kind, id |-> ids'] OBVIOUS
  <2>3. f \in BlockFrame /\ Send("head", f) BY <2>1, <2>2, <1>2, <1>3
  <2>4. sys' \in [Channels -> Seq(SysFrame)] /\ norm' \in [Channels -> Seq(NormFrame)]
    BY <2>3, BlockSend, ChannelsOfBlock
  <2> QED BY <1>0, <1>1, <2>1, <2>4
<1>6. CASE FanOutRecv
  <2>1. Waiting("head") /\ Receive("head") /\ UNCHANGED <<ids, live, pushes, fanInVars>> BY <1>6 DEF FanOutRecv
  <2>2. /\ sys' \in [Channels -> Seq(SysFrame)] /\ norm' \in [Channels -> Seq(NormFrame)]
        /\ Received("head") \in BlockFrame
    BY <2>1, BlockReceive, ChannelsOfBlock
  <2>3. copying' \in Seq(Entry) BY <1>6, <2>2, HeadsOfBranches DEF FanOutRecv
  <2> QED BY <1>0, <1>1, <2>1, <2>2, <2>3
<1>7. CASE FanOutSend
  <2>1. /\ copying # <<>> /\ Send(Head(copying).to, Head(copying).frame) /\ copying' = Tail(copying)
        /\ live' = (IF Len(copying) = 1 /\ Terminal(Head(copying).frame.kind) THEN live \ {"head"} ELSE live)
        /\ UNCHANGED <<ids, pushes, fanInVars>>
    BY <1>7 DEF FanOutSend
  <2>2. Head(copying) \in Entry /\ copying' \in Seq(Entry) BY <1>0, <2>1, HeadTailProperties
  <2>3. Head(copying).to \in Channels /\ Head(copying).frame \in BlockFrame BY <2>2, ChannelsOfBlock
  <2>4. sys' \in [Channels -> Seq(SysFrame)] /\ norm' \in [Channels -> Seq(NormFrame)] BY <2>1, <2>3, BlockSend
  <2>5. live' \subseteq Channels /\ "fanin" \in live' BY <1>0, <2>1
  <2> QED BY <1>0, <1>1, <2>1, <2>2, <2>4, <2>5
<1>8. ASSUME NEW b \in Branches, BranchBargeIn(b) PROVE BlockTypes'
  <2>1. UNCHANGED <<ids, copying, live, fanInVars>> BY <1>8 DEF BranchBargeIn
  <2>2. /\ sys' \in [Channels -> Seq(SysFrame)] /\ norm' \in [Channels -> Seq(NormFrame)]
        /\ pushes' \in [Branches -> Seq(BlockFrame)]
    BY <1>8, BargeInPushes
  <2> QED BY <1>0, <1>1, <2>1, <2>2
<1>9. ASSUME NEW b \in Branches, BranchLifecycle(b) PROVE BlockTypes'
  <2>1. Waiting(b) /\ Receive(b) /\ pushes' = [pushes EXCEPT ![b] = <<Received(b)>>] /\ UNCHANGED <<ids, copying, live, fanInVars>>
    BY <1>9 DEF BranchLifecycle, Idle, Then
  <2>2. /\ sys' \in [Channels -> Seq(SysFrame)] /\ norm' \in [Channels -> Seq(NormFrame)]
        /\ Received(b) \in BlockFrame
    BY <2>1, BlockReceive, ChannelsOfBlock
  <2>3. pushes' \in [Branches -> Seq(BlockFrame)] BY <1>0, <2>1, <2>2, RangeOne
  <2> QED BY <1>0, <1>1, <2>1, <2>2, <2>3
<1>10. ASSUME NEW b \in Branches, BranchProcess(b) PROVE BlockTypes'
  <2>1. Waiting(b) /\ Receive(b) /\ UNCHANGED <<copying, live, fanInVars>>
    BY <1>10 DEF BranchProcess, Idle
  <2>2. /\ sys' \in [Channels -> Seq(SysFrame)] /\ norm' \in [Channels -> Seq(NormFrame)]
        /\ Received(b) \in BlockFrame
    BY <2>1, BlockReceive, ChannelsOfBlock
  <2>3. ids' \in 1 .. MaxIds /\ pushes' \in [Branches -> Seq(BlockFrame)]
    <3>1. ASSUME NEW p \in Seq(BlockFrame), Then(b, p) PROVE pushes' \in [Branches -> Seq(BlockFrame)]
      BY <1>0, <3>1 DEF Then
    <3>2. CASE Then(b, <<Received(b)>>) /\ UNCHANGED ids BY <1>0, <2>2, <3>1, <3>2, RangeOne
    <3>3. CASE Then(b, <<>>) /\ UNCHANGED ids BY <1>0, <3>1, <3>3, RangeNone
    <3>4. CASE ids < MaxIds /\ ids' = ids + 1 /\ Then(b, <<[kind |-> "Text", id |-> ids']>>)
      <4>1. ids' \in 1 .. MaxIds BY <1>4, <3>4
      <4>2. PICK f : f = [kind |-> "Text", id |-> ids'] OBVIOUS
      <4>3. f \in BlockFrame BY <4>1, <4>2, <1>3
      <4>4. <<f>> \in Seq(BlockFrame) /\ Then(b, <<f>>) BY <4>2, <4>3, <3>4, RangeOne
      <4> QED BY <4>1, <4>4, <3>1
    <3> QED BY <1>10, <3>2, <3>3, <3>4 DEF BranchProcess
  <2> QED BY <1>0, <1>1, <2>1, <2>2, <2>3
<1>11. ASSUME NEW b \in Branches, BranchPush(b) PROVE BlockTypes'
  <2>1. UNCHANGED <<ids, copying, fanInVars>> BY <1>11 DEF BranchPush
  <2>2. /\ sys' \in [Channels -> Seq(SysFrame)] /\ norm' \in [Channels -> Seq(NormFrame)]
        /\ pushes' \in [Branches -> Seq(BlockFrame)] /\ live' \subseteq Channels /\ "fanin" \in live'
    BY <1>11, PushFacts
  <2> QED BY <1>0, <1>1, <2>1, <2>2
<1> DEFINE FanTypes == /\ pending \in [kind : Lifecycle \cup {"none"}, count : Nat] /\ (pending.kind = "none" => pending.count = 0)
                       /\ flushing \in Seq(BlockFrame) /\ FanInTypeOK
<1>12. ASSUME UNCHANGED <<ids, copying, live, pushes>>, sys' \in [Channels -> Seq(SysFrame)], norm' \in [Channels -> Seq(NormFrame)],
              FanTypes'
       PROVE  BlockTypes'
  BY <1>0, <1>12 DEF BlockTypes
<1>13. CASE FanInSync
  <2>1. PICK f : f = Received("fanin") OBVIOUS
  <2>2. /\ f \in BlockFrame /\ IsLifecycle(f) /\ Waiting("fanin") /\ Receive("fanin")
        /\ UNCHANGED <<ids, copying, live, pushes, seenIds, out>>
    BY <1>13, <2>1, SyncFacts
  <2>3. sys' \in [Channels -> Seq(SysFrame)] /\ norm' \in [Channels -> Seq(NormFrame)]
    BY <2>2, BlockReceive, ChannelsOfBlock
  <2>4. /\ out \in Seq(BlockFrame) /\ buffer \in Seq(BlockFrame) /\ seenIds \subseteq 1 .. MaxIds
        /\ pending = NoLifecycle \/ pending.count \in 1 .. (Cardinality(Branches) - 1)
        /\ pending = NoLifecycle => buffer = <<>>
    BY <1>0 DEF FanInTypeOK
  <2>5. f.kind \in Lifecycle /\ f.kind # "none" BY <2>2 DEF IsLifecycle, Lifecycle
  <2>6. Cardinality(Branches) \in Nat /\ pending.count \in Nat BY BranchCount, <1>0
  <2>7. CASE /\ pending.count + 1 < Cardinality(Branches)
             /\ pending' = [kind |-> f.kind, count |-> pending.count + 1]
             /\ flushing' = <<>> /\ buffer' = buffer
    <3>1. pending'.kind = f.kind /\ pending'.count = pending.count + 1 BY <2>7
    <3>2. pending' # NoLifecycle BY <3>1, <2>5 DEF NoLifecycle
    <3>3. pending'.count \in 1 .. (Cardinality(Branches) - 1) BY <3>1, <2>6, <2>7
    <3>4. pending' \in [kind : Lifecycle \cup {"none"}, count : Nat] BY <2>7, <2>5, <2>6
    <3>5. flushing' \in Seq(BlockFrame) BY <2>7
    <3> QED BY <1>12, <2>2, <2>3, <2>4, <2>5, <2>7, <3>1, <3>2, <3>3, <3>4, <3>5 DEF FanInTypeOK
  <2>8. CASE pending' = NoLifecycle /\ flushing' = <<f>> \o buffer /\ buffer' = <<>>
    <3>1. pending' \in [kind : Lifecycle \cup {"none"}, count : Nat] /\ pending'.count = 0 BY <2>8 DEF NoLifecycle
    <3>2. flushing' \in Seq(BlockFrame) BY <2>2, <2>4, <2>8, RangePrefix
    <3> QED BY <1>12, <2>2, <2>3, <2>4, <2>8, <3>1, <3>2 DEF FanInTypeOK
  <2>9. CASE pending.kind \notin {"none", f.kind} /\ pending' = pending /\ flushing' = <<>> /\ buffer' = Append(buffer, f)
    <3>1. pending # NoLifecycle BY <2>9 DEF NoLifecycle
    <3>2. buffer' \in Seq(BlockFrame) BY <2>2, <2>4, <2>9, AppendProperties
    <3>3. flushing' \in Seq(BlockFrame) BY <2>9
    <3> QED BY <1>0, <1>12, <2>2, <2>3, <2>4, <2>9, <3>1, <3>2, <3>3 DEF FanInTypeOK
  <2> QED BY <1>13, <2>1, <2>7, <2>8, <2>9, SyncFacts
<1>14. CASE FanInOutput
  <2>1. PICK f : f = Received("fanin") OBVIOUS
  <2>2. PICK first : first = (f.id \notin seenIds) OBVIOUS
  <2>3. /\ Waiting("fanin") /\ Receive("fanin") /\ UNCHANGED <<ids, copying, live, pushes, pending, out>>
        /\ seenIds' = seenIds \cup {f.id}
        /\ buffer' = (IF first /\ pending # NoLifecycle THEN Append(buffer, f) ELSE buffer)
        /\ flushing' = (IF first /\ pending = NoLifecycle THEN <<f>> ELSE <<>>)
    BY <1>14, <2>1, <2>2 DEF FanInOutput, FanInReady
  <2>4. /\ sys' \in [Channels -> Seq(SysFrame)] /\ norm' \in [Channels -> Seq(NormFrame)] /\ f \in BlockFrame
    BY <2>1, <2>3, BlockReceive, ChannelsOfBlock
  <2>5. /\ out \in Seq(BlockFrame) /\ buffer \in Seq(BlockFrame) /\ seenIds \subseteq 1 .. MaxIds
        /\ pending = NoLifecycle \/ pending.count \in 1 .. (Cardinality(Branches) - 1)
        /\ pending = NoLifecycle => buffer = <<>>
    BY <1>0 DEF FanInTypeOK
  <2>6. f.id \in 1 .. MaxIds BY <2>4 DEF BlockFrame
  <2>7. flushing' \in Seq(BlockFrame) BY <2>3, <2>4, RangeOne, RangeNone
  <2>8. buffer' \in Seq(BlockFrame) BY <2>3, <2>4, <2>5, AppendProperties
  <2>9. pending' = NoLifecycle => buffer' = <<>> BY <2>3, <2>5
  <2> QED BY <1>0, <1>12, <2>3, <2>4, <2>5, <2>6, <2>7, <2>8, <2>9 DEF FanInTypeOK
<1>15. CASE FanInSend
  <2>1. /\ flushing # <<>> /\ out' = Append(out, Head(flushing)) /\ flushing' = Tail(flushing)
        /\ UNCHANGED <<chans, ids, copying, live, pushes, seenIds, pending, buffer>>
    BY <1>15 DEF FanInSend
  <2>2. Head(flushing) \in BlockFrame /\ Tail(flushing) \in Seq(BlockFrame) BY <1>0, <2>1, HeadTailProperties
  <2>3. out' \in Seq(BlockFrame) BY <1>0, <2>1, <2>2, AppendProperties DEF FanInTypeOK
  <2> QED BY <1>0, <1>12, <2>1, <2>2, <2>3 DEF FanInTypeOK, chans
<1>16. CASE UNCHANGED parallelVars
  BY <1>0, <1>16 DEF parallelVars, chans, fanInVars, BlockTypes, FanInTypeOK
<1> QED BY <1>5, <1>6, <1>7, <1>8, <1>9, <1>10, <1>11, <1>13, <1>14, <1>15, <1>16 DEF ParallelNext

\* A sequence without a frame twice, after one more, one less, and one in front.
LEMMA DistinctAppend ==
  ASSUME NEW S, NEW q \in Seq(S), NEW f \in S, Distinct(q), f \notin Range(q)
  PROVE  Distinct(Append(q, f))
<1>1. /\ Len(q) \in Nat /\ Len(Append(q, f)) = Len(q) + 1
      /\ \A k \in 1 .. Len(Append(q, f)) :
           \/ k \in 1 .. Len(q) /\ Append(q, f)[k] = q[k]
           \/ k = Len(q) + 1 /\ Append(q, f)[k] = f
  BY AppendAt
<1>2. \A k \in 1 .. Len(q) : q[k] # f BY RangeEquality
<1> QED BY <1>1, <1>2 DEF Distinct

LEMMA DistinctTail ==
  ASSUME NEW S, NEW q \in Seq(S), q # <<>>, Distinct(q)
  PROVE  Distinct(Tail(q)) /\ Head(q) \notin Range(Tail(q))
<1>1. /\ Tail(q) \in Seq(S) /\ Len(q) \in Nat /\ Len(Tail(q)) = Len(q) - 1
      /\ Head(q) = q[1] /\ 1 \in 1 .. Len(q)
      /\ \A k \in 1 .. Len(Tail(q)) : k + 1 \in 1 .. Len(q) /\ Tail(q)[k] = q[k + 1]
  BY TailAt
<1>2. \A k \in 1 .. Len(Tail(q)) : Tail(q)[k] # Head(q)
  <2> TAKE k \in 1 .. Len(Tail(q))
  <2>1. k + 1 # 1 /\ k + 1 \in 1 .. Len(q) /\ Tail(q)[k] = q[k + 1] BY <1>1
  <2>2. q[k + 1] # q[1] BY <2>1, <1>1 DEF Distinct
  <2> QED BY <1>1, <2>1, <2>2
<1>3. Head(q) \notin Range(Tail(q))
  <2>1. PICK t : t = Tail(q) OBVIOUS
  <2>2. t \in Seq(S) BY <1>1, <2>1
  <2>3. Range(t) = {t[i] : i \in 1 .. Len(t)} BY <2>2, RangeEquality
  <2> QED BY <1>2, <2>1, <2>3
<1>4. Distinct(Tail(q))
  <2> SUFFICES ASSUME NEW j \in 1 .. Len(Tail(q)), NEW k \in 1 .. Len(Tail(q)), Tail(q)[j] = Tail(q)[k] PROVE j = k
    BY DEF Distinct
  <2>1. j + 1 \in 1 .. Len(q) /\ k + 1 \in 1 .. Len(q) /\ q[j + 1] = q[k + 1] BY <1>1
  <2>2. j + 1 = k + 1 BY <2>1 DEF Distinct
  <2> QED BY <2>2
<1> QED BY <1>3, <1>4

LEMMA DistinctPrefix ==
  ASSUME NEW S, NEW q \in Seq(S), NEW f \in S, Distinct(q), f \notin Range(q)
  PROVE  Distinct(<<f>> \o q)
<1>1. PICK x : x = <<f>> OBVIOUS
<1>2. x \in Seq(S) /\ Len(x) = 1 /\ x[1] = f BY <1>1
<1>3. /\ x \o q \in Seq(S) /\ Len(x \o q) = Len(x) + Len(q)
      /\ \A i \in 1 .. Len(x) + Len(q) : (x \o q)[i] = IF i <= Len(x) THEN x[i] ELSE q[i - Len(x)]
  BY <1>2, ConcatProperties
<1>4. Len(q) \in Nat /\ \A k \in 1 .. Len(q) : q[k] # f BY RangeEquality, LenProperties
<1>5. PICK y : y = x \o q OBVIOUS
<1>6. Len(y) = 1 + Len(q) /\ y[1] = f BY <1>2, <1>3, <1>4, <1>5
<1>7. \A i \in 1 .. Len(y) : i # 1 => i - 1 \in 1 .. Len(q) /\ y[i] = q[i - 1] BY <1>3, <1>4, <1>5, <1>6
<1>8. ASSUME NEW j \in 1 .. Len(y), NEW k \in 1 .. Len(y), y[j] = y[k] PROVE j = k
  <2>1. CASE j = 1 BY <2>1, <1>4, <1>6, <1>7, <1>8
  <2>2. CASE k = 1 BY <2>2, <1>4, <1>6, <1>7, <1>8
  <2>3. CASE j # 1 /\ k # 1
    <3>1. q[j - 1] = q[k - 1] /\ j - 1 \in 1 .. Len(q) /\ k - 1 \in 1 .. Len(q) BY <2>3, <1>7, <1>8
    <3>2. j - 1 = k - 1 BY <3>1 DEF Distinct
    <3> QED BY <3>2, <2>3, <1>8
  <2> QED BY <2>1, <2>2, <2>3
<1> QED BY <1>1, <1>5, <1>8 DEF Distinct

\* fan_in lets nothing through twice.
LEMMA EmitSync ==
  ASSUME BlockTypes, EmitInv, FanInSync, NEW f, f = Received("fanin"),
         pending.kind \in {"none", f.kind}, f \notin Range(out)
  PROVE  EmitInv'
<1>1. /\ f \in BlockFrame /\ IsLifecycle(f) /\ flushing = <<>> /\ seenIds' = seenIds /\ out' = out
      /\ \/ flushing' = <<>> /\ buffer' = buffer
         \/ flushing' = <<f>> \o buffer /\ buffer' = <<>>
  BY SyncFacts
<1>2. buffer \in Seq(BlockFrame) /\ out \in Seq(BlockFrame) BY DEF BlockTypes, FanInTypeOK
<1>3. CASE flushing' = <<>> /\ buffer' = buffer BY <1>1, <1>3 DEF EmitInv, IsLifecycle
<1>4. CASE flushing' = <<f>> \o buffer /\ buffer' = <<>>
  <2>1. f \notin Range(buffer) BY <1>1 DEF EmitInv
  <2>2. Distinct(flushing') BY <1>1, <1>2, <1>4, <2>1, DistinctPrefix DEF EmitInv
  <2>3. Range(flushing') = {f} \cup Range(buffer) BY <1>1, <1>2, <1>4, RangePrefix
  <2>4. Range(buffer') = {} /\ Distinct(buffer') BY <1>4, RangeNone DEF Distinct
  <2>5. Distinct(out') /\ Range(out') = Range(out) BY <1>1 DEF EmitInv
  <2>6. /\ Range(out) \cap Range(buffer) = {}
        /\ \A g \in Range(out) : ~ IsLifecycle(g) => g.id \in seenIds
        /\ \A g \in Range(buffer) : ~ IsLifecycle(g) /\ g.id \in seenIds
    BY DEF EmitInv
  <2>7. Range(out') \cap Range(flushing') = {} /\ Range(out') \cap Range(buffer') = {} /\ Range(flushing') \cap Range(buffer') = {}
    BY <2>3, <2>4, <2>5, <2>6
  <2>8. \A g \in Range(out') \cup Range(flushing') : ~ IsLifecycle(g) => g.id \in seenIds'
    BY <1>1, <2>3, <2>5, <2>6
  <2> QED BY <2>2, <2>4, <2>5, <2>7, <2>8 DEF EmitInv, IsLifecycle
<1> QED BY <1>1, <1>3, <1>4

\* A frame that is no lifecycle frame goes out, or into the buffer, when it is first seen.
LEMMA EmitOutput ==
  ASSUME BlockTypes, EmitInv, FanInOutput
  PROVE  EmitInv' /\ \A g \in Range(out') \cup Range(flushing') : IsLifecycle(g) => g \in Range(out)
<1>1. PICK f : f = Received("fanin") OBVIOUS
<1>2. PICK first \in BOOLEAN : first = (f.id \notin seenIds) OBVIOUS
<1>3. /\ Waiting("fanin") /\ Receive("fanin") /\ flushing = <<>> /\ f.kind \in {"Interruption", "Text"}
      /\ pending' = pending /\ out' = out /\ seenIds' = seenIds \cup {f.id}
      /\ buffer' = (IF first /\ pending # NoLifecycle THEN Append(buffer, f) ELSE buffer)
      /\ flushing' = (IF first /\ pending = NoLifecycle THEN <<f>> ELSE <<>>)
  BY <1>1, <1>2 DEF FanInOutput, FanInReady
<1>4. f \in BlockFrame BY <1>1, <1>3, BlockReceive, ChannelsOfBlock
<1>5. ~ IsLifecycle(f) BY <1>3 DEF IsLifecycle, Lifecycle
<1>6. buffer \in Seq(BlockFrame) /\ out \in Seq(BlockFrame) /\ (pending = NoLifecycle => buffer = <<>>)
  BY DEF BlockTypes, FanInTypeOK
<1>7. Range(<<>>) = {} /\ Distinct(<<>>) /\ Range(<<f>>) = {f} /\ Distinct(<<f>>)
  BY <1>4, RangeNone, RangeOne DEF Distinct
<1>8. /\ Distinct(out) /\ Distinct(buffer) /\ Range(out) \cap Range(buffer) = {}
      /\ \A g \in Range(out) : ~ IsLifecycle(g) => g.id \in seenIds
      /\ \A g \in Range(buffer) : ~ IsLifecycle(g) /\ g.id \in seenIds
  BY DEF EmitInv
<1>9. first => f \notin Range(out) /\ f \notin Range(buffer) BY <1>2, <1>5, <1>8
<1>10. CASE first /\ pending # NoLifecycle
  <2>1. flushing' = <<>> /\ buffer' = Append(buffer, f) BY <1>3, <1>10
  <2>2. Distinct(buffer') BY <2>1, <1>4, <1>6, <1>8, <1>9, <1>10, DistinctAppend
  <2>3. Range(buffer') = Range(buffer) \cup {f} BY <2>1, <1>4, <1>6, RangeAppend
  <2>4. Range(flushing') = {} /\ Distinct(flushing') /\ Range(out') = Range(out) /\ Distinct(out') BY <1>3, <1>7, <1>8, <2>1
  <2>5. f \notin Range(out) BY <1>9, <1>10
  <2>6. Range(out') \cap Range(flushing') = {} /\ Range(out') \cap Range(buffer') = {} /\ Range(flushing') \cap Range(buffer') = {}
    BY <2>3, <2>4, <2>5, <1>8
  <2>7. \A g \in Range(out') \cup Range(flushing') : ~ IsLifecycle(g) => g.id \in seenIds' BY <1>3, <1>8, <2>4
  <2>8. \A g \in Range(buffer') : ~ IsLifecycle(g) /\ g.id \in seenIds' BY <1>3, <1>5, <1>8, <2>3
  <2> QED BY <2>2, <2>4, <2>6, <2>7, <2>8 DEF EmitInv, IsLifecycle
<1>11. CASE first /\ pending = NoLifecycle
  <2>1. flushing' = <<f>> /\ buffer' = buffer BY <1>3, <1>11
  <2>2. Range(flushing') = {f} /\ Distinct(flushing') /\ Range(out') = Range(out) /\ Distinct(out') /\ Range(buffer') = Range(buffer) /\ Distinct(buffer')
    BY <1>3, <1>7, <1>8, <2>1
  <2>3. f \notin Range(out) /\ f \notin Range(buffer) BY <1>9, <1>11
  <2>4. Range(out') \cap Range(flushing') = {} /\ Range(out') \cap Range(buffer') = {} /\ Range(flushing') \cap Range(buffer') = {}
    BY <2>2, <2>3, <1>8
  <2>5. \A g \in Range(out') \cup Range(flushing') : ~ IsLifecycle(g) => g.id \in seenIds' BY <1>3, <1>8, <2>2
  <2>6. \A g \in Range(buffer') : ~ IsLifecycle(g) /\ g.id \in seenIds' BY <1>3, <1>8, <2>2
  <2>7. \A g \in Range(out') \cup Range(flushing') : IsLifecycle(g) => g \in Range(out) BY <1>5, <2>2
  <2> QED BY <2>2, <2>4, <2>5, <2>6, <2>7 DEF EmitInv, IsLifecycle
<1>12. CASE ~ first
  <2>1. flushing' = <<>> /\ buffer' = buffer /\ out' = out BY <1>3, <1>12
  <2>2. Range(flushing') = {} /\ Distinct(flushing') /\ Range(out') = Range(out) /\ Range(buffer') = Range(buffer) /\ Distinct(out') /\ Distinct(buffer')
    BY <1>7, <1>8, <2>1
  <2>3. Range(out') \cap Range(flushing') = {} /\ Range(out') \cap Range(buffer') = {} /\ Range(flushing') \cap Range(buffer') = {}
    BY <2>2, <1>8
  <2>4. \A g \in Range(out') \cup Range(flushing') : ~ IsLifecycle(g) => g.id \in seenIds' BY <1>3, <1>8, <2>2
  <2>5. \A g \in Range(buffer') : ~ IsLifecycle(g) /\ g.id \in seenIds' BY <1>3, <1>8, <2>2
  <2> QED BY <2>2, <2>3, <2>4, <2>5 DEF EmitInv, IsLifecycle
<1> QED BY <1>2, <1>10, <1>11, <1>12

\* What fan_in flushes goes out frame by frame.
LEMMA EmitSend ==
  ASSUME BlockTypes, EmitInv, FanInSend
  PROVE  EmitInv' /\ Range(out') \cup Range(flushing') = Range(out) \cup Range(flushing)
<1>1. /\ flushing # <<>> /\ out' = Append(out, Head(flushing)) /\ flushing' = Tail(flushing)
      /\ seenIds' = seenIds /\ buffer' = buffer
  BY DEF FanInSend
<1>2. flushing \in Seq(BlockFrame) /\ out \in Seq(BlockFrame) BY DEF BlockTypes, FanInTypeOK
<1>3. PICK f : f = Head(flushing) OBVIOUS
<1>4. f \in BlockFrame /\ Range(flushing) = {f} \cup Range(flushing') BY <1>1, <1>2, <1>3, RangeTail
<1>5. Range(out') = Range(out) \cup {f} BY <1>1, <1>2, <1>3, <1>4, RangeAppend
<1>6. Distinct(flushing') /\ f \notin Range(flushing') BY <1>1, <1>2, <1>3, DistinctTail DEF EmitInv
<1>7. f \notin Range(out) BY <1>4 DEF EmitInv
<1>8. Distinct(out') BY <1>1, <1>2, <1>3, <1>4, <1>7, DistinctAppend DEF EmitInv
<1>9. Distinct(buffer') /\ Range(buffer') = Range(buffer) BY <1>1 DEF EmitInv
<1>10. Range(out') \cap Range(flushing') = {} /\ Range(out') \cap Range(buffer') = {} /\ Range(flushing') \cap Range(buffer') = {}
  BY <1>4, <1>5, <1>6, <1>9 DEF EmitInv
<1>11. Range(out') \cup Range(flushing') = Range(out) \cup Range(flushing) BY <1>4, <1>5
<1>12. \A g \in Range(out') \cup Range(flushing') : ~ IsLifecycle(g) => g.id \in seenIds' BY <1>1, <1>11 DEF EmitInv
<1>13. \A g \in Range(buffer') : ~ IsLifecycle(g) /\ g.id \in seenIds' BY <1>1 DEF EmitInv
<1> QED BY <1>6, <1>8, <1>9, <1>10, <1>11, <1>12, <1>13 DEF EmitInv, IsLifecycle

\* A queue of frames of the other class than kk holds none of kind kk.
LEMMA CarryOther ==
  ASSUME NEW q, NEW kk, NEW k2, NEW may \in BOOLEAN, NEW m2 \in BOOLEAN, Carries(q, kk, may),
         \A k \in 1 .. Len(q) : q[k].kind # kk
  PROVE  Carries(q, k2, m2)
BY DEF Carries

\* A kind travels on the channel of its class only.
LEMMA OtherClass ==
  ASSUME NEW kk
  PROVE  /\ \A q \in Seq(SysFrame) : kk \notin SystemKinds => \A k \in 1 .. Len(q) : q[k].kind # kk
         /\ \A q \in Seq(NormFrame) : kk \in SystemKinds => \A k \in 1 .. Len(q) : q[k].kind # kk
<1>1. ASSUME NEW q \in Seq(SysFrame), NEW k \in 1 .. Len(q) PROVE q[k].kind \in SystemKinds
  <2>1. q[k] \in SysFrame BY ElementOfSeq
  <2> QED BY <2>1 DEF SysFrame
<1>2. ASSUME NEW q \in Seq(NormFrame), NEW k \in 1 .. Len(q) PROVE q[k].kind \notin SystemKinds
  <2>1. q[k] \in NormFrame BY ElementOfSeq
  <2> QED BY <2>1 DEF NormFrame
<1> QED BY <1>1, <1>2

\* What was let through is the same when out and flushing are.
LEMMA OutSame ==
  ASSUME out' = out, flushing' = flushing
  PROVE  (StartOut' <=> StartOut) /\ (TermOut' <=> TermOut)
BY DEF StartOut, TermOut

\* The lifecycle kinds are Start and the terminal ones.
LEMMA LifecycleKinds ==
  /\ \A kk \in Lifecycle : kk # "Start" => Terminal(kk)
  /\ \A kk \in Lifecycle : kk # "none"
  /\ \A k : Terminal(k) => k \in Lifecycle /\ k # "Start"
BY DEF Lifecycle, Terminal

\* The count of fan_in reaches the number of branches when every branch is done.
LEMMA DoneSetFacts ==
  ASSUME NEW pl \in [Branches -> Places]
  PROVE  /\ IsFiniteSet(DoneSet(pl)) /\ Cardinality(DoneSet(pl)) \in Nat
         /\ Cardinality(DoneSet(pl)) >= Cardinality(Branches) => \A b \in Branches : pl[b] = "done"
         /\ AllBefore(pl) => Cardinality(DoneSet(pl)) = 0
<1>1. DoneSet(pl) \in SUBSET Branches BY DEF DoneSet
<1>2. /\ IsFiniteSet(DoneSet(pl)) /\ Cardinality(DoneSet(pl)) <= Cardinality(Branches)
      /\ Cardinality(Branches) = Cardinality(DoneSet(pl)) => Branches = DoneSet(pl)
  BY <1>1, BranchCount, FS_Subset
<1>3. Cardinality(DoneSet(pl)) \in Nat BY <1>2, FS_CardinalityType
<1>4. ASSUME Cardinality(DoneSet(pl)) >= Cardinality(Branches) PROVE \A b \in Branches : pl[b] = "done"
  <2>1. Branches = DoneSet(pl) BY <1>2, <1>3, <1>4, BranchCount
  <2> QED BY <2>1 DEF DoneSet
<1>5. ASSUME AllBefore(pl) PROVE Cardinality(DoneSet(pl)) = 0
  <2>1. DoneSet(pl) = {} BY <1>5 DEF DoneSet, AllBefore
  <2> QED BY <2>1, FS_EmptySet
<1> QED BY <1>2, <1>3, <1>4, <1>5

\* A frame enters the block. A terminal frame does when nothing of the kind is under way.
LEMMA SyncEnter ==
  ASSUME BlockTypes, NEW pl, NEW kk, NEW ls, NEW ln, SyncInv(pl, kk, ls, ln), NEW kind \in Entering, Enter(kind),
         EarlyCancel = FALSE
  PROVE  \E k2 \in Lifecycle : SyncInv(pl, k2, ls, ln)'
<1>1. /\ "head" \in live /\ ~ Ended /\ Emitted("Start")
      /\ ids < MaxIds /\ ids' = ids + 1 /\ Send("head", [kind |-> kind, id |-> ids'])
      /\ UNCHANGED <<copying, live, pushes, seenIds, pending, buffer, flushing, out>>
  BY DEF Enter, fanInVars
<1>2. PICK f : f = [kind |-> kind, id |-> ids'] OBVIOUS
<1>3. f \in BlockFrame /\ f.kind = kind
  <2>1. ids' \in 1 .. MaxIds BY <1>1, ParallelAssumption DEF BlockTypes
  <2> QED BY <1>2, <2>1, ParallelAssumption DEF BlockFrame, Lifecycle
<1>4. /\ \A d \in Channels : d # "head" => sys'[d] = sys[d] /\ norm'[d] = norm[d]
      /\ \/ f \in SysFrame /\ sys'["head"] = Append(sys["head"], f) /\ norm'["head"] = norm["head"]
         \/ f \in NormFrame /\ norm'["head"] = Append(norm["head"], f) /\ sys'["head"] = sys["head"]
  BY <1>1, <1>2, <1>3, BlockSend, ChannelsOfBlock
<1>5. /\ pl \in [Branches -> Places] /\ kk \in Lifecycle
      /\ Carries(sys["head"], kk, AtHead(pl)) /\ Carries(norm["head"], kk, AtHead(pl))
      /\ CopyInv(pl, kk) /\ BranchInv(pl, kk) /\ EndInv(pl, kk)
      /\ Labelled(sys["fanin"], ls, kk, pl) /\ Labelled(norm["fanin"], ln, kk, pl)
      /\ pending.kind \in {"none", kk} /\ pending.count = Cardinality(DoneSet(pl))
  BY DEF SyncInv
<1>6. /\ sys["head"] \in Seq(SysFrame) /\ norm["head"] \in Seq(NormFrame)
      /\ copying \in Seq([frame : BlockFrame, to : Branches])
  BY ChannelsOfBlock DEF BlockTypes
<1>7. (StartOut' <=> StartOut) /\ (TermOut' <=> TermOut) /\ (CopyFree' <=> CopyFree) BY <1>1, OutSame DEF CopyFree
<1>8. \A a \in Branches : sys'[a] = sys[a] /\ norm'[a] = norm[a] BY <1>4, ChannelsOfBlock
<1>9. sys'["fanin"] = sys["fanin"] /\ norm'["fanin"] = norm["fanin"] BY <1>4, ChannelsOfBlock
<1>10. PICK m \in BOOLEAN : m = AtHead(pl) BY DEF AtHead
<1>11. m = AtHead(pl)' BY <1>7, <1>10 DEF AtHead
<1>12. CASE ~ IsLifecycle(f)
  <2>1. Carries(sys["head"], kk, m)' BY <1>4, <1>5, <1>6, <1>10, <1>12, CarryAppend
  <2>2. Carries(norm["head"], kk, m)' BY <1>4, <1>5, <1>6, <1>10, <1>12, CarryAppend
  <2>3. CopyInv(pl, kk)' BY <1>1, <1>5, <1>7 DEF CopyInv
  <2>4. BranchInv(pl, kk)' BY <1>1, <1>5, <1>8 DEF BranchInv
  <2>5. EndInv(pl, kk)' BY <1>1, <1>5, <1>7 DEF EndInv
  <2>6. (Labelled(sys["fanin"], ls, kk, pl) /\ Labelled(norm["fanin"], ln, kk, pl))' BY <1>5, <1>9
  <2>7. SyncInv(pl, kk, ls, ln)' BY <1>1, <1>5, <1>11, <2>1, <2>2, <2>3, <2>4, <2>5, <2>6 DEF SyncInv
  <2> QED BY <1>5, <2>7
<1>13. CASE IsLifecycle(f)
  <2>1. kind \in Lifecycle /\ kind # "Start" BY <1>3, <1>13, ParallelAssumption DEF IsLifecycle, Lifecycle
  <2>2. StartOut BY <1>1 DEF StartOut, Emitted
  <2>3. kk # "Start" /\ Terminal(kk) BY <1>5, <2>2, LifecycleKinds DEF EndInv
  <2>4. ~ TermOut BY <1>1, <1>5 DEF EndInv
  <2>5. CopyFree
    <3> SUFFICES ASSUME NEW k \in 1 .. Len(copying), IsLifecycle(copying[k].frame) PROVE FALSE BY DEF CopyFree
    <3>1. copying[k].frame.kind = kk BY <1>5 DEF CopyInv
    <3>2. copying # <<>> /\ Len(copying) \in Nat BY <1>6, EmptySeq, LenProperties
    <3>3. Head(copying) = copying[1] /\ 1 \in 1 .. Len(copying) BY <1>6, <3>2, TailAt
    <3>4. Head(copying).frame = copying[k].frame BY <1>5, <3>3 DEF CopyInv
    <3> QED BY <1>1, <2>3, <3>1, <3>2, <3>4 DEF Ended
  <2>6. AllBefore(pl) BY <1>1, <1>5, <2>2, <2>5 DEF EndInv
  <2>7. m = TRUE BY <1>10, <2>4, <2>5, <2>6 DEF AtHead
  <2>8. /\ \A k \in 1 .. Len(sys["head"]) : sys["head"][k].kind # kk
        /\ \A k \in 1 .. Len(norm["head"]) : norm["head"][k].kind # kk
    <3>1. ASSUME NEW k \in 1 .. Len(sys["head"]), sys["head"][k].kind = kk PROVE FALSE
      <4>1. sys["head"][k] \in Range(sys["head"]) BY <1>6, RangeEquality
      <4> QED BY <1>1, <2>3, <3>1, <4>1, ChannelsOfBlock DEF Ended
    <3>2. ASSUME NEW k \in 1 .. Len(norm["head"]), norm["head"][k].kind = kk PROVE FALSE
      <4>1. norm["head"][k] \in Range(norm["head"]) BY <1>6, RangeEquality
      <4> QED BY <1>1, <2>3, <3>2, <4>1, ChannelsOfBlock DEF Ended
    <3> QED BY <3>1, <3>2
  <2>9. /\ Carries(sys["head"], kind, FALSE) /\ Carries(norm["head"], kind, FALSE)
        /\ Carries(sys["head"], kind, TRUE) /\ Carries(norm["head"], kind, TRUE)
    <3>1. Carries(sys["head"], kk, m) /\ Carries(norm["head"], kk, m) BY <1>5, <1>10
    <3>2. \A m2 \in BOOLEAN : Carries(sys["head"], kind, m2)
      <4> TAKE m2 \in BOOLEAN
      <4> QED BY <2>8, <3>1, CarryOther
    <3>3. \A m2 \in BOOLEAN : Carries(norm["head"], kind, m2)
      <4> TAKE m2 \in BOOLEAN
      <4> QED BY <2>8, <3>1, CarryOther
    <3> QED BY <3>2, <3>3
  <2>10. (Carries(sys["head"], kind, TRUE) /\ Carries(norm["head"], kind, TRUE))'
    <3>1. CASE f \in SysFrame /\ sys'["head"] = Append(sys["head"], f) /\ norm'["head"] = norm["head"]
      <4>1. Carries(Append(sys["head"], f), kind, TRUE) BY <1>3, <1>6, <2>9, <3>1, CarryAppend
      <4> QED BY <2>9, <3>1, <4>1
    <3>2. CASE f \in NormFrame /\ norm'["head"] = Append(norm["head"], f) /\ sys'["head"] = sys["head"]
      <4>1. Carries(Append(norm["head"], f), kind, TRUE) BY <1>3, <1>6, <2>9, <3>2, CarryAppend
      <4> QED BY <2>9, <3>2, <4>1
    <3> QED BY <1>4, <3>1, <3>2
  <2>11. CopyInv(pl, kind)' BY <1>1, <1>5, <2>5 DEF CopyInv, CopyFree
  <2>12. BranchInv(pl, kind)'
    <3> SUFFICES ASSUME NEW b \in Branches
                 PROVE  /\ Carries(sys[b], kind, pl[b] = "chan") /\ Carries(norm[b], kind, pl[b] = "chan")
                        /\ Carries(pushes[b], kind, pl[b] = "push")
      BY <1>1, <1>8 DEF BranchInv
    <3>1. (pl[b] = "chan") = FALSE /\ (pl[b] = "push") = FALSE BY <2>6 DEF AllBefore
    <3>2. Carries(sys[b], kk, FALSE) /\ Carries(norm[b], kk, FALSE) /\ Carries(pushes[b], kk, FALSE)
      BY <1>5, <3>1 DEF BranchInv
    <3> QED BY <3>1, <3>2, CarryNone
  <2>13. EndInv(pl, kind)' BY <1>1, <1>5, <1>7, <2>1, <2>2, <2>6 DEF EndInv
  <2>14. \A a \in Branches : pl[a] # "fanin" BY <2>6 DEF AllBefore
  <2>15. (Labelled(sys["fanin"], ls, kind, pl) /\ Labelled(norm["fanin"], ln, kind, pl))'
    BY <1>5, <1>9, <2>14, LabelFree
  <2>16. pending.count = 0 BY <1>5, <2>6, DoneSetFacts
  <2>17. pending.kind = "none"
    <3>1. pending = NoLifecycle \/ pending.count \in 1 .. (Cardinality(Branches) - 1) BY DEF BlockTypes, FanInTypeOK
    <3>2. pending = NoLifecycle BY <2>16, <3>1
    <3> QED BY <3>2 DEF NoLifecycle
  <2>18. SyncInv(pl, kind, ls, ln)'
    BY <1>1, <1>5, <1>11, <2>1, <2>7, <2>10, <2>11, <2>12, <2>13, <2>15, <2>17 DEF SyncInv
  <2> QED BY <2>1, <2>18
<1> QED BY <1>12, <1>13

\* fan_out takes a frame. A lifecycle frame leaves the head's queues with none.
LEMMA SyncFanOutRecv ==
  ASSUME BlockTypes, NEW pl, NEW kk, NEW ls, NEW ln, SyncInv(pl, kk, ls, ln), FanOutRecv
  PROVE  SyncInv(pl, kk, ls, ln)'
<1>1. /\ copying = <<>> /\ Waiting("head") /\ Receive("head")
      /\ UNCHANGED <<ids, live, pushes, seenIds, pending, buffer, flushing, out>>
  BY DEF FanOutRecv, fanInVars
<1>2. PICK f : f = Received("head") OBVIOUS
<1>3. /\ f \in BlockFrame
      /\ \A d \in Channels : d # "head" => sys'[d] = sys[d] /\ norm'[d] = norm[d]
      /\ \/ /\ f.kind \in SystemKinds /\ sys["head"] # <<>> /\ f = Head(sys["head"])
            /\ sys'["head"] = Tail(sys["head"]) /\ norm'["head"] = norm["head"]
         \/ /\ f.kind \notin SystemKinds /\ norm["head"] # <<>> /\ f = Head(norm["head"])
            /\ norm'["head"] = Tail(norm["head"]) /\ sys'["head"] = sys["head"]
  BY <1>1, <1>2, BlockReceive, ChannelsOfBlock
<1>4. /\ \A k \in 1 .. Len(copying') : copying'[k].frame = f /\ copying'[k].to \in Branches
      /\ \A j, k \in 1 .. Len(copying') : copying'[j].to = copying'[k].to => j = k
  BY <1>2, <1>3, HeadsOfBranches DEF FanOutRecv
<1>5. /\ pl \in [Branches -> Places] /\ kk \in Lifecycle
      /\ Carries(sys["head"], kk, AtHead(pl)) /\ Carries(norm["head"], kk, AtHead(pl))
      /\ CopyInv(pl, kk) /\ BranchInv(pl, kk) /\ EndInv(pl, kk)
      /\ Labelled(sys["fanin"], ls, kk, pl) /\ Labelled(norm["fanin"], ln, kk, pl)
      /\ pending.kind \in {"none", kk} /\ pending.count = Cardinality(DoneSet(pl))
  BY DEF SyncInv
<1>6. sys["head"] \in Seq(SysFrame) /\ norm["head"] \in Seq(NormFrame) BY ChannelsOfBlock DEF BlockTypes
<1>7. (StartOut' <=> StartOut) /\ (TermOut' <=> TermOut) BY <1>1, OutSame
<1>8. \A a \in Branches : sys'[a] = sys[a] /\ norm'[a] = norm[a] BY <1>3, ChannelsOfBlock
<1>9. sys'["fanin"] = sys["fanin"] /\ norm'["fanin"] = norm["fanin"] BY <1>3, ChannelsOfBlock
<1>10. PICK m \in BOOLEAN : m = AtHead(pl) BY DEF AtHead
<1>11. PICK m2 \in BOOLEAN : m2 = AtHead(pl)' BY DEF AtHead
<1>12. Carries(sys["head"], kk, m) /\ Carries(norm["head"], kk, m) BY <1>5, <1>10
<1>13. CopyFree BY <1>1 DEF CopyFree
<1>14. BranchInv(pl, kk)' BY <1>1, <1>5, <1>8 DEF BranchInv
<1>15. (Labelled(sys["fanin"], ls, kk, pl) /\ Labelled(norm["fanin"], ln, kk, pl))' BY <1>5, <1>9
<1>16. CASE IsLifecycle(f)
  <2>1. f.kind = kk /\ m /\ (Carries(sys["head"], kk, m2) /\ Carries(norm["head"], kk, m2))'
    <3>1. CASE /\ f.kind \in SystemKinds /\ sys["head"] # <<>> /\ f = Head(sys["head"])
               /\ sys'["head"] = Tail(sys["head"]) /\ norm'["head"] = norm["head"]
      <4>1. f.kind = kk /\ m /\ Carries(Tail(sys["head"]), kk, m2) BY <1>6, <1>12, <1>16, <3>1, CarryTail
      <4>2. \A k \in 1 .. Len(norm["head"]) : norm["head"][k].kind # kk BY <1>6, <3>1, <4>1, OtherClass
      <4>3. Carries(norm["head"], kk, m2) BY <1>12, <4>2, CarryOther
      <4> QED BY <3>1, <4>1, <4>3
    <3>2. CASE /\ f.kind \notin SystemKinds /\ norm["head"] # <<>> /\ f = Head(norm["head"])
               /\ norm'["head"] = Tail(norm["head"]) /\ sys'["head"] = sys["head"]
      <4>1. f.kind = kk /\ m /\ Carries(Tail(norm["head"]), kk, m2) BY <1>6, <1>12, <1>16, <3>2, CarryTail
      <4>2. \A k \in 1 .. Len(sys["head"]) : sys["head"][k].kind # kk BY <1>6, <3>2, <4>1, OtherClass
      <4>3. Carries(sys["head"], kk, m2) BY <1>12, <4>2, CarryOther
      <4> QED BY <3>2, <4>1, <4>3
    <3> QED BY <1>3, <3>1, <3>2
  <2>2. AllBefore(pl) /\ ~ TermOut BY <1>10, <2>1 DEF AtHead
  <2>3. CopyInv(pl, kk)' BY <1>4, <1>7, <2>1, <2>2 DEF CopyInv, AllBefore
  <2>4. EndInv(pl, kk)' BY <1>1, <1>5, <1>7, <2>2 DEF EndInv
  <2> QED BY <1>1, <1>5, <1>11, <1>14, <1>15, <2>1, <2>3, <2>4 DEF SyncInv
<1>17. CASE ~ IsLifecycle(f)
  <2>1. (Carries(sys["head"], kk, m) /\ Carries(norm["head"], kk, m))'
    <3>1. CASE /\ sys["head"] # <<>> /\ f = Head(sys["head"])
               /\ sys'["head"] = Tail(sys["head"]) /\ norm'["head"] = norm["head"]
      <4>1. Carries(Tail(sys["head"]), kk, m) BY <1>6, <1>12, <1>17, <3>1, CarryTail
      <4> QED BY <1>12, <3>1, <4>1
    <3>2. CASE /\ norm["head"] # <<>> /\ f = Head(norm["head"])
               /\ norm'["head"] = Tail(norm["head"]) /\ sys'["head"] = sys["head"]
      <4>1. Carries(Tail(norm["head"]), kk, m) BY <1>6, <1>12, <1>17, <3>2, CarryTail
      <4> QED BY <1>12, <3>2, <4>1
    <3> QED BY <1>3, <3>1, <3>2
  <2>2. CopyFree' BY <1>4, <1>17 DEF CopyFree, IsLifecycle
  <2>3. m = AtHead(pl)' BY <1>7, <1>10, <1>13, <2>2 DEF AtHead
  <2>4. CopyInv(pl, kk)' BY <1>4, <1>17 DEF CopyInv, IsLifecycle
  <2>5. EndInv(pl, kk)' BY <1>1, <1>5, <1>7, <1>13, <2>2 DEF EndInv
  <2> QED BY <1>1, <1>5, <1>14, <1>15, <2>1, <2>3, <2>4, <2>5 DEF SyncInv
<1> QED BY <1>16, <1>17

\* fan_out sends one copy. With the last copy of a terminal frame it returns.
LEMMA SyncFanOutSend ==
  ASSUME BlockTypes, NEW pl, NEW kk, NEW ls, NEW ln, SyncInv(pl, kk, ls, ln), FanOutSend
  PROVE  \E p2 \in [Branches -> Places] : SyncInv(p2, kk, ls, ln)'
<1>1. /\ copying # <<>> /\ Send(Head(copying).to, Head(copying).frame) /\ copying' = Tail(copying)
      /\ live' = (IF Len(copying) = 1 /\ Terminal(Head(copying).frame.kind) THEN live \ {"head"} ELSE live)
      /\ UNCHANGED <<ids, pushes, seenIds, pending, buffer, flushing, out>>
  BY DEF FanOutSend, fanInVars
<1>2. copying \in Seq([frame : BlockFrame, to : Branches]) BY DEF BlockTypes
<1>3. /\ Len(copying) \in Nat /\ Len(copying') = Len(copying) - 1
      /\ Head(copying) \in [frame : BlockFrame, to : Branches] /\ Head(copying) = copying[1] /\ 1 \in 1 .. Len(copying)
      /\ \A k \in 1 .. Len(copying') : k + 1 \in 1 .. Len(copying) /\ copying'[k] = copying[k + 1]
  BY <1>1, <1>2, TailAt
<1>4. PICK f : f = Head(copying).frame OBVIOUS
<1>5. PICK b : b = Head(copying).to OBVIOUS
<1>6. f \in BlockFrame /\ b \in Branches /\ b \in Channels /\ b # "head" /\ b # "fanin" /\ Send(b, f)
  BY <1>1, <1>3, <1>4, <1>5, ChannelsOfBlock
<1>7. /\ \A d \in Channels : d # b => sys'[d] = sys[d] /\ norm'[d] = norm[d]
      /\ \/ b \notin live /\ sys'[b] = sys[b] /\ norm'[b] = norm[b]
         \/ b \in live /\ f \in SysFrame /\ sys'[b] = Append(sys[b], f) /\ norm'[b] = norm[b]
         \/ b \in live /\ f \in NormFrame /\ norm'[b] = Append(norm[b], f) /\ sys'[b] = sys[b]
  BY <1>6, BlockSend
<1>8. /\ pl \in [Branches -> Places] /\ kk \in Lifecycle
      /\ Carries(sys["head"], kk, AtHead(pl)) /\ Carries(norm["head"], kk, AtHead(pl))
      /\ CopyInv(pl, kk) /\ BranchInv(pl, kk) /\ EndInv(pl, kk)
      /\ Labelled(sys["fanin"], ls, kk, pl) /\ Labelled(norm["fanin"], ln, kk, pl)
      /\ pending.kind \in {"none", kk} /\ pending.count = Cardinality(DoneSet(pl))
  BY DEF SyncInv
<1>9. (StartOut' <=> StartOut) /\ (TermOut' <=> TermOut) BY <1>1, OutSame
<1>10. /\ sys'["head"] = sys["head"] /\ norm'["head"] = norm["head"]
       /\ sys'["fanin"] = sys["fanin"] /\ norm'["fanin"] = norm["fanin"]
       /\ \A a \in Branches : a # b => sys'[a] = sys[a] /\ norm'[a] = norm[a]
  BY <1>6, <1>7, ChannelsOfBlock
<1>11. sys[b] \in Seq(SysFrame) /\ norm[b] \in Seq(NormFrame) BY <1>6 DEF BlockTypes
<1>12. /\ \A k \in 1 .. Len(copying) : copying[k].frame = f
       /\ \A k \in 1 .. Len(copying') : copying'[k].frame = f /\ copying'[k].to # b
  <2>1. \A k \in 1 .. Len(copying) : copying[k].frame = f BY <1>3, <1>4, <1>8 DEF CopyInv
  <2>2. ASSUME NEW k \in 1 .. Len(copying') PROVE copying'[k].frame = f /\ copying'[k].to # b
    <3>1. k + 1 \in 1 .. Len(copying) /\ copying'[k] = copying[k + 1] /\ k + 1 # 1 BY <1>3
    <3>2. copying[k + 1].to # copying[1].to BY <1>3, <1>8, <3>1 DEF CopyInv
    <3> QED BY <1>3, <1>5, <2>1, <3>1, <3>2
  <2> QED BY <2>1, <2>2
<1>13. \A j, k \in 1 .. Len(copying') : copying'[j].to = copying'[k].to => j = k
  <2> TAKE j, k \in 1 .. Len(copying')
  <2> HAVE copying'[j].to = copying'[k].to
  <2>1. j + 1 \in 1 .. Len(copying) /\ k + 1 \in 1 .. Len(copying) /\ copying[j + 1].to = copying[k + 1].to BY <1>3
  <2>2. j + 1 = k + 1 BY <1>8, <2>1 DEF CopyInv
  <2> QED BY <2>2
<1>14. /\ Carries(sys[b], kk, pl[b] = "chan") /\ Carries(norm[b], kk, pl[b] = "chan")
       /\ Carries(pushes[b], kk, pl[b] = "push")
  BY <1>6, <1>8 DEF BranchInv
<1>15. CASE ~ IsLifecycle(f)
  <2>1. CopyFree /\ CopyFree' BY <1>12, <1>15 DEF CopyFree, IsLifecycle
  <2>2. live' = live BY <1>1, <1>4, <1>15, LifecycleKinds DEF IsLifecycle
  <2>3. AtHead(pl)' <=> AtHead(pl) BY <1>9, <2>1 DEF AtHead
  <2>4. PICK m \in BOOLEAN : m = AtHead(pl) BY DEF AtHead
  <2>5. m = AtHead(pl)' BY <2>3, <2>4 DEF AtHead
  <2>6. (Carries(sys["head"], kk, m) /\ Carries(norm["head"], kk, m))' BY <1>8, <1>10, <2>4
  <2>7. CopyInv(pl, kk)' BY <1>12, <1>13, <1>15 DEF CopyInv, IsLifecycle
  <2>8. PICK c \in BOOLEAN : c = (pl[b] = "chan") OBVIOUS
  <2>9. Carries(sys[b], kk, c) /\ Carries(norm[b], kk, c) BY <1>14, <2>8
  <2>10. (Carries(sys[b], kk, c) /\ Carries(norm[b], kk, c))'
    <3>1. CASE b \in live /\ f \in SysFrame /\ sys'[b] = Append(sys[b], f) /\ norm'[b] = norm[b]
      <4>1. Carries(Append(sys[b], f), kk, c) BY <1>11, <1>15, <2>9, <3>1, CarryAppend
      <4> QED BY <2>9, <3>1, <4>1
    <3>2. CASE b \in live /\ f \in NormFrame /\ norm'[b] = Append(norm[b], f) /\ sys'[b] = sys[b]
      <4>1. Carries(Append(norm[b], f), kk, c) BY <1>11, <1>15, <2>9, <3>2, CarryAppend
      <4> QED BY <2>9, <3>2, <4>1
    <3>3. CASE sys'[b] = sys[b] /\ norm'[b] = norm[b] BY <2>9, <3>3
    <3> QED BY <1>7, <3>1, <3>2, <3>3
  <2>11. BranchInv(pl, kk)'
    <3> SUFFICES ASSUME NEW a \in Branches
                 PROVE  (/\ Carries(sys[a], kk, pl[a] = "chan") /\ Carries(norm[a], kk, pl[a] = "chan")
                         /\ Carries(pushes[a], kk, pl[a] = "push"))'
      BY DEF BranchInv
    <3>1. CASE a = b BY <1>1, <1>14, <2>8, <2>10, <3>1
    <3>2. CASE a # b BY <1>1, <1>8, <1>10, <3>2 DEF BranchInv
    <3> QED BY <3>1, <3>2
  <2>12. EndInv(pl, kk)' BY <1>8, <1>9, <2>1, <2>2 DEF EndInv
  <2>13. SyncInv(pl, kk, ls, ln)' BY <1>1, <1>8, <1>10, <2>5, <2>6, <2>7, <2>11, <2>12 DEF SyncInv
  <2> QED BY <1>8, <2>13
<1>16. CASE IsLifecycle(f)
  <2>1. f.kind = kk /\ pl[b] = "before" /\ ~ TermOut /\ ~ CopyFree
    BY <1>3, <1>4, <1>5, <1>8, <1>16 DEF CopyInv, CopyFree
  <2>2. PICK p2 : p2 = [pl EXCEPT ![b] = IF b \in live THEN "chan" ELSE "before"] OBVIOUS
  <2>3. /\ p2 \in [Branches -> Places] /\ \A a \in Branches : a # b => p2[a] = pl[a]
        /\ p2[b] = IF b \in live THEN "chan" ELSE "before"
    BY <1>6, <1>8, <2>2 DEF Places
  <2>4. AtHead(pl) = FALSE BY <2>1 DEF AtHead
  <2>5. PICK m2 \in BOOLEAN : m2 = AtHead(p2)' BY DEF AtHead
  <2>6. (Carries(sys["head"], kk, m2) /\ Carries(norm["head"], kk, m2))'
    <3>1. Carries(sys["head"], kk, FALSE) /\ Carries(norm["head"], kk, FALSE) BY <1>8, <2>4
    <3>2. Carries(sys["head"], kk, m2) /\ Carries(norm["head"], kk, m2) BY <3>1, CarryNone
    <3> QED BY <1>10, <3>2
  <2>7. CopyInv(p2, kk)'
    <3>1. ASSUME NEW k \in 1 .. Len(copying') PROVE p2[copying'[k].to] = "before"
      <4>1. k + 1 \in 1 .. Len(copying) /\ copying'[k] = copying[k + 1] BY <1>3
      <4>2. pl[copying[k + 1].to] = "before" BY <1>8, <1>12, <1>16, <4>1 DEF CopyInv
      <4>3. copying[k + 1] \in [frame : BlockFrame, to : Branches] BY <1>2, <4>1, ElementOfSeq
      <4>4. copying'[k].to \in Branches /\ copying'[k].to # b BY <1>12, <4>1, <4>3
      <4> QED BY <2>3, <4>1, <4>2, <4>4
    <3> QED BY <1>9, <1>12, <1>13, <2>1, <3>1 DEF CopyInv
  <2>8. (pl[b] = "chan") = FALSE /\ (pl[b] = "push") = FALSE /\ (p2[b] = "push") = FALSE BY <2>1, <2>3
  <2>9. Carries(sys[b], kk, FALSE) /\ Carries(norm[b], kk, FALSE) /\ Carries(pushes[b], kk, FALSE) BY <1>14, <2>8
  <2>10. PICK c \in BOOLEAN : c = (p2[b] = "chan") OBVIOUS
  <2>11. (Carries(sys[b], kk, c) /\ Carries(norm[b], kk, c))'
    <3>0. Carries(sys[b], kk, c) /\ Carries(norm[b], kk, c) BY <2>9, CarryNone
    <3>1. CASE b \in live /\ f \in SysFrame /\ sys'[b] = Append(sys[b], f) /\ norm'[b] = norm[b]
      <4>1. c = TRUE BY <2>3, <2>10, <3>1
      <4>2. Carries(Append(sys[b], f), kk, TRUE) BY <1>11, <2>1, <2>9, <3>1, CarryAppend
      <4> QED BY <3>0, <3>1, <4>1, <4>2
    <3>2. CASE b \in live /\ f \in NormFrame /\ norm'[b] = Append(norm[b], f) /\ sys'[b] = sys[b]
      <4>1. c = TRUE BY <2>3, <2>10, <3>2
      <4>2. Carries(Append(norm[b], f), kk, TRUE) BY <1>11, <2>1, <2>9, <3>2, CarryAppend
      <4> QED BY <3>0, <3>2, <4>1, <4>2
    <3>3. CASE sys'[b] = sys[b] /\ norm'[b] = norm[b] BY <3>0, <3>3
    <3> QED BY <1>7, <3>1, <3>2, <3>3
  <2>12. BranchInv(p2, kk)'
    <3> SUFFICES ASSUME NEW a \in Branches
                 PROVE  (/\ Carries(sys[a], kk, p2[a] = "chan") /\ Carries(norm[a], kk, p2[a] = "chan")
                         /\ Carries(pushes[a], kk, p2[a] = "push"))'
      BY DEF BranchInv
    <3>1. CASE a = b BY <1>1, <2>8, <2>9, <2>10, <2>11, <3>1
    <3>2. CASE a # b BY <1>1, <1>8, <1>10, <2>3, <3>2 DEF BranchInv
    <3> QED BY <3>1, <3>2
  <2>13. EndInv(p2, kk)'
    <3>1. (kk = "Start") <=> ~ StartOut' BY <1>8, <1>9 DEF EndInv
    <3>2. ~ TermOut' BY <1>9, <2>1
    <3>3. ASSUME StartOut', NEW a \in Branches, p2[a] \in {"fanin", "done"} PROVE a \notin live'
      <4>1. a # b /\ pl[a] \in {"fanin", "done"} BY <2>3, <3>3
      <4>2. a \notin live BY <1>8, <1>9, <3>3, <4>1 DEF EndInv
      <4> QED BY <1>1, <4>2
    <3>4. ASSUME StartOut' PROVE "head" \notin live' \/ ~ CopyFree'
      <4>1. Terminal(f.kind) BY <1>8, <1>9, <2>1, <3>1, <3>4, LifecycleKinds
      <4>2. CASE Len(copying) = 1 BY <1>1, <1>4, <4>1, <4>2
      <4>3. CASE Len(copying) # 1
        <5>1. 1 \in 1 .. Len(copying') BY <1>3, <4>3
        <5> QED BY <1>12, <1>16, <5>1 DEF CopyFree, IsLifecycle
      <4> QED BY <4>2, <4>3
    <3> QED BY <3>1, <3>2, <3>3, <3>4 DEF EndInv
  <2>14. \A a \in Branches : pl[a] = "fanin" => p2[a] = "fanin" BY <2>1, <2>3
  <2>15. (Labelled(sys["fanin"], ls, kk, p2) /\ Labelled(norm["fanin"], ln, kk, p2))' BY <1>8, <1>10, <2>14, LabelMove
  <2>16. DoneSet(p2) = DoneSet(pl) BY <2>1, <2>3 DEF DoneSet
  <2>17. SyncInv(p2, kk, ls, ln)' BY <1>1, <1>8, <2>3, <2>5, <2>6, <2>7, <2>12, <2>13, <2>15, <2>16 DEF SyncInv
  <2> QED BY <2>3, <2>17
<1> QED BY <1>15, <1>16

\* The part of the invariant that looks at fan_out and at the end of the block.
UpInv(pl, kk) ==
  /\ Carries(sys["head"], kk, AtHead(pl)) /\ Carries(norm["head"], kk, AtHead(pl))
  /\ CopyInv(pl, kk) /\ EndInv(pl, kk)

\* The lifecycle frame of branch b has moved on from the branch's queue or pushes.
Moves(pl, p2, b) ==
  /\ pl[b] \in {"chan", "push"} /\ p2[b] \in {"push", "fanin"}
  /\ \A a \in Branches : a # b => p2[a] = pl[a]

\* A branch's copy moves one place on; nothing upstream of it changes.
LEMMA SyncMove ==
  ASSUME BlockTypes, NEW pl \in [Branches -> Places], NEW kk, UpInv(pl, kk), NEW b \in Branches,
         NEW p2 \in [Branches -> Places], Moves(pl, p2, b),
         copying' = copying, flushing' = flushing, out' = out, live' \subseteq live,
         StartOut => (p2[b] = "fanin" => b \notin live'),
         sys'["head"] \in {sys["head"], <<>>}, norm'["head"] \in {norm["head"], <<>>}
  PROVE  UpInv(p2, kk)' /\ DoneSet(p2) = DoneSet(pl) /\ \A a \in Branches : pl[a] = "fanin" => p2[a] = "fanin"
<1>1. /\ Carries(sys["head"], kk, AtHead(pl)) /\ Carries(norm["head"], kk, AtHead(pl))
      /\ CopyInv(pl, kk) /\ EndInv(pl, kk)
  BY DEF UpInv
<1>2. \A a \in Branches : a # b => p2[a] = pl[a] BY DEF Moves
<1>3. ~ AllBefore(pl) BY DEF AllBefore, Moves
<1>4. AtHead(pl) = FALSE BY <1>3 DEF AtHead
<1>5. PICK m \in BOOLEAN : m = AtHead(p2)' BY DEF AtHead
<1>6. (Carries(sys["head"], kk, m) /\ Carries(norm["head"], kk, m))'
  <2>1. Carries(sys["head"], kk, FALSE) /\ Carries(norm["head"], kk, FALSE) BY <1>1, <1>4
  <2>2. Carries(sys["head"], kk, m) /\ Carries(norm["head"], kk, m) /\ Carries(<<>>, kk, m) BY <2>1, CarryNone, CarryEmpty
  <2> QED BY <2>2
<1>7. (StartOut' <=> StartOut) /\ (TermOut' <=> TermOut) BY OutSame
<1>8. CopyFree' <=> CopyFree BY DEF CopyFree
<1>9. CopyInv(p2, kk)'
  <2>1. copying \in Seq([frame : BlockFrame, to : Branches]) BY DEF BlockTypes
  <2>2. ASSUME NEW k \in 1 .. Len(copying), IsLifecycle(copying[k].frame) PROVE p2[copying[k].to] = "before"
    <3>1. pl[copying[k].to] = "before" BY <1>1, <2>2 DEF CopyInv
    <3>2. copying[k] \in [frame : BlockFrame, to : Branches] BY <2>1, ElementOfSeq
    <3>3. copying[k].to \in Branches /\ copying[k].to # b BY <3>1, <3>2 DEF Moves
    <3> QED BY <1>2, <3>1, <3>3
  <2> QED BY <1>1, <1>7, <2>2 DEF CopyInv
<1>10. EndInv(p2, kk)'
  <2>1. (kk = "Start") <=> ~ StartOut' BY <1>1, <1>7 DEF EndInv
  <2>2. ~ TermOut' BY <1>1, <1>3, <1>7 DEF EndInv
  <2>3. ASSUME StartOut', NEW a \in Branches, p2[a] \in {"fanin", "done"} PROVE a \notin live'
    <3>1. CASE a = b BY <1>7, <2>3, <3>1 DEF Moves
    <3>2. CASE a # b BY <1>1, <1>2, <1>7, <2>3, <3>2 DEF EndInv
    <3> QED BY <3>1, <3>2
  <2>4. ASSUME StartOut' PROVE "head" \notin live' \/ ~ CopyFree' BY <1>1, <1>3, <1>7, <1>8, <2>4 DEF EndInv
  <2> QED BY <2>1, <2>2, <2>3, <2>4 DEF EndInv
<1>11. DoneSet(p2) = DoneSet(pl) BY <1>2 DEF DoneSet, Moves
<1>12. \A a \in Branches : pl[a] = "fanin" => p2[a] = "fanin" BY <1>2 DEF Moves
<1> QED BY <1>5, <1>6, <1>9, <1>10, <1>11, <1>12 DEF UpInv

\* A branch is interrupted: an End that waits in its normal queue goes to its pushes.
LEMMA SyncBargeIn ==
  ASSUME BlockTypes, NEW pl, NEW kk, NEW ls, NEW ln, SyncInv(pl, kk, ls, ln), NEW b \in Branches, BranchBargeIn(b)
  PROVE  \E p2 \in [Branches -> Places] : SyncInv(p2, kk, ls, ln)'
<1>1. UNCHANGED <<ids, copying, live, seenIds, pending, buffer, flushing, out>> BY DEF BranchBargeIn, fanInVars
<1>2. /\ \A d \in Channels : d # b => sys'[d] = sys[d] /\ norm'[d] = norm[d]
      /\ sys[b] # <<>> /\ sys'[b] = Tail(sys[b]) /\ norm'[b] = <<>> /\ pushes[b] = <<>>
      /\ Head(sys[b]).kind = "Interruption"
      /\ \A a \in Branches : a # b => pushes'[a] = pushes[a]
      /\ \/ pushes'[b] = <<Head(sys[b])>>
         \/ \E i \in 1 .. Len(norm[b]) : norm[b][i].kind = "End" /\ pushes'[b] = <<Head(sys[b]), norm[b][i]>>
  BY BargeInPushes
<1>3. /\ pl \in [Branches -> Places] /\ kk \in Lifecycle
      /\ Carries(sys["head"], kk, AtHead(pl)) /\ Carries(norm["head"], kk, AtHead(pl))
      /\ CopyInv(pl, kk) /\ BranchInv(pl, kk) /\ EndInv(pl, kk)
      /\ Labelled(sys["fanin"], ls, kk, pl) /\ Labelled(norm["fanin"], ln, kk, pl)
      /\ pending.kind \in {"none", kk} /\ pending.count = Cardinality(DoneSet(pl))
  BY DEF SyncInv
<1>4. /\ sys'["head"] = sys["head"] /\ norm'["head"] = norm["head"]
      /\ sys'["fanin"] = sys["fanin"] /\ norm'["fanin"] = norm["fanin"]
      /\ \A a \in Branches : a # b => sys'[a] = sys[a] /\ norm'[a] = norm[a]
  BY <1>2, ChannelsOfBlock
<1>5. sys[b] \in Seq(SysFrame) /\ norm[b] \in Seq(NormFrame) BY ChannelsOfBlock DEF BlockTypes
<1>6. /\ Carries(sys[b], kk, pl[b] = "chan") /\ Carries(norm[b], kk, pl[b] = "chan")
  BY <1>3 DEF BranchInv
<1>7. ~ IsLifecycle(Head(sys[b])) BY <1>2 DEF IsLifecycle, Lifecycle
<1>8. CASE pushes'[b] = <<Head(sys[b])>>
  <2>1. PICK c \in BOOLEAN : c = (pl[b] = "chan") OBVIOUS
  <2>2. Carries(Tail(sys[b]), kk, c) BY <1>2, <1>5, <1>6, <1>7, <2>1, CarryTail
  <2>3. Carries(<<>>, kk, c) BY CarryEmpty
  <2>4. \A m \in BOOLEAN : Carries(<<Head(sys[b])>>, kk, m) BY <1>7 DEF Carries
  <2>5. BranchInv(pl, kk)'
    <3> SUFFICES ASSUME NEW a \in Branches
                 PROVE  (/\ Carries(sys[a], kk, pl[a] = "chan") /\ Carries(norm[a], kk, pl[a] = "chan")
                         /\ Carries(pushes[a], kk, pl[a] = "push"))'
      BY DEF BranchInv
    <3>1. CASE a = b
      <4>1. PICK m \in BOOLEAN : m = (pl[b] = "push") OBVIOUS
      <4> QED BY <1>2, <1>8, <2>1, <2>2, <2>3, <2>4, <3>1, <4>1
    <3>2. CASE a # b BY <1>2, <1>3, <1>4, <3>2 DEF BranchInv
    <3> QED BY <3>1, <3>2
  <2>6. (StartOut' <=> StartOut) /\ (TermOut' <=> TermOut) /\ (CopyFree' <=> CopyFree) BY <1>1, OutSame DEF CopyFree
  <2>7. AtHead(pl)' = AtHead(pl) BY <2>6 DEF AtHead
  <2>8. CopyInv(pl, kk)' BY <1>1, <1>3, <2>6 DEF CopyInv
  <2>9. EndInv(pl, kk)' BY <1>1, <1>3, <2>6 DEF EndInv
  <2>10. SyncInv(pl, kk, ls, ln)' BY <1>1, <1>3, <1>4, <2>5, <2>7, <2>8, <2>9 DEF SyncInv
  <2> QED BY <1>3, <2>10
<1>9. ASSUME NEW i \in 1 .. Len(norm[b]), norm[b][i].kind = "End", pushes'[b] = <<Head(sys[b]), norm[b][i]>>
      PROVE  \E p2 \in [Branches -> Places] : SyncInv(p2, kk, ls, ln)'
  <2>1. IsLifecycle(norm[b][i]) BY <1>9 DEF IsLifecycle, Lifecycle
  <2>2. kk = "End" /\ pl[b] = "chan" BY <1>6, <1>9, <2>1 DEF Carries
  <2>3. PICK p2 : p2 = [pl EXCEPT ![b] = "push"] OBVIOUS
  <2>4. p2 \in [Branches -> Places] /\ p2[b] = "push" /\ \A a \in Branches : a # b => p2[a] = pl[a]
    BY <1>3, <2>3 DEF Places
  <2>5. Moves(pl, p2, b) BY <2>2, <2>4 DEF Moves
  <2>6. UpInv(pl, kk) BY <1>3 DEF UpInv
  <2>7. UpInv(p2, kk)' /\ DoneSet(p2) = DoneSet(pl) /\ \A a \in Branches : pl[a] = "fanin" => p2[a] = "fanin"
    <3>1. live' \subseteq live /\ copying' = copying /\ flushing' = flushing /\ out' = out BY <1>1
    <3>2. sys'["head"] \in {sys["head"], <<>>} /\ norm'["head"] \in {norm["head"], <<>>} BY <1>4
    <3>3. p2[b] # "fanin" BY <2>4
    <3> QED BY <1>3, <2>4, <2>5, <2>6, <3>1, <3>2, <3>3, SyncMove
  <2>8. (Labelled(sys["fanin"], ls, kk, p2) /\ Labelled(norm["fanin"], ln, kk, p2))' BY <1>3, <1>4, <2>7, LabelMove
  <2>9. Carries(Tail(sys[b]), kk, FALSE)
    <3>1. Tail(sys[b]) \in Seq(SysFrame) BY <1>2, <1>5, HeadTailProperties
    <3>2. kk \notin SystemKinds BY <2>2 DEF SystemKinds
    <3>3. PICK t : t = Tail(sys[b]) OBVIOUS
    <3>4. \A k \in 1 .. Len(t) : t[k].kind # kk BY <3>1, <3>2, <3>3, OtherClass
    <3>5. Carries(t, kk, TRUE) BY <1>2, <1>5, <1>6, <1>7, <2>2, <3>3, CarryTail
    <3>6. Carries(t, kk, FALSE) BY <3>4, <3>5, CarryOther
    <3> QED BY <3>3, <3>6
  <2>10. Carries(<<>>, kk, FALSE) BY CarryEmpty
  <2>11. Carries(<<Head(sys[b]), norm[b][i]>>, kk, TRUE)
    <3>1. PICK h : h = Head(sys[b]) OBVIOUS
    <3>2. PICK e : e = norm[b][i] OBVIOUS
    <3>3. ~ IsLifecycle(h) /\ e.kind = kk BY <1>7, <1>9, <2>2, <3>1, <3>2
    <3>4. Carries(<<h, e>>, kk, TRUE) BY <3>3 DEF Carries
    <3> QED BY <3>1, <3>2, <3>4
  <2>12. BranchInv(p2, kk)'
    <3> SUFFICES ASSUME NEW a \in Branches
                 PROVE  (/\ Carries(sys[a], kk, p2[a] = "chan") /\ Carries(norm[a], kk, p2[a] = "chan")
                         /\ Carries(pushes[a], kk, p2[a] = "push"))'
      BY DEF BranchInv
    <3>1. CASE a = b
      <4>1. (p2[b] = "chan") = FALSE /\ (p2[b] = "push") = TRUE BY <2>4
      <4> QED BY <1>2, <1>9, <2>9, <2>10, <2>11, <3>1, <4>1
    <3>2. CASE a # b BY <1>2, <1>3, <1>4, <2>4, <3>2 DEF BranchInv
    <3> QED BY <3>1, <3>2
  <2>13. SyncInv(p2, kk, ls, ln)' BY <1>1, <1>3, <2>4, <2>7, <2>8, <2>12 DEF SyncInv, UpInv
  <2> QED BY <2>4, <2>13
<1> QED BY <1>2, <1>8, <1>9

\* A branch takes its lifecycle frame.
LEMMA SyncLifecycle ==
  ASSUME BlockTypes, NEW pl, NEW kk, NEW ls, NEW ln, SyncInv(pl, kk, ls, ln), NEW b \in Branches, BranchLifecycle(b)
  PROVE  \E p2 \in [Branches -> Places] : SyncInv(p2, kk, ls, ln)'
<1>0. PICK f : f = Received(b) OBVIOUS
<1>1. /\ Waiting(b) /\ Receive(b) /\ IsLifecycle(f) /\ pushes' = [pushes EXCEPT ![b] = <<f>>]
      /\ UNCHANGED <<ids, copying, live, seenIds, pending, buffer, flushing, out>>
  BY <1>0 DEF BranchLifecycle, Idle, Then, fanInVars, IsLifecycle
<1>2. /\ f \in BlockFrame
      /\ \A d \in Channels : d # b => sys'[d] = sys[d] /\ norm'[d] = norm[d]
      /\ \/ /\ f.kind \in SystemKinds /\ sys[b] # <<>> /\ f = Head(sys[b])
            /\ sys'[b] = Tail(sys[b]) /\ norm'[b] = norm[b]
         \/ /\ f.kind \notin SystemKinds /\ norm[b] # <<>> /\ f = Head(norm[b])
            /\ norm'[b] = Tail(norm[b]) /\ sys'[b] = sys[b]
  BY <1>0, <1>1, BlockReceive, ChannelsOfBlock
<1>3. /\ pl \in [Branches -> Places] /\ kk \in Lifecycle
      /\ Carries(sys["head"], kk, AtHead(pl)) /\ Carries(norm["head"], kk, AtHead(pl))
      /\ CopyInv(pl, kk) /\ BranchInv(pl, kk) /\ EndInv(pl, kk)
      /\ Labelled(sys["fanin"], ls, kk, pl) /\ Labelled(norm["fanin"], ln, kk, pl)
      /\ pending.kind \in {"none", kk} /\ pending.count = Cardinality(DoneSet(pl))
  BY DEF SyncInv
<1>4. /\ sys'["head"] = sys["head"] /\ norm'["head"] = norm["head"]
      /\ sys'["fanin"] = sys["fanin"] /\ norm'["fanin"] = norm["fanin"]
      /\ \A a \in Branches : a # b => sys'[a] = sys[a] /\ norm'[a] = norm[a]
  BY <1>2, ChannelsOfBlock
<1>5. sys[b] \in Seq(SysFrame) /\ norm[b] \in Seq(NormFrame) /\ pushes \in [Branches -> Seq(BlockFrame)]
  BY ChannelsOfBlock DEF BlockTypes
<1>6. PICK c \in BOOLEAN : c = (pl[b] = "chan") OBVIOUS
<1>7. Carries(sys[b], kk, c) /\ Carries(norm[b], kk, c) BY <1>3, <1>6 DEF BranchInv
<1>8. f.kind = kk /\ c /\ (Carries(sys[b], kk, FALSE) /\ Carries(norm[b], kk, FALSE))'
  <2>1. CASE /\ f.kind \in SystemKinds /\ sys[b] # <<>> /\ f = Head(sys[b])
             /\ sys'[b] = Tail(sys[b]) /\ norm'[b] = norm[b]
    <3>1. f.kind = kk /\ c /\ Carries(Tail(sys[b]), kk, FALSE) BY <1>1, <1>5, <1>7, <2>1, CarryTail
    <3>2. \A k \in 1 .. Len(norm[b]) : norm[b][k].kind # kk BY <1>5, <2>1, <3>1, OtherClass
    <3>3. Carries(norm[b], kk, FALSE) BY <1>7, <3>2, CarryOther
    <3> QED BY <2>1, <3>1, <3>3
  <2>2. CASE /\ f.kind \notin SystemKinds /\ norm[b] # <<>> /\ f = Head(norm[b])
             /\ norm'[b] = Tail(norm[b]) /\ sys'[b] = sys[b]
    <3>1. f.kind = kk /\ c /\ Carries(Tail(norm[b]), kk, FALSE) BY <1>1, <1>5, <1>7, <2>2, CarryTail
    <3>2. \A k \in 1 .. Len(sys[b]) : sys[b][k].kind # kk BY <1>5, <2>2, <3>1, OtherClass
    <3>3. Carries(sys[b], kk, FALSE) BY <1>7, <3>2, CarryOther
    <3> QED BY <2>2, <3>1, <3>3
  <2> QED BY <1>2, <2>1, <2>2
<1>9. PICK p2 : p2 = [pl EXCEPT ![b] = "push"] OBVIOUS
<1>10. p2 \in [Branches -> Places] /\ p2[b] = "push" /\ \A a \in Branches : a # b => p2[a] = pl[a]
  BY <1>3, <1>9 DEF Places
<1>11. Moves(pl, p2, b) BY <1>6, <1>8, <1>10 DEF Moves
<1>12. UpInv(pl, kk) BY <1>3 DEF UpInv
<1>13. UpInv(p2, kk)' /\ DoneSet(p2) = DoneSet(pl) /\ \A a \in Branches : pl[a] = "fanin" => p2[a] = "fanin"
  <2>1. live' \subseteq live /\ copying' = copying /\ flushing' = flushing /\ out' = out BY <1>1
  <2>2. sys'["head"] \in {sys["head"], <<>>} /\ norm'["head"] \in {norm["head"], <<>>} BY <1>4
  <2>3. p2[b] # "fanin" BY <1>10
  <2> QED BY <1>3, <1>10, <1>11, <1>12, <2>1, <2>2, <2>3, SyncMove
<1>14. (Labelled(sys["fanin"], ls, kk, p2) /\ Labelled(norm["fanin"], ln, kk, p2))' BY <1>3, <1>4, <1>13, LabelMove
<1>15. pushes'[b] = <<f>> /\ \A a \in Branches : a # b => pushes'[a] = pushes[a] BY <1>1, <1>5
<1>16. Carries(<<f>>, kk, TRUE) BY <1>8 DEF Carries
<1>17. BranchInv(p2, kk)'
  <2> SUFFICES ASSUME NEW a \in Branches
               PROVE  (/\ Carries(sys[a], kk, p2[a] = "chan") /\ Carries(norm[a], kk, p2[a] = "chan")
                       /\ Carries(pushes[a], kk, p2[a] = "push"))'
    BY DEF BranchInv
  <2>1. CASE a = b
    <3>1. (p2[b] = "chan") = FALSE /\ (p2[b] = "push") = TRUE BY <1>10
    <3> QED BY <1>8, <1>15, <1>16, <2>1, <3>1
  <2>2. CASE a # b BY <1>3, <1>4, <1>10, <1>15, <2>2 DEF BranchInv
  <2> QED BY <2>1, <2>2
<1>18. SyncInv(p2, kk, ls, ln)' BY <1>1, <1>3, <1>10, <1>13, <1>14, <1>17 DEF SyncInv, UpInv
<1> QED BY <1>10, <1>18

\* A branch processes a frame of its own.
LEMMA SyncProcess ==
  ASSUME BlockTypes, NEW pl, NEW kk, NEW ls, NEW ln, SyncInv(pl, kk, ls, ln), NEW b \in Branches, BranchProcess(b)
  PROVE  SyncInv(pl, kk, ls, ln)'
<1>0. PICK f : f = Received(b) OBVIOUS
<1>1. /\ Waiting(b) /\ Receive(b) /\ f.kind = "Text" /\ pushes[b] = <<>>
      /\ UNCHANGED <<copying, live, seenIds, pending, buffer, flushing, out>>
  BY <1>0 DEF BranchProcess, Idle, fanInVars
<1>2. /\ f \in BlockFrame
      /\ \A d \in Channels : d # b => sys'[d] = sys[d] /\ norm'[d] = norm[d]
      /\ \/ /\ f.kind \in SystemKinds /\ sys[b] # <<>> /\ f = Head(sys[b])
            /\ sys'[b] = Tail(sys[b]) /\ norm'[b] = norm[b]
         \/ /\ f.kind \notin SystemKinds /\ norm[b] # <<>> /\ f = Head(norm[b])
            /\ norm'[b] = Tail(norm[b]) /\ sys'[b] = sys[b]
  BY <1>0, <1>1, BlockReceive, ChannelsOfBlock
<1>3. /\ pl \in [Branches -> Places] /\ kk \in Lifecycle
      /\ Carries(sys["head"], kk, AtHead(pl)) /\ Carries(norm["head"], kk, AtHead(pl))
      /\ CopyInv(pl, kk) /\ BranchInv(pl, kk) /\ EndInv(pl, kk)
      /\ Labelled(sys["fanin"], ls, kk, pl) /\ Labelled(norm["fanin"], ln, kk, pl)
      /\ pending.kind \in {"none", kk} /\ pending.count = Cardinality(DoneSet(pl))
  BY DEF SyncInv
<1>4. /\ sys'["head"] = sys["head"] /\ norm'["head"] = norm["head"]
      /\ sys'["fanin"] = sys["fanin"] /\ norm'["fanin"] = norm["fanin"]
      /\ \A a \in Branches : a # b => sys'[a] = sys[a] /\ norm'[a] = norm[a]
  BY <1>2, ChannelsOfBlock
<1>5. sys[b] \in Seq(SysFrame) /\ norm[b] \in Seq(NormFrame) /\ pushes \in [Branches -> Seq(BlockFrame)]
  BY ChannelsOfBlock DEF BlockTypes
<1>6. PICK c \in BOOLEAN : c = (pl[b] = "chan") OBVIOUS
<1>7. Carries(sys[b], kk, c) /\ Carries(norm[b], kk, c) BY <1>3, <1>6 DEF BranchInv
<1>8. ~ IsLifecycle(f) BY <1>1 DEF IsLifecycle, Lifecycle
<1>9. (Carries(sys[b], kk, c) /\ Carries(norm[b], kk, c))'
  <2>1. CASE sys[b] # <<>> /\ f = Head(sys[b]) /\ sys'[b] = Tail(sys[b]) /\ norm'[b] = norm[b]
    <3>1. Carries(Tail(sys[b]), kk, c) BY <1>5, <1>7, <1>8, <2>1, CarryTail
    <3> QED BY <1>7, <2>1, <3>1
  <2>2. CASE norm[b] # <<>> /\ f = Head(norm[b]) /\ norm'[b] = Tail(norm[b]) /\ sys'[b] = sys[b]
    <3>1. Carries(Tail(norm[b]), kk, c) BY <1>5, <1>7, <1>8, <2>2, CarryTail
    <3> QED BY <1>7, <2>2, <3>1
  <2> QED BY <1>2, <2>1, <2>2
<1>10. /\ \A a \in Branches : a # b => pushes'[a] = pushes[a]
       /\ pushes'[b] = <<>> \/ \E g : g.kind = "Text" /\ pushes'[b] = <<g>>
  <2>1. CASE Then(b, <<f>>) BY <1>1, <1>5, <2>1 DEF Then
  <2>2. CASE Then(b, <<>>) BY <1>5, <2>2 DEF Then
  <2>3. CASE Then(b, <<[kind |-> "Text", id |-> ids']>>)
    <3>1. PICK g : g = [kind |-> "Text", id |-> ids'] OBVIOUS
    <3>2. g.kind = "Text" /\ pushes' = [pushes EXCEPT ![b] = <<g>>] BY <2>3, <3>1 DEF Then
    <3> QED BY <1>5, <3>2
  <2> QED BY <1>0, <2>1, <2>2, <2>3 DEF BranchProcess
<1>11. \A m \in BOOLEAN : Carries(pushes'[b], kk, m)
  <2> TAKE m \in BOOLEAN
  <2>1. CASE pushes'[b] = <<>> BY <2>1, CarryEmpty
  <2>2. ASSUME NEW g, g.kind = "Text", pushes'[b] = <<g>> PROVE Carries(pushes'[b], kk, m)
    <3>1. ~ IsLifecycle(g) BY <2>2 DEF IsLifecycle, Lifecycle
    <3>2. Carries(<<g>>, kk, m) BY <3>1 DEF Carries
    <3> QED BY <2>2, <3>2
  <2> QED BY <1>10, <2>1, <2>2
<1>12. BranchInv(pl, kk)'
  <2> SUFFICES ASSUME NEW a \in Branches
               PROVE  (/\ Carries(sys[a], kk, pl[a] = "chan") /\ Carries(norm[a], kk, pl[a] = "chan")
                       /\ Carries(pushes[a], kk, pl[a] = "push"))'
    BY DEF BranchInv
  <2>1. CASE a = b
    <3>1. PICK m \in BOOLEAN : m = (pl[b] = "push") OBVIOUS
    <3> QED BY <1>6, <1>9, <1>11, <2>1, <3>1
  <2>2. CASE a # b BY <1>3, <1>4, <1>10, <2>2 DEF BranchInv
  <2> QED BY <2>1, <2>2
<1>13. (StartOut' <=> StartOut) /\ (TermOut' <=> TermOut) /\ (CopyFree' <=> CopyFree) BY <1>1, OutSame DEF CopyFree
<1>14. AtHead(pl)' = AtHead(pl) BY <1>13 DEF AtHead
<1>15. CopyInv(pl, kk)' BY <1>1, <1>3, <1>13 DEF CopyInv
<1>16. EndInv(pl, kk)' BY <1>1, <1>3, <1>13 DEF EndInv
<1> QED BY <1>1, <1>3, <1>4, <1>12, <1>14, <1>15, <1>16 DEF SyncInv

\* A branch pushes a frame to fan_in. After the terminal frame it has returned.
LEMMA SyncPush ==
  ASSUME BlockTypes, NEW pl, NEW kk, NEW ls, NEW ln, SyncInv(pl, kk, ls, ln), NEW b \in Branches, BranchPush(b)
  PROVE  \E p2 \in [Branches -> Places], l2, n2 \in Seq(Branches) : SyncInv(p2, kk, l2, n2)'
<1>0. PICK f : f = Head(pushes[b]) OBVIOUS
<1>1. UNCHANGED <<ids, copying, seenIds, pending, buffer, flushing, out>> BY DEF BranchPush, fanInVars
<1>2. /\ f \in BlockFrame /\ pushes[b] # <<>> /\ pushes'[b] = Tail(pushes[b])
      /\ \A a \in Branches : a # b => pushes'[a] = pushes[a]
      /\ live' = (IF Terminal(f.kind) THEN live \ {b} ELSE live)
      /\ \A d \in Channels : d # "fanin" =>
           \/ sys'[d] = sys[d] /\ norm'[d] = norm[d]
           \/ sys'[d] = <<>> /\ norm'[d] = <<>>
      /\ \/ f \in SysFrame /\ sys'["fanin"] = Append(sys["fanin"], f) /\ norm'["fanin"] = norm["fanin"]
         \/ f \in NormFrame /\ norm'["fanin"] = Append(norm["fanin"], f) /\ sys'["fanin"] = sys["fanin"]
  BY <1>0, PushFacts
<1>3. /\ pl \in [Branches -> Places] /\ kk \in Lifecycle
      /\ Carries(sys["head"], kk, AtHead(pl)) /\ Carries(norm["head"], kk, AtHead(pl))
      /\ CopyInv(pl, kk) /\ BranchInv(pl, kk) /\ EndInv(pl, kk)
      /\ Labelled(sys["fanin"], ls, kk, pl) /\ Labelled(norm["fanin"], ln, kk, pl)
      /\ pending.kind \in {"none", kk} /\ pending.count = Cardinality(DoneSet(pl))
  BY DEF SyncInv
<1>4. /\ sys'["head"] \in {sys["head"], <<>>} /\ norm'["head"] \in {norm["head"], <<>>}
      /\ \A a \in Branches : sys'[a] \in {sys[a], <<>>} /\ norm'[a] \in {norm[a], <<>>}
  BY <1>2, ChannelsOfBlock
<1>5. /\ sys["fanin"] \in Seq(SysFrame) /\ norm["fanin"] \in Seq(NormFrame) /\ pushes[b] \in Seq(BlockFrame)
  BY ChannelsOfBlock DEF BlockTypes
<1>6. ls \in Seq(Branches) /\ ln \in Seq(Branches) BY <1>3 DEF Labelled
<1>7. live' \subseteq live BY <1>2
<1>8. ASSUME NEW a \in Branches, NEW m \in BOOLEAN, NEW m2 \in BOOLEAN, m => m2,
             Carries(sys[a], kk, m), Carries(norm[a], kk, m)
      PROVE  (Carries(sys[a], kk, m2) /\ Carries(norm[a], kk, m2))'
  <2>1. Carries(sys[a], kk, m2) /\ Carries(norm[a], kk, m2) /\ Carries(<<>>, kk, m2) BY <1>8, CarryMore, CarryEmpty
  <2> QED BY <1>4, <2>1
<1>9. ASSUME NEW p2 \in [Branches -> Places], \A a \in Branches : pl[a] = "fanin" => p2[a] = "fanin",
             IsLifecycle(f) => f.kind = kk /\ pl[b] # "fanin" /\ p2[b] = "fanin"
      PROVE  \E l2, n2 \in Seq(Branches) : (Labelled(sys["fanin"], l2, kk, p2) /\ Labelled(norm["fanin"], n2, kk, p2))'
  <2>1. CASE f \in SysFrame /\ sys'["fanin"] = Append(sys["fanin"], f) /\ norm'["fanin"] = norm["fanin"]
    <3>1. Labelled(Append(sys["fanin"], f), Append(ls, b), kk, p2) BY <1>3, <1>5, <1>9, <2>1, LabelAppend
    <3>2. Labelled(norm["fanin"], ln, kk, p2) BY <1>3, <1>9, LabelMove
    <3>3. Append(ls, b) \in Seq(Branches) BY <1>6, AppendProperties
    <3>4. PICK l2 \in Seq(Branches) : l2 = Append(ls, b) BY <3>3
    <3>5. (Labelled(sys["fanin"], l2, kk, p2) /\ Labelled(norm["fanin"], ln, kk, p2))' BY <2>1, <3>1, <3>2, <3>4
    <3> QED BY <1>6, <3>5
  <2>2. CASE f \in NormFrame /\ norm'["fanin"] = Append(norm["fanin"], f) /\ sys'["fanin"] = sys["fanin"]
    <3>1. Labelled(Append(norm["fanin"], f), Append(ln, b), kk, p2) BY <1>3, <1>5, <1>9, <2>2, LabelAppend
    <3>2. Labelled(sys["fanin"], ls, kk, p2) BY <1>3, <1>9, LabelMove
    <3>3. Append(ln, b) \in Seq(Branches) BY <1>6, AppendProperties
    <3>4. PICK n2 \in Seq(Branches) : n2 = Append(ln, b) BY <3>3
    <3>5. (Labelled(sys["fanin"], ls, kk, p2) /\ Labelled(norm["fanin"], n2, kk, p2))' BY <2>2, <3>1, <3>2, <3>4
    <3> QED BY <1>6, <3>5
  <2> QED BY <1>2, <2>1, <2>2
<1>10. PICK pm \in BOOLEAN : pm = (pl[b] = "push") OBVIOUS
<1>11. Carries(pushes[b], kk, pm) BY <1>3, <1>10 DEF BranchInv
<1>12. CASE ~ IsLifecycle(f)
  <2>1. live' = live BY <1>2, <1>12, LifecycleKinds DEF IsLifecycle
  <2>2. (StartOut' <=> StartOut) /\ (TermOut' <=> TermOut) /\ (CopyFree' <=> CopyFree) BY <1>1, OutSame DEF CopyFree
  <2>3. AtHead(pl)' = AtHead(pl) BY <2>2 DEF AtHead
  <2>4. PICK m \in BOOLEAN : m = AtHead(pl) BY DEF AtHead
  <2>5. (Carries(sys["head"], kk, m) /\ Carries(norm["head"], kk, m))'
    <3>1. Carries(sys["head"], kk, m) /\ Carries(norm["head"], kk, m) /\ Carries(<<>>, kk, m) BY <1>3, <2>4, CarryEmpty
    <3> QED BY <1>4, <3>1
  <2>6. CopyInv(pl, kk)' BY <1>1, <1>3, <2>2 DEF CopyInv
  <2>7. EndInv(pl, kk)' BY <1>3, <2>1, <2>2 DEF EndInv
  <2>8. Carries(Tail(pushes[b]), kk, pm) BY <1>0, <1>2, <1>5, <1>11, <1>12, CarryTail
  <2>9. BranchInv(pl, kk)'
    <3> SUFFICES ASSUME NEW a \in Branches
                 PROVE  (/\ Carries(sys[a], kk, pl[a] = "chan") /\ Carries(norm[a], kk, pl[a] = "chan")
                         /\ Carries(pushes[a], kk, pl[a] = "push"))'
      BY DEF BranchInv
    <3>1. PICK c \in BOOLEAN : c = (pl[a] = "chan") OBVIOUS
    <3>2. Carries(sys[a], kk, c) /\ Carries(norm[a], kk, c) BY <1>3, <3>1 DEF BranchInv
    <3>3. (Carries(sys[a], kk, c) /\ Carries(norm[a], kk, c))' BY <1>8, <3>2
    <3>4. Carries(pushes[a], kk, pl[a] = "push")'
      <4>1. CASE a = b BY <1>2, <1>10, <2>8, <4>1
      <4>2. CASE a # b BY <1>2, <1>3, <4>2 DEF BranchInv
      <4> QED BY <4>1, <4>2
    <3> QED BY <3>1, <3>3, <3>4
  <2>10. PICK l2 \in Seq(Branches), n2 \in Seq(Branches) :
           (Labelled(sys["fanin"], l2, kk, pl) /\ Labelled(norm["fanin"], n2, kk, pl))'
    BY <1>3, <1>9, <1>12
  <2>11. SyncInv(pl, kk, l2, n2)' BY <1>1, <1>3, <2>3, <2>4, <2>5, <2>6, <2>7, <2>9, <2>10 DEF SyncInv
  <2> QED BY <1>3, <2>11
<1>13. CASE IsLifecycle(f)
  <2>1. f.kind = kk /\ pl[b] = "push" /\ Carries(Tail(pushes[b]), kk, FALSE)
    BY <1>0, <1>2, <1>5, <1>10, <1>11, <1>13, CarryTail
  <2>2. PICK p2 : p2 = [pl EXCEPT ![b] = "fanin"] OBVIOUS
  <2>3. p2 \in [Branches -> Places] /\ p2[b] = "fanin" /\ \A a \in Branches : a # b => p2[a] = pl[a]
    BY <1>3, <2>2 DEF Places
  <2>4. Moves(pl, p2, b) BY <2>1, <2>3 DEF Moves
  <2>5. UpInv(pl, kk) BY <1>3 DEF UpInv
  <2>6. StartOut => b \notin live'
    <3> SUFFICES ASSUME StartOut PROVE b \notin live' OBVIOUS
    <3>1. Terminal(f.kind) BY <1>3, <2>1, LifecycleKinds DEF EndInv
    <3> QED BY <1>2, <3>1
  <2>7. UpInv(p2, kk)' /\ DoneSet(p2) = DoneSet(pl) /\ \A a \in Branches : pl[a] = "fanin" => p2[a] = "fanin"
    <3>1. copying' = copying /\ flushing' = flushing /\ out' = out BY <1>1
    <3> QED BY <1>3, <1>4, <1>7, <2>3, <2>4, <2>5, <2>6, <3>1, SyncMove
  <2>8. BranchInv(p2, kk)'
    <3> SUFFICES ASSUME NEW a \in Branches
                 PROVE  (/\ Carries(sys[a], kk, p2[a] = "chan") /\ Carries(norm[a], kk, p2[a] = "chan")
                         /\ Carries(pushes[a], kk, p2[a] = "push"))'
      BY DEF BranchInv
    <3>1. PICK c \in BOOLEAN : c = (pl[a] = "chan") OBVIOUS
    <3>2. Carries(sys[a], kk, c) /\ Carries(norm[a], kk, c) BY <1>3, <3>1 DEF BranchInv
    <3>3. c = (p2[a] = "chan") BY <2>1, <2>3, <3>1
    <3>4. (Carries(sys[a], kk, c) /\ Carries(norm[a], kk, c))' BY <1>8, <3>2
    <3>5. Carries(pushes[a], kk, p2[a] = "push")'
      <4>1. CASE a = b
        <5>1. (p2[b] = "push") = FALSE BY <2>3
        <5> QED BY <1>2, <2>1, <4>1, <5>1
      <4>2. CASE a # b BY <1>2, <1>3, <2>3, <4>2 DEF BranchInv
      <4> QED BY <4>1, <4>2
    <3> QED BY <3>3, <3>4, <3>5
  <2>9. PICK l2 \in Seq(Branches), n2 \in Seq(Branches) :
           (Labelled(sys["fanin"], l2, kk, p2) /\ Labelled(norm["fanin"], n2, kk, p2))'
    BY <1>9, <2>1, <2>3, <2>7
  <2>10. SyncInv(p2, kk, l2, n2)' BY <1>1, <1>3, <2>3, <2>7, <2>8, <2>9 DEF SyncInv, UpInv
  <2> QED BY <2>3, <2>10
<1> QED BY <1>12, <1>13

\* A lifecycle frame that fan_in takes is the one under way, from a branch that was not counted
\* yet, and it has not been let through before.
LEMMA SyncReceives ==
  ASSUME BlockTypes, NEW pl, NEW kk, NEW ls, NEW ln, SyncInv(pl, kk, ls, ln), FanInSync, NEW f, f = Received("fanin")
  PROVE  /\ f.kind = kk /\ pending.kind \in {"none", f.kind} /\ f \notin Range(out)
         /\ \E b \in Branches, p1 \in [Branches -> Places], l2, n2 \in Seq(Branches) :
              /\ pl[b] = "fanin" /\ p1[b] = "done" /\ \A a \in Branches : a # b => p1[a] = pl[a]
              /\ (Labelled(sys["fanin"], l2, kk, p1) /\ Labelled(norm["fanin"], n2, kk, p1))'
<1>1. /\ f \in BlockFrame /\ IsLifecycle(f) /\ Waiting("fanin") /\ Receive("fanin")
  BY SyncFacts
<1>2. \/ /\ f.kind \in SystemKinds /\ sys["fanin"] # <<>> /\ f = Head(sys["fanin"])
         /\ sys'["fanin"] = Tail(sys["fanin"]) /\ norm'["fanin"] = norm["fanin"]
      \/ /\ f.kind \notin SystemKinds /\ norm["fanin"] # <<>> /\ f = Head(norm["fanin"])
         /\ norm'["fanin"] = Tail(norm["fanin"]) /\ sys'["fanin"] = sys["fanin"]
  BY <1>1, BlockReceive, ChannelsOfBlock
<1>3. /\ pl \in [Branches -> Places] /\ kk \in Lifecycle /\ EndInv(pl, kk)
      /\ Labelled(sys["fanin"], ls, kk, pl) /\ Labelled(norm["fanin"], ln, kk, pl)
      /\ pending.kind \in {"none", kk}
  BY DEF SyncInv
<1>4. sys["fanin"] \in Seq(SysFrame) /\ norm["fanin"] \in Seq(NormFrame) BY ChannelsOfBlock DEF BlockTypes
<1>5. ls \in Seq(Branches) /\ ln \in Seq(Branches) /\ Len(ls) = Len(sys["fanin"]) /\ Len(ln) = Len(norm["fanin"])
  BY <1>3 DEF Labelled
<1>6. f.kind = kk /\ \E b \in Branches, p1 \in [Branches -> Places], l2, n2 \in Seq(Branches) :
              /\ pl[b] = "fanin" /\ p1[b] = "done" /\ \A a \in Branches : a # b => p1[a] = pl[a]
              /\ (Labelled(sys["fanin"], l2, kk, p1) /\ Labelled(norm["fanin"], n2, kk, p1))'
  <2>1. CASE /\ f.kind \in SystemKinds /\ sys["fanin"] # <<>> /\ f = Head(sys["fanin"])
             /\ sys'["fanin"] = Tail(sys["fanin"]) /\ norm'["fanin"] = norm["fanin"]
    <3>1. /\ f.kind = kk /\ Head(ls) \in Branches /\ pl[Head(ls)] = "fanin"
          /\ Labelled(Tail(sys["fanin"]), Tail(ls), kk, [pl EXCEPT ![Head(ls)] = "done"])
      BY <1>1, <1>3, <1>4, <2>1, LabelTail, ZenonT(60)
    <3>2. PICK b \in Branches : b = Head(ls) BY <3>1
    <3>3. PICK p1 : p1 = [pl EXCEPT ![b] = "done"] OBVIOUS
    <3>4. p1 \in [Branches -> Places] /\ p1[b] = "done" /\ \A a \in Branches : a # b => p1[a] = pl[a]
      BY <1>3, <3>3 DEF Places
    <3>5. ls # <<>> BY <1>4, <1>5, <2>1, EmptySeq
    <3>6. Tail(ls) \in Seq(Branches) BY <1>5, <3>5, HeadTailProperties
    <3>7. PICK l2 \in Seq(Branches) : l2 = Tail(ls) BY <3>6
    <3>8. \A k \in 1 .. Len(norm["fanin"]) : norm["fanin"][k].kind # kk BY <1>4, <2>1, <3>1, OtherClass
    <3>9. Labelled(norm["fanin"], ln, kk, p1) BY <1>3, <3>8, LabelOther
    <3>10. (Labelled(sys["fanin"], l2, kk, p1) /\ Labelled(norm["fanin"], ln, kk, p1))'
      BY <2>1, <3>1, <3>2, <3>3, <3>7, <3>9
    <3> QED BY <1>5, <3>1, <3>2, <3>4, <3>10
  <2>2. CASE /\ f.kind \notin SystemKinds /\ norm["fanin"] # <<>> /\ f = Head(norm["fanin"])
             /\ norm'["fanin"] = Tail(norm["fanin"]) /\ sys'["fanin"] = sys["fanin"]
    <3>1. /\ f.kind = kk /\ Head(ln) \in Branches /\ pl[Head(ln)] = "fanin"
          /\ Labelled(Tail(norm["fanin"]), Tail(ln), kk, [pl EXCEPT ![Head(ln)] = "done"])
      BY <1>1, <1>3, <1>4, <2>2, LabelTail, ZenonT(60)
    <3>2. PICK b \in Branches : b = Head(ln) BY <3>1
    <3>3. PICK p1 : p1 = [pl EXCEPT ![b] = "done"] OBVIOUS
    <3>4. p1 \in [Branches -> Places] /\ p1[b] = "done" /\ \A a \in Branches : a # b => p1[a] = pl[a]
      BY <1>3, <3>3 DEF Places
    <3>5. ln # <<>> BY <1>4, <1>5, <2>2, EmptySeq
    <3>6. Tail(ln) \in Seq(Branches) BY <1>5, <3>5, HeadTailProperties
    <3>7. PICK n2 \in Seq(Branches) : n2 = Tail(ln) BY <3>6
    <3>8. \A k \in 1 .. Len(sys["fanin"]) : sys["fanin"][k].kind # kk BY <1>4, <2>2, <3>1, OtherClass
    <3>9. Labelled(sys["fanin"], ls, kk, p1) BY <1>3, <3>8, LabelOther
    <3>10. (Labelled(sys["fanin"], ls, kk, p1) /\ Labelled(norm["fanin"], n2, kk, p1))'
      BY <2>2, <3>1, <3>2, <3>3, <3>7, <3>9
    <3> QED BY <1>5, <3>1, <3>2, <3>4, <3>10
  <2> QED BY <1>2, <2>1, <2>2
<1>7. ~ TermOut /\ (kk = "Start" => ~ StartOut) BY <1>3, <1>6 DEF EndInv, AllBefore
<1>8. f \notin Range(out)
  <2> SUFFICES ASSUME f \in Range(out) PROVE FALSE OBVIOUS
  <2>1. CASE kk = "Start" BY <1>6, <1>7, <2>1 DEF StartOut
  <2>2. CASE kk # "Start"
    <3>1. Terminal(f.kind) BY <1>3, <1>6, <2>2, LifecycleKinds
    <3> QED BY <1>7, <3>1 DEF TermOut
  <2> QED BY <2>1, <2>2
<1> QED BY <1>3, <1>6, <1>8

\* Counting one more branch.
LEMMA DoneOneMore ==
  ASSUME NEW pl \in [Branches -> Places], NEW p1 \in [Branches -> Places], NEW b \in Branches,
         pl[b] = "fanin", p1[b] = "done", \A a \in Branches : a # b => p1[a] = pl[a]
  PROVE  Cardinality(DoneSet(p1)) = Cardinality(DoneSet(pl)) + 1
<1>1. DoneSet(p1) = DoneSet(pl) \cup {b} /\ b \notin DoneSet(pl) BY DEF DoneSet
<1>2. IsFiniteSet(DoneSet(pl)) BY DoneSetFacts
<1> QED BY <1>1, <1>2, FS_AddElement

\* fan_in counts a lifecycle frame.
LEMMA SyncCount ==
  ASSUME BlockTypes, EmitInv, NEW pl, NEW kk, NEW ls, NEW ln, SyncInv(pl, kk, ls, ln), FanInSync
  PROVE  \E p2 \in [Branches -> Places], k2 \in Lifecycle, l2, n2 \in Seq(Branches) : SyncInv(p2, k2, l2, n2)'
<1>0. PICK f : f = Received("fanin") OBVIOUS
<1>1. /\ f \in BlockFrame /\ IsLifecycle(f) /\ flushing = <<>> /\ Waiting("fanin") /\ Receive("fanin")
      /\ UNCHANGED <<ids, copying, live, pushes, seenIds, out>>
  BY <1>0, SyncFacts
<1>2. \A d \in Channels : d # "fanin" => sys'[d] = sys[d] /\ norm'[d] = norm[d]
  BY <1>1, BlockReceive, ChannelsOfBlock
<1>3. /\ pl \in [Branches -> Places] /\ kk \in Lifecycle
      /\ Carries(sys["head"], kk, AtHead(pl)) /\ Carries(norm["head"], kk, AtHead(pl))
      /\ CopyInv(pl, kk) /\ BranchInv(pl, kk) /\ EndInv(pl, kk)
      /\ pending.kind \in {"none", kk} /\ pending.count = Cardinality(DoneSet(pl))
  BY DEF SyncInv
<1>4. f.kind = kk /\ pending.kind \in {"none", f.kind} BY <1>0, SyncReceives
<1>5. PICK b \in Branches, p1 \in [Branches -> Places], l2 \in Seq(Branches), n2 \in Seq(Branches) :
              /\ pl[b] = "fanin" /\ p1[b] = "done" /\ \A a \in Branches : a # b => p1[a] = pl[a]
              /\ (Labelled(sys["fanin"], l2, kk, p1) /\ Labelled(norm["fanin"], n2, kk, p1))'
  BY <1>0, SyncReceives
<1>6. Cardinality(DoneSet(p1)) = pending.count + 1 BY <1>3, <1>5, DoneOneMore
<1>7. /\ sys'["head"] = sys["head"] /\ norm'["head"] = norm["head"]
      /\ \A a \in Branches : sys'[a] = sys[a] /\ norm'[a] = norm[a]
  BY <1>2, ChannelsOfBlock
<1>8. ~ AllBefore(pl) BY <1>5 DEF AllBefore
<1>9. AtHead(pl) = FALSE BY <1>8 DEF AtHead
<1>10. ASSUME NEW k2, NEW m \in BOOLEAN PROVE (Carries(sys["head"], k2, m) /\ Carries(norm["head"], k2, m))'
  <2>1. Carries(sys["head"], kk, FALSE) /\ Carries(norm["head"], kk, FALSE) BY <1>3, <1>9
  <2>2. Carries(sys["head"], k2, m) /\ Carries(norm["head"], k2, m) BY <2>1, CarryNone
  <2> QED BY <1>7, <2>2
<1>11. ~ TermOut BY <1>3, <1>8 DEF EndInv
<1>12. copying \in Seq([frame : BlockFrame, to : Branches]) /\ CopyFree' = CopyFree BY <1>1 DEF BlockTypes, CopyFree
<1>13. ASSUME NEW k \in 1 .. Len(copying), IsLifecycle(copying[k].frame)
       PROVE  copying[k].to \in Branches /\ copying[k].to # b /\ p1[copying[k].to] = "before" /\ copying[k].frame.kind = kk
  <2>1. pl[copying[k].to] = "before" /\ copying[k].frame.kind = kk BY <1>3, <1>13 DEF CopyInv
  <2>2. copying[k] \in [frame : BlockFrame, to : Branches] BY <1>12, ElementOfSeq
  <2>3. copying[k].to \in Branches /\ copying[k].to # b BY <1>5, <2>1, <2>2
  <2> QED BY <1>5, <2>1, <2>3
<1>14. CASE /\ pending' = [kind |-> f.kind, count |-> pending.count + 1] /\ flushing' = <<>>
  <2>1. (StartOut' <=> StartOut) /\ (TermOut' <=> TermOut) BY <1>1, <1>14, OutSame
  <2>2. PICK m \in BOOLEAN : m = AtHead(p1)' BY DEF AtHead
  <2>3. (Carries(sys["head"], kk, m) /\ Carries(norm["head"], kk, m))' BY <1>10
  <2>4. CopyInv(p1, kk)' BY <1>1, <1>3, <1>11, <1>13, <2>1 DEF CopyInv
  <2>5. BranchInv(p1, kk)'
    <3> SUFFICES ASSUME NEW a \in Branches
                 PROVE  (/\ Carries(sys[a], kk, p1[a] = "chan") /\ Carries(norm[a], kk, p1[a] = "chan")
                         /\ Carries(pushes[a], kk, p1[a] = "push"))'
      BY DEF BranchInv
    <3>1. (p1[a] = "chan") = (pl[a] = "chan") /\ (p1[a] = "push") = (pl[a] = "push") BY <1>5
    <3> QED BY <1>1, <1>3, <1>7, <3>1 DEF BranchInv
  <2>6. EndInv(p1, kk)'
    <3>1. (kk = "Start") <=> ~ StartOut' BY <1>3, <2>1 DEF EndInv
    <3>2. ~ TermOut' BY <1>11, <2>1
    <3>3. ASSUME StartOut', NEW a \in Branches, p1[a] \in {"fanin", "done"} PROVE a \notin live'
      <4>1. pl[a] \in {"fanin", "done"} BY <1>5, <3>3
      <4> QED BY <1>1, <1>3, <2>1, <3>3, <4>1 DEF EndInv
    <3>4. ASSUME StartOut' PROVE "head" \notin live' \/ ~ CopyFree' BY <1>1, <1>3, <1>8, <1>12, <2>1, <3>4 DEF EndInv
    <3> QED BY <3>1, <3>2, <3>3, <3>4 DEF EndInv
  <2>7. pending'.kind = kk /\ pending'.count = Cardinality(DoneSet(p1)) BY <1>4, <1>6, <1>14
  <2>8. SyncInv(p1, kk, l2, n2)' BY <1>3, <1>5, <2>2, <2>3, <2>4, <2>5, <2>6, <2>7 DEF SyncInv
  <2> QED BY <1>3, <1>5, <2>8
<1>15. CASE /\ pending.count + 1 >= Cardinality(Branches) /\ pending' = NoLifecycle /\ flushing' = <<f>> \o buffer
  <2>1. \A a \in Branches : p1[a] = "done" BY <1>5, <1>6, <1>15, DoneSetFacts
  <2>2. \A a \in Branches : pl[a] \in {"fanin", "done"} BY <1>5, <2>1
  <2>3. CopyFree BY <1>13, <2>1 DEF CopyFree
  <2>4. PICK p0 : p0 = [a \in Branches |-> "before"] OBVIOUS
  <2>5. p0 \in [Branches -> Places] /\ AllBefore(p0) BY <2>4 DEF Places, AllBefore
  <2>6. PICK k2 : k2 = IF kk = "Start" THEN "End" ELSE kk OBVIOUS
  <2>7. k2 \in Lifecycle /\ k2 # "Start" BY <1>3, <2>6 DEF Lifecycle
  <2>8. PICK m \in BOOLEAN : m = AtHead(p0)' BY DEF AtHead
  <2>9. (Carries(sys["head"], k2, m) /\ Carries(norm["head"], k2, m))' BY <1>10
  <2>10. CopyInv(p0, k2)' BY <1>1, <1>3, <2>3 DEF CopyInv, CopyFree
  <2>11. BranchInv(p0, k2)'
    <3> SUFFICES ASSUME NEW a \in Branches
                 PROVE  /\ Carries(sys[a], k2, p0[a] = "chan") /\ Carries(norm[a], k2, p0[a] = "chan")
                        /\ Carries(pushes[a], k2, p0[a] = "push")
      BY <1>1, <1>7 DEF BranchInv
    <3>1. (pl[a] = "chan") = FALSE /\ (pl[a] = "push") = FALSE BY <2>2
    <3>2. Carries(sys[a], kk, FALSE) /\ Carries(norm[a], kk, FALSE) /\ Carries(pushes[a], kk, FALSE)
      BY <1>3, <3>1 DEF BranchInv
    <3>3. (p0[a] = "chan") = FALSE /\ (p0[a] = "push") = FALSE BY <2>4
    <3> QED BY <3>2, <3>3, CarryNone
  <2>12. Range(flushing') = {f} \cup Range(buffer)
    <3>1. buffer \in Seq(BlockFrame) BY DEF BlockTypes, FanInTypeOK
    <3> QED BY <1>1, <1>15, <3>1, RangePrefix
  <2>13. Range(flushing) = {} BY <1>1, RangeNone
  <2>14. StartOut'
    <3>1. CASE kk = "Start" BY <1>4, <2>12, <3>1 DEF StartOut
    <3>2. CASE kk # "Start"
      <4>1. StartOut BY <1>3, <3>2 DEF EndInv
      <4> QED BY <1>1, <2>13, <4>1 DEF StartOut
    <3> QED BY <3>1, <3>2
  <2>15. ASSUME TermOut' PROVE kk # "Start"
    <3>1. PICK g \in Range(out') \cup Range(flushing') : Terminal(g.kind) BY <2>15 DEF TermOut
    <3>2. g \notin Range(out) BY <1>11, <3>1 DEF TermOut
    <3>3. g \notin Range(buffer) BY <3>1, LifecycleKinds DEF EmitInv, IsLifecycle
    <3>4. g = f BY <1>1, <2>12, <3>1, <3>2, <3>3
    <3> QED BY <1>4, <3>1, <3>4, LifecycleKinds
  <2>16. ASSUME kk # "Start" PROVE "head" \notin live /\ live \cap Branches = {}
    <3>1. StartOut BY <1>3, <2>16 DEF EndInv
    <3>2. \A a \in Branches : a \notin live BY <1>3, <2>2, <3>1 DEF EndInv
    <3>3. "head" \notin live BY <1>3, <1>8, <2>3, <3>1 DEF EndInv
    <3> QED BY <3>2, <3>3
  <2>17. EndInv(p0, k2)'
    <3>1. \A a \in Branches : p0[a] \notin {"fanin", "done"} BY <2>4
    <3> QED BY <1>1, <2>5, <2>7, <2>14, <2>15, <2>16, <3>1 DEF EndInv
  <2>18. \A a \in Branches : p1[a] # "fanin" BY <2>1
  <2>19. (Labelled(sys["fanin"], l2, k2, p0) /\ Labelled(norm["fanin"], n2, k2, p0))' BY <1>5, <2>18, LabelFree
  <2>20. pending'.kind = "none" /\ pending'.count = Cardinality(DoneSet(p0)) BY <1>15, <2>5, DoneSetFacts DEF NoLifecycle
  <2>21. SyncInv(p0, k2, l2, n2)' BY <2>5, <2>7, <2>8, <2>9, <2>10, <2>11, <2>17, <2>19, <2>20 DEF SyncInv
  <2> QED BY <1>5, <2>5, <2>7, <2>21
<1> QED BY <1>0, <1>4, <1>14, <1>15, SyncFacts

\* The rest of fan_in lets no lifecycle frame through.
LEMMA SyncOther ==
  ASSUME BlockTypes, EmitInv, NEW pl, NEW kk, NEW ls, NEW ln, SyncInv(pl, kk, ls, ln), FanInOutput \/ FanInSend
  PROVE  \E l2, n2 \in Seq(Branches) : SyncInv(pl, kk, l2, n2)'
<1>1. UNCHANGED <<copying, live, pushes, pending>> BY DEF FanInOutput, FanInSend
<1>2. /\ pl \in [Branches -> Places] /\ kk \in Lifecycle
      /\ Carries(sys["head"], kk, AtHead(pl)) /\ Carries(norm["head"], kk, AtHead(pl))
      /\ CopyInv(pl, kk) /\ BranchInv(pl, kk) /\ EndInv(pl, kk)
      /\ Labelled(sys["fanin"], ls, kk, pl) /\ Labelled(norm["fanin"], ln, kk, pl)
      /\ pending.kind \in {"none", kk} /\ pending.count = Cardinality(DoneSet(pl))
  BY DEF SyncInv
<1>3. (StartOut' <=> StartOut) /\ (TermOut' <=> TermOut)
  <2>1. CASE FanInSend BY <2>1, EmitSend DEF StartOut, TermOut
  <2>2. CASE FanInOutput
    <3>1. out' = out /\ flushing = <<>> BY <2>2 DEF FanInOutput, FanInReady
    <3>2. Range(flushing) = {} BY <3>1, RangeNone
    <3>3. \A g \in Range(out') \cup Range(flushing') : IsLifecycle(g) => g \in Range(out) BY <2>2, EmitOutput
    <3>4. StartOut' <=> StartOut BY <3>1, <3>2, <3>3 DEF StartOut, IsLifecycle, Lifecycle
    <3>5. TermOut' <=> TermOut BY <3>1, <3>2, <3>3, LifecycleKinds DEF TermOut, IsLifecycle
    <3> QED BY <3>4, <3>5
  <2> QED BY <2>1, <2>2
<1>4. /\ sys'["head"] = sys["head"] /\ norm'["head"] = norm["head"]
      /\ \A a \in Branches : sys'[a] = sys[a] /\ norm'[a] = norm[a]
      /\ \E l2, n2 \in Seq(Branches) : (Labelled(sys["fanin"], l2, kk, pl) /\ Labelled(norm["fanin"], n2, kk, pl))'
  <2>0. ls \in Seq(Branches) /\ ln \in Seq(Branches) /\ Len(ls) = Len(sys["fanin"]) /\ Len(ln) = Len(norm["fanin"])
    BY <1>2 DEF Labelled
  <2>1. CASE FanInSend BY <1>2, <2>0, <2>1 DEF FanInSend, chans
  <2>2. CASE FanInOutput
    <3>0. PICK f : f = Received("fanin") OBVIOUS
    <3>1. Waiting("fanin") /\ Receive("fanin") /\ ~ IsLifecycle(f)
      BY <2>2, <3>0 DEF FanInOutput, FanInReady, IsLifecycle, Lifecycle
    <3>2. /\ \A d \in Channels : d # "fanin" => sys'[d] = sys[d] /\ norm'[d] = norm[d]
          /\ \/ /\ sys["fanin"] # <<>> /\ f = Head(sys["fanin"])
                /\ sys'["fanin"] = Tail(sys["fanin"]) /\ norm'["fanin"] = norm["fanin"]
             \/ /\ norm["fanin"] # <<>> /\ f = Head(norm["fanin"])
                /\ norm'["fanin"] = Tail(norm["fanin"]) /\ sys'["fanin"] = sys["fanin"]
      BY <3>0, <3>1, BlockReceive, ChannelsOfBlock
    <3>3. sys["fanin"] \in Seq(SysFrame) /\ norm["fanin"] \in Seq(NormFrame) BY ChannelsOfBlock DEF BlockTypes
    <3>4. CASE /\ sys["fanin"] # <<>> /\ f = Head(sys["fanin"])
               /\ sys'["fanin"] = Tail(sys["fanin"]) /\ norm'["fanin"] = norm["fanin"]
      <4>1. Labelled(Tail(sys["fanin"]), Tail(ls), kk, pl) BY <1>2, <3>1, <3>3, <3>4, LabelTail
      <4>2. ls # <<>> BY <2>0, <3>3, <3>4, EmptySeq
      <4>3. PICK l2 \in Seq(Branches) : l2 = Tail(ls) BY <2>0, <4>2, HeadTailProperties
      <4>4. (Labelled(sys["fanin"], l2, kk, pl) /\ Labelled(norm["fanin"], ln, kk, pl))' BY <1>2, <3>4, <4>1, <4>3
      <4> QED BY <2>0, <3>2, <4>4, ChannelsOfBlock
    <3>5. CASE /\ norm["fanin"] # <<>> /\ f = Head(norm["fanin"])
               /\ norm'["fanin"] = Tail(norm["fanin"]) /\ sys'["fanin"] = sys["fanin"]
      <4>1. Labelled(Tail(norm["fanin"]), Tail(ln), kk, pl) BY <1>2, <3>1, <3>3, <3>5, LabelTail
      <4>2. ln # <<>> BY <2>0, <3>3, <3>5, EmptySeq
      <4>3. PICK n2 \in Seq(Branches) : n2 = Tail(ln) BY <2>0, <4>2, HeadTailProperties
      <4>4. (Labelled(sys["fanin"], ls, kk, pl) /\ Labelled(norm["fanin"], n2, kk, pl))' BY <1>2, <3>5, <4>1, <4>3
      <4> QED BY <2>0, <3>2, <4>4, ChannelsOfBlock
    <3> QED BY <3>2, <3>4, <3>5
  <2> QED BY <2>1, <2>2
<1>5. PICK l2 \in Seq(Branches), n2 \in Seq(Branches) :
        (Labelled(sys["fanin"], l2, kk, pl) /\ Labelled(norm["fanin"], n2, kk, pl))'
  BY <1>4
<1>6. CopyFree' <=> CopyFree BY <1>1 DEF CopyFree
<1>7. AtHead(pl)' = AtHead(pl) BY <1>3, <1>6 DEF AtHead
<1>8. CopyInv(pl, kk)' BY <1>1, <1>2, <1>3 DEF CopyInv
<1>9. BranchInv(pl, kk)' BY <1>1, <1>2, <1>4 DEF BranchInv
<1>10. EndInv(pl, kk)' BY <1>1, <1>2, <1>3, <1>6 DEF EndInv
<1>11. SyncInv(pl, kk, l2, n2)' BY <1>1, <1>2, <1>4, <1>5, <1>7, <1>8, <1>9, <1>10 DEF SyncInv
<1> QED BY <1>11

\* The block starts with its Start at the head.
LEMMA BlockStarts == ParallelInit => BlockInv
<1> SUFFICES ASSUME ParallelInit PROVE BlockInv OBVIOUS
<1>1. /\ sys = [c \in Channels |-> IF c = "head" THEN <<[kind |-> "Start", id |-> 1]>> ELSE <<>>]
      /\ norm = [c \in Channels |-> <<>>] /\ ids = 1 /\ copying = <<>>
      /\ live = Branches \cup {"head", "fanin"} /\ pushes = [b \in Branches |-> <<>>]
      /\ seenIds = {} /\ pending = NoLifecycle /\ buffer = <<>> /\ flushing = <<>> /\ out = <<>>
  BY DEF ParallelInit
<1>2. PICK f : f = [kind |-> "Start", id |-> 1] OBVIOUS
<1>3. f \in SysFrame /\ f.kind = "Start" /\ 1 \in 1 .. MaxIds
  <2>1. 1 \in 1 .. MaxIds BY ParallelAssumption
  <2>2. f \in BlockFrame BY <1>2, <2>1 DEF BlockFrame, Lifecycle
  <2> QED BY <1>2, <2>1, <2>2 DEF SysFrame, SystemKinds
<1>4. /\ sys["head"] = <<f>> /\ norm["head"] = <<>> /\ sys["fanin"] = <<>> /\ norm["fanin"] = <<>>
      /\ \A b \in Branches : sys[b] = <<>> /\ norm[b] = <<>> /\ pushes[b] = <<>>
  BY <1>1, <1>2, ChannelsOfBlock
<1>5. BlockTypes
  <2>1. <<f>> \in Seq(SysFrame) /\ <<>> \in Seq(SysFrame) /\ <<>> \in Seq(NormFrame) /\ <<>> \in Seq(BlockFrame)
        /\ <<>> \in Seq([frame : BlockFrame, to : Branches])
    BY <1>3, RangeOne, RangeNone
  <2>2. sys \in [Channels -> Seq(SysFrame)] /\ norm \in [Channels -> Seq(NormFrame)] /\ pushes \in [Branches -> Seq(BlockFrame)]
    BY <1>1, <1>2, <2>1
  <2>3. live \subseteq Channels /\ "fanin" \in live BY <1>1, ChannelsOfBlock
  <2>4. pending \in [kind : Lifecycle \cup {"none"}, count : Nat] /\ pending.count = 0 BY <1>1 DEF NoLifecycle
  <2>5. FanInTypeOK BY <1>1, <2>1 DEF FanInTypeOK
  <2> QED BY <1>1, <1>3, <2>1, <2>2, <2>3, <2>4, <2>5 DEF BlockTypes
<1>6. Range(out) = {} /\ Range(flushing) = {} /\ Range(buffer) = {} BY <1>1, RangeNone
<1>7. EmitInv BY <1>1, <1>6 DEF EmitInv, Distinct
<1>8. ~ StartOut /\ ~ TermOut BY <1>6 DEF StartOut, TermOut
<1>9. PICK pl : pl = [b \in Branches |-> "before"] OBVIOUS
<1>10. pl \in [Branches -> Places] /\ AllBefore(pl) BY <1>9 DEF Places, AllBefore
<1>11. CopyFree BY <1>1 DEF CopyFree
<1>12. AtHead(pl) = TRUE BY <1>8, <1>10, <1>11 DEF AtHead
<1>13. Carries(<<f>>, "Start", TRUE) BY <1>3 DEF Carries
<1>14. \A m \in BOOLEAN : Carries(<<>>, "Start", m) BY CarryEmpty
<1>15. BranchInv(pl, "Start")
  <2> SUFFICES ASSUME NEW b \in Branches
               PROVE  /\ Carries(sys[b], "Start", pl[b] = "chan") /\ Carries(norm[b], "Start", pl[b] = "chan")
                      /\ Carries(pushes[b], "Start", pl[b] = "push")
    BY DEF BranchInv
  <2>1. (pl[b] = "chan") = FALSE /\ (pl[b] = "push") = FALSE BY <1>9
  <2> QED BY <1>4, <1>14, <2>1
<1>16. CopyInv(pl, "Start") BY <1>1 DEF CopyInv
<1>17. EndInv(pl, "Start") BY <1>8, <1>10 DEF EndInv
<1>18. <<>> \in Seq(Branches) /\ Labelled(<<>>, <<>>, "Start", pl) BY RangeNone DEF Labelled
<1>19. pending.kind = "none" /\ pending.count = Cardinality(DoneSet(pl)) BY <1>1, <1>10, DoneSetFacts DEF NoLifecycle
<1>20. "Start" \in Lifecycle BY DEF Lifecycle
<1>21. SyncInv(pl, "Start", <<>>, <<>>)
  BY <1>4, <1>10, <1>12, <1>13, <1>14, <1>15, <1>16, <1>17, <1>18, <1>19, <1>20 DEF SyncInv
<1> QED BY <1>5, <1>7, <1>10, <1>18, <1>20, <1>21 DEF BlockInv

\* Every step keeps the invariant of the block.
LEMMA BlockStep ==
  ASSUME EarlyCancel = FALSE, BlockInv, [ParallelNext]_parallelVars
  PROVE  BlockInv'
<1>1. BlockTypes /\ EmitInv BY DEF BlockInv
<1>2. PICK pl \in [Branches -> Places], kk \in Lifecycle, ls \in Seq(Branches), ln \in Seq(Branches) : SyncInv(pl, kk, ls, ln)
  BY DEF BlockInv
<1>3. BlockTypes' BY <1>1, BlockTypesStep
<1>4. ASSUME NEW p2 \in [Branches -> Places], NEW k2 \in Lifecycle, NEW l2 \in Seq(Branches), NEW n2 \in Seq(Branches),
             SyncInv(p2, k2, l2, n2)', EmitInv'
      PROVE  BlockInv'
  BY <1>3, <1>4 DEF BlockInv
<1>5. ASSUME UNCHANGED fanInVars PROVE EmitInv' BY <1>1, <1>5 DEF EmitInv, fanInVars
<1>6. ASSUME NEW kind \in Entering, Enter(kind) PROVE BlockInv'
  <2>1. EmitInv' BY <1>5, <1>6 DEF Enter
  <2>2. PICK k2 \in Lifecycle : SyncInv(pl, k2, ls, ln)' BY <1>1, <1>2, <1>6, SyncEnter
  <2> QED BY <1>2, <1>4, <2>1, <2>2
<1>7. CASE FanOutRecv
  <2>1. EmitInv' BY <1>5, <1>7 DEF FanOutRecv
  <2>2. SyncInv(pl, kk, ls, ln)' BY <1>1, <1>2, <1>7, SyncFanOutRecv
  <2> QED BY <1>2, <1>4, <2>1, <2>2
<1>8. CASE FanOutSend
  <2>1. EmitInv' BY <1>5, <1>8 DEF FanOutSend
  <2>2. PICK p2 \in [Branches -> Places] : SyncInv(p2, kk, ls, ln)' BY <1>1, <1>2, <1>8, SyncFanOutSend
  <2> QED BY <1>2, <1>4, <2>1, <2>2
<1>9. ASSUME NEW b \in Branches, BranchBargeIn(b) PROVE BlockInv'
  <2>1. EmitInv' BY <1>5, <1>9 DEF BranchBargeIn
  <2>2. PICK p2 \in [Branches -> Places] : SyncInv(p2, kk, ls, ln)' BY <1>1, <1>2, <1>9, SyncBargeIn
  <2> QED BY <1>2, <1>4, <2>1, <2>2
<1>10. ASSUME NEW b \in Branches, BranchLifecycle(b) PROVE BlockInv'
  <2>1. EmitInv' BY <1>5, <1>10 DEF BranchLifecycle
  <2>2. PICK p2 \in [Branches -> Places] : SyncInv(p2, kk, ls, ln)' BY <1>1, <1>2, <1>10, SyncLifecycle
  <2> QED BY <1>2, <1>4, <2>1, <2>2
<1>11. ASSUME NEW b \in Branches, BranchProcess(b) PROVE BlockInv'
  <2>1. EmitInv' BY <1>5, <1>11 DEF BranchProcess
  <2>2. SyncInv(pl, kk, ls, ln)' BY <1>1, <1>2, <1>11, SyncProcess
  <2> QED BY <1>2, <1>4, <2>1, <2>2
<1>12. ASSUME NEW b \in Branches, BranchPush(b) PROVE BlockInv'
  <2>1. EmitInv' BY <1>5, <1>12 DEF BranchPush
  <2>2. PICK p2 \in [Branches -> Places], l2 \in Seq(Branches), n2 \in Seq(Branches) : SyncInv(p2, kk, l2, n2)'
    BY <1>1, <1>2, <1>12, SyncPush
  <2> QED BY <1>2, <1>4, <2>1, <2>2
<1>13. CASE FanInSync
  <2>1. PICK f : f = Received("fanin") OBVIOUS
  <2>2. pending.kind \in {"none", f.kind} /\ f \notin Range(out) BY <1>1, <1>2, <1>13, <2>1, SyncReceives
  <2>3. EmitInv' BY <1>1, <1>13, <2>1, <2>2, EmitSync
  <2>4. PICK p2 \in [Branches -> Places], k2 \in Lifecycle, l2 \in Seq(Branches), n2 \in Seq(Branches) : SyncInv(p2, k2, l2, n2)'
    BY <1>1, <1>2, <1>13, SyncCount
  <2> QED BY <1>4, <2>3, <2>4
<1>14. CASE FanInOutput \/ FanInSend
  <2>1. EmitInv' BY <1>1, <1>14, EmitOutput, EmitSend
  <2>2. PICK l2 \in Seq(Branches), n2 \in Seq(Branches) : SyncInv(pl, kk, l2, n2)' BY <1>1, <1>2, <1>14, SyncOther
  <2> QED BY <1>2, <1>4, <2>1, <2>2
<1>15. CASE UNCHANGED parallelVars
  <2>1. EmitInv' BY <1>5, <1>15 DEF parallelVars
  <2>2. SyncInv(pl, kk, ls, ln)'
    BY <1>2, <1>15 DEF parallelVars, chans, fanInVars, SyncInv, CopyInv, BranchInv, EndInv, AtHead, CopyFree, StartOut, TermOut
  <2> QED BY <1>2, <1>4, <2>1, <2>2
<1> QED BY <1>6, <1>7, <1>8, <1>9, <1>10, <1>11, <1>12, <1>13, <1>14, <1>15 DEF ParallelNext

-----------------------------------------------------------------------------
(* What is left behind an End. A branch pushes a terminal frame last and   *)
(* returns, so with the last branch's End the queue of fan_in is complete; *)
(* it ends with an End, unless a Cancel has overtaken it.                  *)

PushInv ==
  \A b \in Branches :
    /\ b \notin live => pushes[b] = <<>>
    /\ \A k \in 1 .. Len(pushes[b]) : Terminal(pushes[b][k].kind) => k = Len(pushes[b])

CancelHere ==
  \/ \E k \in 1 .. Len(sys["fanin"]) : sys["fanin"][k].kind = "Cancel"
  \/ pending.kind = "Cancel"
  \/ \E f \in Range(out) \cup Range(flushing) : f.kind = "Cancel"
EndOut == \E f \in Range(out) \cup Range(flushing) : f.kind = "End"

DrainInv ==
  /\ live \cap Branches = {} /\ norm["fanin"] # <<>> =>
       CancelHere \/ norm["fanin"][Len(norm["fanin"])].kind = "End"
  /\ EndOut => sys["fanin"] = <<>> /\ norm["fanin"] = <<>>

\* A branch that has pushed the terminal frame has nothing left to push.
LEMMA PushInvStep == ASSUME BlockTypes, PushInv, [ParallelNext]_parallelVars PROVE PushInv'
<1>1. pushes \in [Branches -> Seq(BlockFrame)] BY DEF BlockTypes
<1>2. ASSUME pushes' = pushes, \A b \in Branches : b \in live => b \in live' PROVE PushInv'
  BY <1>2 DEF PushInv
<1>3. ASSUME NEW b \in Branches, live' = live, b \in live, \A a \in Branches : a # b => pushes'[a] = pushes[a],
             \A k \in 1 .. Len(pushes'[b]) : Terminal(pushes'[b][k].kind) => k = Len(pushes'[b])
      PROVE  PushInv'
  BY <1>3 DEF PushInv
<1>4. ASSUME NEW b \in Branches, BranchBargeIn(b) PROVE PushInv'
  <2>1. /\ Head(sys[b]).kind = "Interruption" /\ \A a \in Branches : a # b => pushes'[a] = pushes[a]
        /\ \/ pushes'[b] = <<Head(sys[b])>>
           \/ \E i \in 1 .. Len(norm[b]) : norm[b][i].kind = "End" /\ pushes'[b] = <<Head(sys[b]), norm[b][i]>>
    BY <1>4, BargeInPushes
  <2>2. live' = live /\ b \in live BY <1>4 DEF BranchBargeIn, Idle
  <2>3. ~ Terminal(Head(sys[b]).kind) BY <2>1 DEF Terminal
  <2>4. \A k \in 1 .. Len(pushes'[b]) : Terminal(pushes'[b][k].kind) => k = Len(pushes'[b])
    <3>1. CASE pushes'[b] = <<Head(sys[b])>>
      <4>1. PICK h : h = Head(sys[b]) OBVIOUS
      <4> QED BY <3>1, <4>1
    <3>2. ASSUME NEW e, pushes'[b] = <<Head(sys[b]), e>>
          PROVE  \A k \in 1 .. Len(pushes'[b]) : Terminal(pushes'[b][k].kind) => k = Len(pushes'[b])
      <4>1. PICK h : h = Head(sys[b]) OBVIOUS
      <4>2. pushes'[b] = <<h, e>> /\ ~ Terminal(h.kind) BY <2>3, <3>2, <4>1
      <4>3. Len(<<h, e>>) = 2 /\ <<h, e>>[1] = h OBVIOUS
      <4>4. \A k \in 1 .. 2 : k = 1 \/ k = 2 OBVIOUS
      <4> QED BY <4>2, <4>3, <4>4
    <3> QED BY <2>1, <3>1, <3>2
  <2> QED BY <1>3, <2>1, <2>2, <2>4
<1>5. ASSUME NEW b \in Branches, BranchLifecycle(b) \/ BranchProcess(b) PROVE PushInv'
  <2>1. live' = live /\ b \in live BY <1>5 DEF BranchLifecycle, BranchProcess, Idle
  <2>2. \E p : pushes' = [pushes EXCEPT ![b] = p] /\ (p = <<>> \/ \E e : p = <<e>>)
    BY <1>5 DEF BranchLifecycle, BranchProcess, Then
  <2>3. PICK p : pushes' = [pushes EXCEPT ![b] = p] /\ (p = <<>> \/ \E e : p = <<e>>) BY <2>2
  <2>4. pushes'[b] = p /\ \A a \in Branches : a # b => pushes'[a] = pushes[a] BY <1>1, <2>3
  <2>5. \A k \in 1 .. Len(p) : k = Len(p)
    <3>1. CASE p = <<>> BY <3>1
    <3>2. CASE \E e : p = <<e>> BY <3>2
    <3> QED BY <2>3, <3>1, <3>2
  <2> QED BY <1>3, <2>1, <2>4, <2>5
<1>6. ASSUME NEW b \in Branches, BranchPush(b) PROVE PushInv'
  <2>1. PICK f : f = Head(pushes[b]) OBVIOUS
  <2>2. /\ pushes[b] # <<>> /\ pushes'[b] = Tail(pushes[b]) /\ \A a \in Branches : a # b => pushes'[a] = pushes[a]
        /\ live' = (IF Terminal(f.kind) THEN live \ {b} ELSE live)
    BY <1>6, <2>1, PushFacts
  <2>3. b \in live BY <2>2 DEF PushInv
  <2>4. pushes[b] \in Seq(BlockFrame) BY <1>1
  <2>5. /\ Tail(pushes[b]) \in Seq(BlockFrame) /\ Len(pushes[b]) \in Nat /\ Len(Tail(pushes[b])) = Len(pushes[b]) - 1
        /\ f = pushes[b][1] /\ 1 \in 1 .. Len(pushes[b])
        /\ \A k \in 1 .. Len(Tail(pushes[b])) : k + 1 \in 1 .. Len(pushes[b]) /\ Tail(pushes[b])[k] = pushes[b][k + 1]
    BY <2>1, <2>2, <2>4, TailAt
  <2>6. \A k \in 1 .. Len(pushes[b]) : Terminal(pushes[b][k].kind) => k = Len(pushes[b]) BY DEF PushInv
  <2>7. \A k \in 1 .. Len(pushes'[b]) : Terminal(pushes'[b][k].kind) => k = Len(pushes'[b])
    <3> SUFFICES ASSUME NEW k \in 1 .. Len(Tail(pushes[b])), Terminal(Tail(pushes[b])[k].kind)
                 PROVE  k = Len(Tail(pushes[b]))
      BY <2>2
    <3>1. k + 1 = Len(pushes[b]) BY <2>5, <2>6
    <3> QED BY <2>5, <3>1
  <2>8. Terminal(f.kind) => Tail(pushes[b]) = <<>>
    <3> SUFFICES ASSUME Terminal(f.kind) PROVE Tail(pushes[b]) = <<>> OBVIOUS
    <3>1. Len(pushes[b]) = 1 BY <2>5, <2>6
    <3>2. Len(Tail(pushes[b])) = 0 BY <2>5, <3>1
    <3>3. Tail(pushes[b]) # <<>> => Len(Tail(pushes[b])) \in Nat \ {0} BY <2>5, EmptySeq
    <3> QED BY <3>2, <3>3
  <2>9. ASSUME NEW a \in Branches PROVE /\ a \notin live' => pushes'[a] = <<>>
                                        /\ \A k \in 1 .. Len(pushes'[a]) :
                                             Terminal(pushes'[a][k].kind) => k = Len(pushes'[a])
    <3>1. CASE a = b BY <2>2, <2>3, <2>7, <2>8, <3>1
    <3>2. CASE a # b
      <4>1. pushes'[a] = pushes[a] /\ (a \in live => a \in live') BY <2>2, <3>2
      <4> QED BY <4>1 DEF PushInv
    <3> QED BY <3>1, <3>2
  <2> QED BY <2>9 DEF PushInv
<1>7. CASE FanOutSend
  <2>1. pushes' = pushes /\ (live' = live \/ live' = live \ {"head"}) BY <1>7 DEF FanOutSend
  <2> QED BY <1>2, <2>1, ChannelsOfBlock
<1>8. CASE (\E kind \in Entering : Enter(kind)) \/ FanOutRecv \/ FanInSync \/ FanInOutput \/ FanInSend
           \/ UNCHANGED parallelVars
  <2>1. pushes' = pushes /\ live' = live
    BY <1>8 DEF Enter, FanOutRecv, FanInSync, FanInOutput, FanInSend, parallelVars
  <2> QED BY <1>2, <2>1
<1> QED BY <1>4, <1>5, <1>6, <1>7, <1>8 DEF ParallelNext

\* Steps upstream of fan_in leave its queues alone.
LEMMA DrainUpstream ==
  ASSUME BlockTypes,
         \/ (\E kind \in Entering : Enter(kind)) \/ FanOutRecv \/ FanOutSend \/ UNCHANGED parallelVars
         \/ \E b \in Branches : BranchBargeIn(b) \/ BranchLifecycle(b) \/ BranchProcess(b)
  PROVE  /\ sys'["fanin"] = sys["fanin"] /\ norm'["fanin"] = norm["fanin"]
         /\ UNCHANGED <<pending, out, flushing>> /\ live' \cap Branches = live \cap Branches
<1>1. "fanin" \in Channels /\ "head" \in Channels /\ "head" # "fanin" /\ "head" \notin Branches
      /\ "fanin" \notin Branches /\ Branches \subseteq Channels
  BY ChannelsOfBlock
<1>2. UNCHANGED <<pending, out, flushing>>
  BY DEF Enter, FanOutRecv, FanOutSend, BranchBargeIn, BranchLifecycle, BranchProcess, fanInVars, parallelVars
<1>3. live' = live \/ live' = live \ {"head"}
  BY DEF Enter, FanOutRecv, FanOutSend, BranchBargeIn, BranchLifecycle, BranchProcess, parallelVars
<1>4. sys'["fanin"] = sys["fanin"] /\ norm'["fanin"] = norm["fanin"]
  <2>1. ASSUME NEW c \in Channels, c # "fanin", Waiting(c), Receive(c)
        PROVE  sys'["fanin"] = sys["fanin"] /\ norm'["fanin"] = norm["fanin"]
    BY <1>1, <2>1, BlockReceive
  <2>2. ASSUME NEW c \in Channels, c # "fanin", NEW f \in BlockFrame, Send(c, f)
        PROVE  sys'["fanin"] = sys["fanin"] /\ norm'["fanin"] = norm["fanin"]
    BY <1>1, <2>2, BlockSend
  <2>3. ASSUME NEW kind \in Entering, Enter(kind)
        PROVE  sys'["fanin"] = sys["fanin"] /\ norm'["fanin"] = norm["fanin"]
    <3>1. ids < MaxIds /\ ids' = ids + 1 /\ Send("head", [kind |-> kind, id |-> ids']) BY <2>3 DEF Enter
    <3>2. ids' \in 1 .. MaxIds BY <3>1, ParallelAssumption DEF BlockTypes
    <3>3. [kind |-> kind, id |-> ids'] \in BlockFrame BY <3>2, ParallelAssumption DEF BlockFrame, Lifecycle
    <3> QED BY <1>1, <2>2, <3>1, <3>3
  <2>4. CASE FanOutRecv BY <1>1, <2>1, <2>4 DEF FanOutRecv
  <2>5. CASE FanOutSend
    <3>1. copying # <<>> /\ Send(Head(copying).to, Head(copying).frame) BY <2>5 DEF FanOutSend
    <3>2. copying \in Seq([frame : BlockFrame, to : Branches]) BY DEF BlockTypes
    <3>3. Head(copying) \in [frame : BlockFrame, to : Branches] BY <3>1, <3>2, HeadTailProperties
    <3>4. Head(copying).to \in Branches /\ Head(copying).frame \in BlockFrame BY <3>3
    <3> QED BY <1>1, <2>2, <3>1, <3>4
  <2>6. ASSUME NEW b \in Branches, BranchBargeIn(b)
        PROVE  sys'["fanin"] = sys["fanin"] /\ norm'["fanin"] = norm["fanin"]
    BY <1>1, <2>6, BargeInPushes
  <2>7. ASSUME NEW b \in Branches, BranchLifecycle(b) \/ BranchProcess(b)
        PROVE  sys'["fanin"] = sys["fanin"] /\ norm'["fanin"] = norm["fanin"]
    <3>1. Waiting(b) /\ Receive(b) BY <2>7 DEF BranchLifecycle, BranchProcess, Idle
    <3> QED BY <1>1, <2>1, <3>1
  <2>8. CASE UNCHANGED parallelVars BY <2>8 DEF parallelVars, chans
  <2> QED BY <2>3, <2>4, <2>5, <2>6, <2>7, <2>8
<1> QED BY <1>1, <1>2, <1>3, <1>4

\* What follows the first frame of a queue ends as the queue does.
LEMMA LastOfTail ==
  ASSUME NEW S, NEW q \in Seq(S), q # <<>>, Tail(q) # <<>>
  PROVE  Tail(q)[Len(Tail(q))] = q[Len(q)]
<1>1. /\ Tail(q) \in Seq(S) /\ Len(q) \in Nat /\ Len(Tail(q)) = Len(q) - 1
      /\ \A k \in 1 .. Len(Tail(q)) : k + 1 \in 1 .. Len(q) /\ Tail(q)[k] = q[k + 1]
  BY TailAt
<1>2. Len(Tail(q)) \in Nat /\ Len(Tail(q)) # 0 BY <1>1, LenProperties, EmptySeq
<1>3. Len(Tail(q)) \in 1 .. Len(Tail(q)) /\ Len(Tail(q)) + 1 = Len(q) BY <1>1, <1>2
<1> QED BY <1>1, <1>3

\* A branch pushes to fan_in: the last one, its terminal frame.
LEMMA DrainPush ==
  ASSUME BlockInv, PushInv, DrainInv, NEW b \in Branches, BranchPush(b)
  PROVE  DrainInv'
<1>1. PICK f : f = Head(pushes[b]) OBVIOUS
<1>2. BlockTypes BY DEF BlockInv
<1>3. /\ f \in BlockFrame /\ pushes[b] # <<>> /\ live' = (IF Terminal(f.kind) THEN live \ {b} ELSE live)
      /\ \/ f \in SysFrame /\ sys'["fanin"] = Append(sys["fanin"], f) /\ norm'["fanin"] = norm["fanin"]
         \/ f \in NormFrame /\ norm'["fanin"] = Append(norm["fanin"], f) /\ sys'["fanin"] = sys["fanin"]
  BY <1>1, <1>2, PushFacts
<1>4. b \in live BY <1>3 DEF PushInv
<1>5. UNCHANGED <<pending, out, flushing>> BY DEF BranchPush, fanInVars
<1>6. ~ EndOut
  <2> SUFFICES ASSUME EndOut PROVE FALSE OBVIOUS
  <2>1. TermOut BY DEF EndOut, TermOut, Terminal
  <2>2. live \cap Branches = {} BY <2>1 DEF BlockInv, SyncInv, EndInv
  <2> QED BY <1>4, <2>2
<1>7. ~ EndOut' BY <1>5, <1>6 DEF EndOut
<1>8. sys["fanin"] \in Seq(SysFrame) /\ norm["fanin"] \in Seq(NormFrame) BY <1>2, ChannelsOfBlock DEF BlockTypes
<1>9. ASSUME live' \cap Branches = {} PROVE CancelHere' \/ norm'["fanin"][Len(norm'["fanin"])].kind = "End"
  <2>1. Terminal(f.kind) BY <1>3, <1>4, <1>9
  <2>2. CASE f.kind = "End"
    <3>1. f \in NormFrame /\ norm'["fanin"] = Append(norm["fanin"], f) BY <1>3, <2>2 DEF SysFrame, SystemKinds
    <3>2. /\ Len(norm["fanin"]) \in Nat /\ Len(Append(norm["fanin"], f)) = Len(norm["fanin"]) + 1
          /\ Append(norm["fanin"], f)[Len(norm["fanin"]) + 1] = f
      BY <1>8, <3>1, AppendProperties, LenProperties
    <3> QED BY <2>2, <3>1, <3>2
  <2>3. CASE f.kind = "Cancel"
    <3>1. f \in SysFrame /\ sys'["fanin"] = Append(sys["fanin"], f) BY <1>3, <2>3 DEF NormFrame, SystemKinds
    <3>2. /\ Len(sys["fanin"]) \in Nat /\ Len(Append(sys["fanin"], f)) = Len(sys["fanin"]) + 1
          /\ Append(sys["fanin"], f)[Len(sys["fanin"]) + 1] = f
      BY <1>8, <3>1, AppendProperties, LenProperties
    <3>3. Len(sys'["fanin"]) \in 1 .. Len(sys'["fanin"]) /\ sys'["fanin"][Len(sys'["fanin"])].kind = "Cancel"
      BY <2>3, <3>1, <3>2
    <3> QED BY <3>3 DEF CancelHere
  <2> QED BY <2>1, <2>2, <2>3 DEF Terminal
<1> QED BY <1>7, <1>9 DEF DrainInv

\* fan_in takes a frame: what it leaves in its queues, and a Cancel that stays.
LEMMA DrainReceive ==
  ASSUME BlockTypes, DrainInv, NEW f, f = Received("fanin"), Waiting("fanin"), Receive("fanin"),
         live' = live, CancelHere /\ f.kind # "Cancel" => CancelHere', f.kind = "Cancel" => CancelHere'
  PROVE  /\ ~ EndOut
         /\ live' \cap Branches = {} /\ norm'["fanin"] # <<>> =>
              CancelHere' \/ norm'["fanin"][Len(norm'["fanin"])].kind = "End"
         /\ f.kind = "End" => sys'["fanin"] = <<>>
<1>1. sys["fanin"] \in Seq(SysFrame) /\ norm["fanin"] \in Seq(NormFrame) BY ChannelsOfBlock DEF BlockTypes
<1>2. \/ /\ f.kind \in SystemKinds /\ sys["fanin"] # <<>> /\ f = Head(sys["fanin"])
         /\ sys'["fanin"] = Tail(sys["fanin"]) /\ norm'["fanin"] = norm["fanin"]
      \/ /\ f.kind \notin SystemKinds /\ norm["fanin"] # <<>> /\ f = Head(norm["fanin"])
         /\ norm'["fanin"] = Tail(norm["fanin"]) /\ sys'["fanin"] = sys["fanin"]
  BY BlockReceive, ChannelsOfBlock
<1>3. ~ EndOut BY <1>2 DEF DrainInv
<1>4. f.kind = "End" => sys'["fanin"] = <<>>
  <2> SUFFICES ASSUME f.kind = "End", sys["fanin"] # <<>> PROVE FALSE BY <1>2 DEF SystemKinds
  <2>1. Head(sys["fanin"]) \in SysFrame /\ f = Head(sys["fanin"])
    BY <1>1, HeadTailProperties DEF Received
  <2> QED BY <2>1 DEF SysFrame, SystemKinds
<1>5. ASSUME live' \cap Branches = {}, norm'["fanin"] # <<>>
      PROVE  CancelHere' \/ norm'["fanin"][Len(norm'["fanin"])].kind = "End"
  <2>1. norm["fanin"] # <<>> BY <1>2, <1>5
  <2>2. CancelHere \/ norm["fanin"][Len(norm["fanin"])].kind = "End" BY <1>5, <2>1 DEF DrainInv
  <2>3. norm'["fanin"][Len(norm'["fanin"])] = norm["fanin"][Len(norm["fanin"])]
    BY <1>1, <1>2, <1>5, LastOfTail
  <2> QED BY <2>2, <2>3
<1> QED BY <1>3, <1>4, <1>5

\* A Cancel in fan_in's queue is still there when another frame has been taken.
LEMMA CancelStays ==
  ASSUME NEW q \in Seq(SysFrame), q # <<>>, Head(q).kind # "Cancel", \E k \in 1 .. Len(q) : q[k].kind = "Cancel"
  PROVE  \E k \in 1 .. Len(Tail(q)) : Tail(q)[k].kind = "Cancel"
<1>1. PICK k \in 1 .. Len(q) : q[k].kind = "Cancel" OBVIOUS
<1>2. /\ Tail(q) \in Seq(SysFrame) /\ Len(q) \in Nat /\ Len(Tail(q)) = Len(q) - 1 /\ Head(q) = q[1]
      /\ \A i \in 1 .. Len(Tail(q)) : i + 1 \in 1 .. Len(q) /\ Tail(q)[i] = q[i + 1]
  BY TailAt
<1>3. k # 1 BY <1>1, <1>2
<1>4. k - 1 \in 1 .. Len(Tail(q)) /\ (k - 1) + 1 = k BY <1>2, <1>3
<1>5. Tail(q)[k - 1] = q[k] BY <1>2, <1>4
<1> QED BY <1>1, <1>4, <1>5

\* fan_in counts. With the last End it has everything that the branches sent.
LEMMA DrainSync ==
  ASSUME BlockInv, BlockInv', DrainInv, FanInSync
  PROVE  DrainInv'
<1>1. PICK f : f = Received("fanin") OBVIOUS
<1>2. BlockTypes /\ EmitInv BY DEF BlockInv
<1>3. PICK pl \in [Branches -> Places], kk \in Lifecycle, ls \in Seq(Branches), ln \in Seq(Branches) : SyncInv(pl, kk, ls, ln)
  BY DEF BlockInv
<1>4. /\ f.kind = kk /\ pending.kind \in {"none", f.kind} /\ \E b \in Branches : pl[b] = "fanin"
  BY <1>1, <1>2, <1>3, SyncReceives
<1>5. ~ TermOut BY <1>3, <1>4 DEF SyncInv, EndInv, AllBefore
<1>6. /\ f \in BlockFrame /\ flushing = <<>> /\ Waiting("fanin") /\ Receive("fanin")
      /\ live' = live /\ out' = out
      /\ \/ pending' = [kind |-> f.kind, count |-> pending.count + 1] /\ flushing' = <<>>
         \/ pending' = NoLifecycle /\ flushing' = <<f>> \o buffer
  BY <1>1, <1>2, <1>4, SyncFacts
<1>7. buffer \in Seq(BlockFrame) /\ Range(flushing) = {} /\ Range(<<>>) = {}
  BY <1>2, <1>6, RangeNone DEF BlockTypes, FanInTypeOK
<1>8. Range(<<f>> \o buffer) = {f} \cup Range(buffer) BY <1>6, <1>7, RangePrefix
<1>9. \A g \in Range(buffer) : g.kind \notin {"End", "Cancel"} BY <1>2 DEF EmitInv, IsLifecycle, Lifecycle
<1>10. \A g \in Range(out) : g.kind \notin {"End", "Cancel"} BY <1>5 DEF TermOut, Terminal
<1>11. sys["fanin"] \in Seq(SysFrame) BY <1>2, ChannelsOfBlock DEF BlockTypes
<1>12. \/ /\ sys["fanin"] # <<>> /\ f = Head(sys["fanin"]) /\ sys'["fanin"] = Tail(sys["fanin"])
       \/ f.kind \notin SystemKinds /\ sys'["fanin"] = sys["fanin"]
  BY <1>1, <1>2, <1>6, BlockReceive, ChannelsOfBlock
<1>13. f.kind = "Cancel" => CancelHere'
  <2> SUFFICES ASSUME f.kind = "Cancel" PROVE CancelHere' OBVIOUS
  <2>1. CASE pending' = [kind |-> f.kind, count |-> pending.count + 1]
    <3>1. pending'.kind = "Cancel" BY <2>1
    <3> QED BY <3>1 DEF CancelHere
  <2>2. CASE flushing' = <<f>> \o buffer
    <3>1. f \in Range(flushing') BY <1>8, <2>2
    <3> QED BY <3>1 DEF CancelHere
  <2> QED BY <1>6, <2>1, <2>2
<1>14. CancelHere /\ f.kind # "Cancel" => CancelHere'
  <2> SUFFICES ASSUME CancelHere, f.kind # "Cancel" PROVE CancelHere' OBVIOUS
  <2>1. \E k \in 1 .. Len(sys["fanin"]) : sys["fanin"][k].kind = "Cancel" BY <1>4, <1>7, <1>10 DEF CancelHere
  <2>2. \E k \in 1 .. Len(sys'["fanin"]) : sys'["fanin"][k].kind = "Cancel" BY <1>11, <1>12, <2>1, CancelStays
  <2> QED BY <2>2 DEF CancelHere
<1>15. /\ live' \cap Branches = {} /\ norm'["fanin"] # <<>> =>
            CancelHere' \/ norm'["fanin"][Len(norm'["fanin"])].kind = "End"
       /\ f.kind = "End" => sys'["fanin"] = <<>>
  BY <1>1, <1>2, <1>6, <1>13, <1>14, DrainReceive
<1>16. EndOut' => sys'["fanin"] = <<>> /\ norm'["fanin"] = <<>>
  <2> SUFFICES ASSUME EndOut' PROVE sys'["fanin"] = <<>> /\ norm'["fanin"] = <<>> OBVIOUS
  <2>1. \E g \in Range(out') \cup Range(flushing') : g.kind = "End" BY DEF EndOut
  <2>2. flushing' = <<f>> \o buffer /\ pending' = NoLifecycle /\ f.kind = "End" /\ f \in Range(flushing')
    BY <1>6, <1>7, <1>8, <1>9, <1>10, <2>1
  <2>3. sys'["fanin"] = <<>> BY <1>15, <2>2
  <2>4. ~ CancelHere'
    <3>1. Len(sys'["fanin"]) = 0 BY <2>3
    <3>2. pending'.kind = "none" BY <2>2 DEF NoLifecycle
    <3>3. \A g \in Range(out') \cup Range(flushing') : g.kind # "Cancel" BY <1>6, <1>8, <1>9, <1>10, <2>2
    <3> QED BY <3>1, <3>2, <3>3 DEF CancelHere
  <2>5. TermOut' BY <2>2 DEF TermOut, Terminal
  <2>6. PICK p2 \in [Branches -> Places], k2 \in Lifecycle, l2 \in Seq(Branches), n2 \in Seq(Branches) :
          SyncInv(p2, k2, l2, n2)'
    BY DEF BlockInv
  <2>7. live' \cap Branches = {} /\ AllBefore(p2) BY <2>5, <2>6 DEF SyncInv, EndInv, AllBefore
  <2>8. \A k \in 1 .. Len(norm'["fanin"]) : ~ IsLifecycle(norm'["fanin"][k])
    <3> SUFFICES ASSUME NEW k \in 1 .. Len(norm'["fanin"]), IsLifecycle(norm'["fanin"][k]) PROVE FALSE OBVIOUS
    <3>1. /\ n2 \in Seq(Branches) /\ Len(n2) = Len(norm'["fanin"]) /\ p2[n2[k]] = "fanin"
      BY <2>6 DEF SyncInv, Labelled
    <3>2. n2[k] \in Branches BY <3>1, ElementOfSeq
    <3> QED BY <2>7, <3>1, <3>2 DEF AllBefore
  <2>9. ASSUME norm'["fanin"] # <<>> PROVE FALSE
    <3>1. norm'["fanin"] \in Seq(NormFrame) BY ChannelsOfBlock DEF BlockInv, BlockTypes
    <3>2. Len(norm'["fanin"]) \in 1 .. Len(norm'["fanin"]) BY <2>9, <3>1, LenProperties, EmptySeq
    <3>3. norm'["fanin"][Len(norm'["fanin"])].kind = "End" BY <1>15, <2>4, <2>7, <2>9
    <3> QED BY <2>8, <3>2, <3>3 DEF IsLifecycle, Lifecycle
  <2> QED BY <2>3, <2>9
<1> QED BY <1>15, <1>16 DEF DrainInv

\* The rest of fan_in.
LEMMA DrainOther ==
  ASSUME BlockInv, DrainInv, FanInOutput \/ FanInSend
  PROVE  DrainInv'
<1>1. BlockTypes /\ EmitInv BY DEF BlockInv
<1>2. pending' = pending /\ live' = live BY DEF FanInOutput, FanInSend
<1>3. CASE FanInSend
  <2>1. UNCHANGED <<sys, norm>> BY <1>3 DEF FanInSend, chans
  <2>2. Range(out') \cup Range(flushing') = Range(out) \cup Range(flushing) BY <1>1, <1>3, EmitSend
  <2> QED BY <1>2, <2>1, <2>2 DEF DrainInv, CancelHere, EndOut
<1>4. CASE FanInOutput
  <2>1. PICK f : f = Received("fanin") OBVIOUS
  <2>2. Waiting("fanin") /\ Receive("fanin") /\ f.kind \in {"Interruption", "Text"} /\ out' = out /\ flushing = <<>>
    BY <1>4, <2>1 DEF FanInOutput, FanInReady
  <2>3. \A g \in Range(out') \cup Range(flushing') : IsLifecycle(g) => g \in Range(out) BY <1>1, <1>4, EmitOutput
  <2>4. sys["fanin"] \in Seq(SysFrame) BY <1>1, ChannelsOfBlock DEF BlockTypes
  <2>5. \/ /\ sys["fanin"] # <<>> /\ f = Head(sys["fanin"]) /\ sys'["fanin"] = Tail(sys["fanin"])
        \/ sys'["fanin"] = sys["fanin"]
    BY <1>1, <2>1, <2>2, BlockReceive, ChannelsOfBlock
  <2>6. Range(flushing) = {} BY <2>2, RangeNone
  <2>7. CancelHere => CancelHere'
    <3>1. CASE \E k \in 1 .. Len(sys["fanin"]) : sys["fanin"][k].kind = "Cancel"
      <4>1. \E k \in 1 .. Len(sys'["fanin"]) : sys'["fanin"][k].kind = "Cancel"
        BY <2>2, <2>4, <2>5, <3>1, CancelStays
      <4> QED BY <4>1 DEF CancelHere
    <3>2. CASE pending.kind = "Cancel" BY <1>2, <3>2 DEF CancelHere
    <3>3. CASE \E g \in Range(out) : g.kind = "Cancel" BY <2>2, <3>3 DEF CancelHere
    <3> QED BY <2>6, <3>1, <3>2, <3>3 DEF CancelHere
  <2>8. /\ ~ EndOut
        /\ live' \cap Branches = {} /\ norm'["fanin"] # <<>> =>
             CancelHere' \/ norm'["fanin"][Len(norm'["fanin"])].kind = "End"
    BY <1>1, <1>2, <2>1, <2>2, <2>7, DrainReceive
  <2>9. ~ EndOut' BY <2>3, <2>8 DEF EndOut, IsLifecycle, Lifecycle
  <2> QED BY <2>8, <2>9 DEF DrainInv
<1> QED BY <1>3, <1>4

\* Every step keeps it.
LEMMA DrainStep ==
  ASSUME EarlyCancel = FALSE, BlockInv, PushInv, DrainInv, [ParallelNext]_parallelVars
  PROVE  BlockInv' /\ PushInv' /\ DrainInv'
<1>1. BlockTypes BY DEF BlockInv
<1>2. BlockInv' /\ PushInv' BY <1>1, BlockStep, PushInvStep
<1>3. ASSUME \/ (\E kind \in Entering : Enter(kind)) \/ FanOutRecv \/ FanOutSend \/ UNCHANGED parallelVars
             \/ \E b \in Branches : BranchBargeIn(b) \/ BranchLifecycle(b) \/ BranchProcess(b)
      PROVE  DrainInv'
  <2>1. /\ sys'["fanin"] = sys["fanin"] /\ norm'["fanin"] = norm["fanin"]
        /\ UNCHANGED <<pending, out, flushing>> /\ live' \cap Branches = live \cap Branches
    BY <1>1, <1>3, DrainUpstream
  <2>2. CancelHere' <=> CancelHere BY <2>1 DEF CancelHere
  <2>3. EndOut' <=> EndOut BY <2>1 DEF EndOut
  <2> QED BY <2>1, <2>2, <2>3 DEF DrainInv
<1>4. ASSUME NEW b \in Branches, BranchPush(b) PROVE DrainInv' BY <1>4, DrainPush
<1>5. ASSUME FanInSync PROVE DrainInv' BY <1>2, <1>5, DrainSync
<1>6. ASSUME FanInOutput \/ FanInSend PROVE DrainInv' BY <1>6, DrainOther
<1> QED BY <1>2, <1>3, <1>4, <1>5, <1>6 DEF ParallelNext

\* Nothing has been pushed when the block starts.
LEMMA DrainStarts == ParallelInit => PushInv /\ DrainInv
<1> SUFFICES ASSUME ParallelInit PROVE PushInv /\ DrainInv OBVIOUS
<1>1. /\ norm = [c \in Channels |-> <<>>] /\ pushes = [b \in Branches |-> <<>>]
      /\ flushing = <<>> /\ out = <<>>
  BY DEF ParallelInit
<1>2. norm["fanin"] = <<>> /\ \A b \in Branches : pushes[b] = <<>> BY <1>1, ChannelsOfBlock
<1>3. Range(out) = {} /\ Range(flushing) = {} BY <1>1, RangeNone
<1>4. PushInv
  <2>1. Len(<<>>) = 0 /\ 1 .. 0 = {} OBVIOUS
  <2> QED BY <1>2, <2>1 DEF PushInv
<1> QED BY <1>2, <1>3, <1>4 DEF DrainInv, EndOut

\* The invariant says what the run checks.
LEMMA BlockInvKeeps == BlockInv /\ DrainInv => BlockInOrder
<1> SUFFICES ASSUME BlockInv, DrainInv PROVE BlockInOrder OBVIOUS
<1>1. FanInTypeOK BY DEF BlockInv, BlockTypes
<1>2. EmitOnce
  <2>1. out \in Seq(BlockFrame) BY <1>1 DEF FanInTypeOK
  <2>2. DOMAIN out = 1 .. Len(out) BY <2>1, LenProperties
  <2> QED BY <2>2 DEF BlockInv, EmitInv, Distinct, EmitOnce
<1>3. Emitted("End") \/ Emitted("Cancel") => live \cap Branches = {}
  <2> SUFFICES ASSUME Emitted("End") \/ Emitted("Cancel") PROVE live \cap Branches = {} OBVIOUS
  <2>1. TermOut BY DEF TermOut, Emitted, Terminal
  <2> QED BY <2>1 DEF BlockInv, SyncInv, EndInv
<1>4. Emitted("End") => sys["fanin"] = <<>> /\ norm["fanin"] = <<>> BY DEF Emitted, EndOut, DrainInv
<1> QED BY <1>1, <1>2, <1>3, <1>4 DEF BlockInOrder, EndAfterAllBranches

\* However the branches, fan_out and fan_in interleave, for any number of branches, any capacity,
\* any barge-ins and any frames: fan_in counts its branches right, lets no frame out twice, and a
\* terminal frame leaves the block only when every branch has passed it and returned, an End only
\* when fan_in has all that the branches sent. A Cancel that the token pushes while Start is still
\* syncing is excluded, as in the run.
THEOREM BlockKeepsOrder ==
  ASSUME EarlyCancel = FALSE
  PROVE  ParallelSpec => []BlockInOrder
<1>1. ParallelInit => BlockInv /\ PushInv /\ DrainInv BY BlockStarts, DrainStarts
<1>2. BlockInv /\ PushInv /\ DrainInv /\ [ParallelNext]_parallelVars => (BlockInv /\ PushInv /\ DrainInv)'
  BY DrainStep
<1>3. BlockInv /\ DrainInv => BlockInOrder BY BlockInvKeeps
<1> QED BY <1>1, <1>2, <1>3, PTL DEF ParallelSpec
=============================================================================
