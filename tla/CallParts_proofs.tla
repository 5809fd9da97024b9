-------------------------- MODULE CallParts_proofs --------------------------
(***************************************************************************)
(* Proofs about the parts of a call that MCCallParts checks side by side:  *)
(* the context relay, the WebRTC peer, the turns of the cascaded call and  *)
(* the realtime session. Each part is proved for its own specification.    *)
(***************************************************************************)
EXTENDS RealtimeSession, ContextRelay, CascadedTurns, WebRtcPeer, SequenceFacts, TLAPS

-----------------------------------------------------------------------------
(* ContextRelay.                                                           *)

RelayJob == [older : SUBSET Nat, prior : SUBSET Nat, target : Nat]

RelayTypes ==
  /\ turns \in Nat /\ usages \in Nat /\ sinceRebase \in Nat /\ base \in Nat
  /\ inFlight \in BOOLEAN /\ aged \in BOOLEAN
  /\ digest \in [covers : SUBSET Nat, through : Nat]
  /\ sent \in [base : Nat, carries : SUBSET Nat, upto : Nat]
  /\ jobs \subseteq RelayJob

\* The digest stands for the turns up to a mark, and the mark is not ahead of the call.
DigestWhole == digest.covers = 1 .. digest.through /\ digest.through <= turns

\* The detached task is at work on the turns up to its target, all of them, and on more than
\* the digest has; and there is one such task, while the flag is set.
JobsAhead ==
  /\ \A j \in jobs : /\ j.older = 1 .. j.target /\ j.prior \subseteq j.older
                     /\ digest.through < j.target /\ j.target <= turns
  /\ \A j, k \in jobs : j = k
  /\ inFlight <=> jobs # {}

RelayInv == RelayTypes /\ DigestWhole /\ JobsAhead /\ PromptCarriesAll

\* A prompt built from a whole digest carries every turn.
LEMMA PromptWhole ==
  ASSUME RelayTypes, DigestWhole, NEW b \in Nat
  PROVE  /\ EffectivePrompt(b) \in [base : Nat, carries : SUBSET Nat, upto : Nat]
         /\ EffectivePrompt(b).base = b
         /\ EffectivePrompt(b).carries = 1 .. EffectivePrompt(b).upto
BY DEF EffectivePrompt, RenderBlock, RelayTypes, DigestWhole

\* A compaction re-bases the session and starts at most one task.
LEMMA RelayFires ==
  ASSUME RelayInv, NEW full \in BOOLEAN, RelayUsage(full)
  PROVE  RelayInv'
<1> USE RelayAssumption DEF RelayInv
<1>1. CASE ShouldCompact(sinceRebase + 1, full)
  <2> DEFINE target == IF turns > KeepRecent THEN turns - KeepRecent ELSE 0
  <2>1. /\ sinceRebase' = 0 /\ aged' = FALSE /\ sent' = EffectivePrompt(base)
        /\ inFlight' = (target > digest.through)
        /\ jobs' = IF target <= digest.through THEN jobs
                   ELSE jobs \union {[older |-> 1 .. target, prior |-> digest.covers, target |-> target]}
        /\ usages' = usages + 1 /\ UNCHANGED <<turns, digest, base>>
    BY <1>1 DEF RelayUsage, FireCompaction
  <2>2. target \in Nat /\ target <= turns BY DEF RelayTypes
  <2>3. jobs = {} BY <1>1 DEF ShouldCompact, JobsAhead
  <2> HIDE DEF target
  <2>4. RelayTypes'
    <3>1. 1 .. target \in SUBSET Nat BY <2>2
    <3>2. jobs' \subseteq RelayJob BY <2>1, <2>2, <3>1 DEF RelayTypes, RelayJob
    <3>3. sent' \in [base : Nat, carries : SUBSET Nat, upto : Nat] BY <2>1, PromptWhole DEF RelayTypes
    <3>4. inFlight' \in BOOLEAN BY <2>1
    <3>5. sinceRebase' \in Nat /\ usages' \in Nat /\ UNCHANGED <<turns, digest, base>>
      BY <2>1 DEF RelayTypes
    <3>6. aged' \in BOOLEAN BY <2>1
    <3> QED BY <3>2, <3>3, <3>4, <3>5, <3>6 DEF RelayTypes
  <2>5. DigestWhole' BY <2>1 DEF DigestWhole
  <2>6. JobsAhead'
    <3>1. CASE target <= digest.through BY <2>1, <2>2, <2>3, <3>1 DEF JobsAhead, RelayTypes
    <3>2. CASE ~ (target <= digest.through)
      <4>1. jobs' = {[older |-> 1 .. target, prior |-> digest.covers, target |-> target]}
        BY <2>1, <2>3, <3>2
      <4>2. digest.covers \subseteq 1 .. target /\ digest.through < target
        BY <2>2, <3>2 DEF DigestWhole, RelayTypes
      <4>3. inFlight' BY <2>1, <4>2, <2>2 DEF RelayTypes
      <4>4. ASSUME NEW j \in jobs'
            PROVE  /\ j.older = 1 .. j.target /\ j.prior \subseteq j.older
                   /\ digest'.through < j.target /\ j.target <= turns'
        <5>1. j.older = 1 .. target /\ j.prior = digest.covers /\ j.target = target BY <4>1
        <5> QED BY <2>1, <2>2, <4>2, <5>1
      <4> QED BY <4>1, <4>3, <4>4 DEF JobsAhead
    <3> QED BY <3>1, <3>2
  <2>7. PromptCarriesAll' BY <2>1, PromptWhole DEF PromptCarriesAll, RelayTypes
  <2> QED BY <2>4, <2>5, <2>6, <2>7
<1>2. CASE ~ ShouldCompact(sinceRebase + 1, full)
  BY <1>2 DEF RelayUsage, RelayTypes, DigestWhole, JobsAhead, PromptCarriesAll
<1> QED BY <1>1, <1>2

\* What the task answers is a digest of the turns up to its target, or none.
LEMMA RelayAnswered ==
  ASSUME RelayInv, NEW j \in jobs, CompactorAnswers(j)
  PROVE  RelayInv' /\ digest'.through >= digest.through
<1> USE DEF RelayInv
<1>1. /\ j \in RelayJob /\ j.older = 1 .. j.target /\ j.older \union j.prior = 1 .. j.target
      /\ digest.through < j.target /\ j.target <= turns
  BY DEF RelayTypes, JobsAhead
<1>2. jobs' = {} /\ inFlight' = FALSE BY DEF CompactorAnswers, JobsAhead
<1>3. digest' = digest \/ digest' = [covers |-> 1 .. j.target, through |-> j.target]
  BY <1>1 DEF CompactorAnswers, Compact, BuildContext, NoSummary
<1>4. UNCHANGED <<turns, sinceRebase, aged, base, sent, usages>> BY DEF CompactorAnswers
<1>5. RelayTypes'
  <2>1. j.target \in Nat /\ 1 .. j.target \in SUBSET Nat BY <1>1 DEF RelayJob
  <2>2. digest' \in [covers : SUBSET Nat, through : Nat] BY <1>3, <2>1 DEF RelayTypes
  <2> QED BY <1>2, <1>4, <2>2 DEF RelayTypes
<1>6. DigestWhole' BY <1>1, <1>3, <1>4 DEF DigestWhole
<1>7. JobsAhead' BY <1>2 DEF JobsAhead
<1>8. PromptCarriesAll' BY <1>4 DEF PromptCarriesAll
<1>9. digest'.through >= digest.through BY <1>1, <1>3 DEF RelayTypes, RelayJob
<1> QED BY <1>5, <1>6, <1>7, <1>8, <1>9

\* A step of the relay keeps its invariant and never takes the digest back.
LEMMA RelayStep ==
  ASSUME RelayInv, [RelayNext]_relayVars
  PROVE  RelayInv' /\ digest'.through >= digest.through
<1> USE DEF RelayInv
<1>1. CASE RelayTurn
  BY <1>1 DEF RelayTurn, RelayTypes, DigestWhole, JobsAhead, PromptCarriesAll, RelayJob
<1>2. CASE SessionAges
  BY <1>2 DEF SessionAges, RelayTypes, DigestWhole, JobsAhead, PromptCarriesAll
<1>3. CASE BrainReprompt
  <2>1. base' = base + 1 /\ base + 1 \in Nat /\ sent' = EffectivePrompt(base + 1)
    BY <1>3 DEF BrainReprompt, RelayTypes
  <2>2. UNCHANGED <<turns, digest, jobs, inFlight, sinceRebase, aged, usages>> BY <1>3 DEF BrainReprompt
  <2>3. /\ sent' \in [base : Nat, carries : SUBSET Nat, upto : Nat]
        /\ sent'.base = base' /\ sent'.carries = 1 .. sent'.upto
    BY <2>1, PromptWhole
  <2> QED BY <2>1, <2>2, <2>3 DEF RelayTypes, DigestWhole, JobsAhead, PromptCarriesAll
<1>4. ASSUME NEW full \in BOOLEAN, RelayUsage(full) PROVE RelayInv' /\ UNCHANGED digest
  BY <1>4, RelayFires DEF RelayUsage
<1>5. ASSUME NEW j \in jobs, CompactorAnswers(j) PROVE RelayInv' /\ digest'.through >= digest.through
  BY <1>5, RelayAnswered
<1>6. CASE UNCHANGED relayVars
  BY <1>6 DEF relayVars, RelayTypes, DigestWhole, JobsAhead, PromptCarriesAll
<1>7. UNCHANGED digest => digest'.through >= digest.through BY DEF RelayTypes
<1> QED BY <1>1, <1>2, <1>3, <1>4, <1>5, <1>6, <1>7 DEF RelayNext, RelayTurn, SessionAges, BrainReprompt, relayVars

\* The relay starts with nothing to carry.
LEMMA RelayStart == RelayInit => RelayInv
<1> SUFFICES ASSUME RelayInit PROVE RelayInv
  OBVIOUS
<1> USE DEF RelayInit
<1>1. RelayTypes BY DEF RelayTypes
<1>2. 1 .. 0 = {} OBVIOUS
<1>3. DigestWhole BY <1>2 DEF DigestWhole
<1>4. JobsAhead BY DEF JobsAhead
<1>5. PromptCarriesAll BY <1>2 DEF PromptCarriesAll
<1> QED BY <1>1, <1>3, <1>4, <1>5 DEF RelayInv

\* No turn is lost by a refresh, whatever the compactor has answered and however late: every
\* prompt that a session is opened with carries all turns so far on the brain's latest base.
THEOREM PromptsWhole == RelaySpec => []PromptCarriesAll
<1>1. RelayInv /\ [RelayNext]_relayVars => RelayInv' BY RelayStep
<1>2. RelayInv => PromptCarriesAll BY DEF RelayInv
<1> QED BY <1>1, <1>2, RelayStart, PTL DEF RelaySpec

\* The digest never goes back to fewer turns.
THEOREM DigestMonotone == RelaySpec => DigestForward
<1>1. RelayInv /\ [RelayNext]_relayVars => RelayInv' BY RelayStep
<1>2. RelayInv /\ [RelayNext]_relayVars => [digest'.through >= digest.through]_relayVars BY RelayStep
<1> QED BY <1>1, <1>2, RelayStart, PTL DEF RelaySpec, DigestForward

-----------------------------------------------------------------------------
(* WebRtcPeer.                                                             *)

Events == {"connected", "opus", "closed"}
Heard == {"start", "audio", "stop"}
OutFrames == [time : Nat, greeted : BOOLEAN]
Loops == [at : {"poll", "media", "done"}, connected : BOOLEAN, mid : BOOLEAN, announced : BOOLEAN]
Transports ==
  [at : {"idle", "sending", "dropped"}, started : BOOLEAN, pending : Int, time : Nat, chunks : Int]

PeerTypes ==
  /\ loop \in Loops /\ transport \in Transports
  /\ inq \in Seq(Events) /\ outq \in Seq(OutFrames)
  /\ received \in Seq(Heard) /\ wire \in Seq(Nat) /\ discarded \in Seq(OutFrames)

\* The announcement is the first event that the loop sends and has its place in the channel; it
\* is there until the transport has read it, whatever a full channel drops behind it.
Announced ==
  /\ loop.announced <=> (loop.connected /\ loop.mid)
  /\ loop.at = "media" => loop.announced
  /\ transport.started => loop.announced
  /\ ~ loop.announced => \A k \in 1 .. Len(inq) : inq[k] = "closed"
  /\ ~ loop.announced /\ loop.at # "done" => inq = <<>> /\ received = <<>>
  /\ \A k \in 1 .. Len(inq) : inq[k] = "connected" => k = 1 /\ ~ transport.started
  /\ loop.announced /\ ~ transport.started /\ transport.at # "dropped" =>
       inq # <<>> /\ inq[1] = "connected" /\ received = <<>>

Hearing ==
  /\ transport.started => received # <<>> /\ received[1] = "start"
  /\ ~ transport.started => received = <<>> \/ received = <<"stop">>
  /\ \A k \in 1 .. Len(received) : received[k] = "start" => k = 1

\* Frames carry times that the transport has left behind, and a frame that was sent after the
\* announcement finds the audio line known.
Speaking ==
  /\ \A k \in 1 .. Len(outq) : outq[k].time < transport.time /\ (outq[k].greeted => loop.announced)
  /\ \A j, k \in 1 .. Len(outq) : j < k => outq[j].time < outq[k].time
  /\ \A k \in 1 .. Len(wire) : wire[k] < transport.time
  /\ TimesAdvance
  /\ \A k \in 1 .. Len(discarded) : ~ discarded[k].greeted

PeerInv == PeerTypes /\ Announced /\ Hearing /\ Speaking

\* try_send: the channel as it was, or one event longer.
LEMMA TrySendIs ==
  ASSUME NEW q \in Seq(Events), NEW e \in Events
  PROVE  LET r == TrySend(q, e) IN
         /\ r \in Seq(Events) /\ Len(q) \in Nat
         /\ \A k \in 1 .. Len(r) :
              (k \in 1 .. Len(q) /\ r[k] = q[k]) \/ (k = Len(q) + 1 /\ r[k] = e)
         /\ q # <<>> => r # <<>> /\ r[1] = q[1]
         /\ q = <<>> => r # <<>> /\ r[1] = e
<1> DEFINE r == TrySend(q, e)
<1>1. Len(q) \in Nat /\ (q = <<>> <=> Len(q) = 0) BY LenProperties, EmptySeq
<1>2. CASE Len(q) < InboundDepth
  <2>1. r = Append(q, e) BY <1>2 DEF TrySend
  <2>2. /\ Append(q, e) \in Seq(Events) /\ Append(q, e) # <<>>
        /\ \A k \in 1 .. Len(q) : Append(q, e)[k] = q[k]
        /\ Append(q, e)[Len(q) + 1] = e
    BY AppendProperties
  <2>3. \A k \in 1 .. Len(Append(q, e)) :
          \/ k \in 1 .. Len(q) /\ Append(q, e)[k] = q[k]
          \/ k = Len(q) + 1 /\ Append(q, e)[k] = e
    BY AppendAt
  <2>4. q # <<>> => 1 \in 1 .. Len(q) BY <1>1
  <2>5. q = <<>> => Len(q) + 1 = 1 BY <1>1
  <2> QED BY <1>1, <2>1, <2>2, <2>3, <2>4, <2>5
<1>3. CASE ~ (Len(q) < InboundDepth)
  <2>1. r = q BY <1>3 DEF TrySend
  <2>2. q # <<>> BY <1>1, <1>3, PeerAssumption
  <2> QED BY <1>1, <2>1, <2>2
<1> QED BY <1>2, <1>3

\* Steps that leave the outbound side and the announcement alone.
LEMMA SpeakingStays ==
  ASSUME Speaking, UNCHANGED <<outq, wire, discarded>>, transport'.time = transport.time,
         loop.announced => loop'.announced
  PROVE  Speaking'
  BY DEF Speaking, TimesAdvance

\* Connected or MediaAdded; the second of them announces the call.
LEMMA HandleEventKeeps ==
  ASSUME PeerInv, NEW c \in BOOLEAN, NEW m \in BOOLEAN, HandleEvent(c, m)
  PROVE  PeerInv'
<1> DEFINE l == [loop EXCEPT !.connected = @ \/ c, !.mid = @ \/ m]
<1>1. PeerTypes /\ Announced /\ Hearing /\ Speaking BY DEF PeerInv
<1>2. /\ loop.at = "poll" /\ UNCHANGED <<outq, transport, received, wire, discarded>>
      /\ loop' = AnnounceConnected(l, inq).loop /\ inq' = AnnounceConnected(l, inq).inq
  BY DEF HandleEvent
<1>3. /\ l \in Loops /\ l.at = "poll" /\ l.announced = loop.announced
      /\ l.connected = (loop.connected \/ c) /\ l.mid = (loop.mid \/ m)
  BY <1>1, <1>2 DEF PeerTypes, Loops
<1> HIDE DEF l
<1>4. CASE l.announced \/ ~ l.connected \/ ~ l.mid
  <2>1. loop' = l /\ inq' = inq BY <1>2, <1>4 DEF AnnounceConnected
  <2>2. PeerTypes' BY <1>1, <1>2, <1>3, <2>1 DEF PeerTypes
  <2>3. Announced'
    <3>1. loop'.announced <=> (loop'.connected /\ loop'.mid) BY <1>1, <1>3, <1>4, <2>1 DEF Announced
    <3> QED BY <1>1, <1>2, <1>3, <2>1, <3>1 DEF Announced
  <2>4. Hearing' BY <1>1, <1>2 DEF Hearing
  <2>5. Speaking' BY <1>1, <1>2, <1>3, <2>1, SpeakingStays
  <2> QED BY <2>2, <2>3, <2>4, <2>5 DEF PeerInv
<1>5. CASE ~ l.announced /\ l.connected /\ l.mid
  <2> DEFINE n == [l EXCEPT !.announced = TRUE]
  <2>1. loop' = n /\ inq' = TrySend(inq, "connected") BY <1>2, <1>5 DEF AnnounceConnected
  <2>2. n \in Loops /\ n.at = "poll" /\ n.announced /\ n.connected /\ n.mid
    BY <1>3, <1>5 DEF Loops
  <2> HIDE DEF n
  <2>3. ~ loop.announced /\ inq = <<>> /\ received = <<>> /\ ~ transport.started
    BY <1>1, <1>2, <1>3, <1>5 DEF Announced
  <2>4. /\ inq' \in Seq(Events) /\ inq' # <<>> /\ inq'[1] = "connected"
        /\ \A k \in 1 .. Len(inq') : k = 1
    <3>1. <<>> \in Seq(Events) /\ "connected" \in Events /\ Len(<<>>) = 0 /\ 1 .. 0 = {} BY DEF Events
    <3>2. /\ inq' \in Seq(Events) /\ inq' # <<>> /\ inq'[1] = "connected"
          /\ \A k \in 1 .. Len(inq') : k \in 1 .. Len(<<>>) \/ k = Len(<<>>) + 1
      BY <2>1, <2>3, <3>1, TrySendIs
    <3> QED BY <3>1, <3>2
  <2>5. PeerTypes' BY <1>1, <1>2, <2>1, <2>2, <2>4 DEF PeerTypes
  <2>6. Announced' BY <1>2, <2>1, <2>2, <2>3, <2>4 DEF Announced
  <2>7. Hearing' BY <1>1, <1>2 DEF Hearing
  <2>8. Speaking' BY <1>1, <1>2, <2>1, <2>2, SpeakingStays
  <2> QED BY <2>5, <2>6, <2>7, <2>8 DEF PeerInv
<1> QED BY <1>3, <1>4, <1>5 DEF Loops

\* An event of the loop behind the announcement: a packet, or its end.
LEMMA OfferKeeps ==
  ASSUME PeerInv, NEW e \in {"opus", "closed"}, inq' = TrySend(inq, e),
         e = "opus" => loop.announced,
         loop' \in Loops, e = "closed" => loop'.at = "done", loop'.at # "media",
         loop'.announced = loop.announced, loop'.connected = loop.connected, loop'.mid = loop.mid,
         UNCHANGED <<transport, received>>
  PROVE  inq' \in Seq(Events) /\ Announced' /\ Hearing'
<1>1. PeerTypes /\ Announced /\ Hearing BY DEF PeerInv
<1>2. inq \in Seq(Events) /\ e \in Events BY <1>1 DEF PeerTypes, Events
<1>3. /\ inq' \in Seq(Events)
      /\ \A k \in 1 .. Len(inq') : (k \in 1 .. Len(inq) /\ inq'[k] = inq[k]) \/ inq'[k] = e
      /\ inq # <<>> => inq' # <<>> /\ inq'[1] = inq[1]
  BY <1>2, TrySendIs
<1>4. ~ loop'.announced => e = "closed" /\ \A k \in 1 .. Len(inq') : inq'[k] = "closed"
  BY <1>1, <1>3 DEF Announced
<1>5. \A k \in 1 .. Len(inq') : inq'[k] = "connected" => k = 1 /\ ~ transport.started
  BY <1>1, <1>3 DEF Announced
<1>6. Announced' BY <1>1, <1>3, <1>4, <1>5 DEF Announced
<1> QED BY <1>1, <1>3, <1>6 DEF Hearing

\* The steps of the loop that offer an event.
LEMMA LoopKeeps ==
  ASSUME PeerInv, MediaArrives \/ DeliverMedia \/ LoopEnds
  PROVE  PeerInv'
<1>1. PeerTypes /\ Announced /\ Hearing /\ Speaking BY DEF PeerInv
<1>2. CASE MediaArrives
  <2>1. /\ loop.connected /\ loop.mid /\ loop.at = "poll" /\ loop' = [loop EXCEPT !.at = "media"]
        /\ UNCHANGED <<inq, outq, transport, received, wire, discarded>>
    BY <1>2 DEF MediaArrives
  <2>2. /\ loop' \in Loops /\ loop'.at = "media" /\ loop'.announced = loop.announced
        /\ loop'.connected = loop.connected /\ loop'.mid = loop.mid
    BY <1>1, <2>1 DEF PeerTypes, Loops
  <2>3. loop.announced BY <1>1, <2>1 DEF Announced
  <2>4. PeerTypes' BY <1>1, <2>1, <2>2 DEF PeerTypes
  <2>5. Announced' BY <1>1, <2>1, <2>2, <2>3 DEF Announced
  <2>6. Hearing' BY <1>1, <2>1 DEF Hearing
  <2>7. Speaking' BY <1>1, <2>1, <2>2, SpeakingStays
  <2> QED BY <2>4, <2>5, <2>6, <2>7 DEF PeerInv
<1>3. CASE DeliverMedia
  <2>1. /\ loop.at = "media" /\ loop' = [loop EXCEPT !.at = "poll"] /\ inq' = TrySend(inq, "opus")
        /\ UNCHANGED <<outq, transport, received, wire, discarded>>
    BY <1>3 DEF DeliverMedia
  <2>2. /\ loop' \in Loops /\ loop'.at = "poll" /\ loop'.announced = loop.announced
        /\ loop'.connected = loop.connected /\ loop'.mid = loop.mid
    BY <1>1, <2>1 DEF PeerTypes, Loops
  <2>3. loop.announced BY <1>1, <2>1 DEF Announced
  <2>4. inq' \in Seq(Events) /\ Announced' /\ Hearing' BY <2>1, <2>2, <2>3, OfferKeeps
  <2>5. PeerTypes' BY <1>1, <2>1, <2>2, <2>4 DEF PeerTypes
  <2>6. Speaking' BY <1>1, <2>1, <2>2, SpeakingStays
  <2> QED BY <2>4, <2>5, <2>6 DEF PeerInv
<1>4. CASE LoopEnds
  <2>1. /\ loop' = [loop EXCEPT !.at = "done"] /\ inq' = TrySend(inq, "closed") /\ outq' = <<>>
        /\ UNCHANGED <<transport, received, wire, discarded>>
    BY <1>4 DEF LoopEnds
  <2>2. /\ loop' \in Loops /\ loop'.at = "done" /\ loop'.announced = loop.announced
        /\ loop'.connected = loop.connected /\ loop'.mid = loop.mid
    BY <1>1, <2>1 DEF PeerTypes, Loops
  <2>3. inq' \in Seq(Events) /\ Announced' /\ Hearing' BY <2>1, <2>2, OfferKeeps
  <2>4. <<>> \in Seq(OutFrames) /\ Len(<<>>) = 0 /\ 1 .. 0 = {} OBVIOUS
  <2>5. PeerTypes' BY <1>1, <2>1, <2>2, <2>3, <2>4 DEF PeerTypes
  <2>6. Speaking' BY <1>1, <2>1, <2>4 DEF Speaking, TimesAdvance
  <2> QED BY <2>3, <2>5, <2>6 DEF PeerInv
<1> QED BY <1>2, <1>3, <1>4

\* A frame of the bot is written, or discarded while the audio line is not known.
LEMMA WriteAudioKeeps ==
  ASSUME PeerInv, WriteAudio
  PROVE  PeerInv'
<1>1. PeerTypes /\ Announced /\ Hearing /\ Speaking BY DEF PeerInv
<1> DEFINE h == Head(outq)
<1>2. /\ outq # <<>> /\ outq' = Tail(outq) /\ UNCHANGED <<loop, inq, transport, received>>
      /\ \/ loop.mid /\ wire' = Append(wire, h.time) /\ UNCHANGED discarded
         \/ ~ loop.mid /\ discarded' = Append(discarded, h) /\ UNCHANGED wire
  BY DEF WriteAudio
<1>3. /\ outq' \in Seq(OutFrames) /\ Len(outq) \in Nat
      /\ h \in OutFrames /\ h = outq[1] /\ 1 \in 1 .. Len(outq)
      /\ \A k \in 1 .. Len(outq') : k + 1 \in 1 .. Len(outq) /\ outq'[k] = outq[k + 1]
  BY <1>1, <1>2, TailAt DEF PeerTypes
<1> HIDE DEF h
<1>4. h.time \in Nat /\ transport.time \in Nat BY <1>1, <1>3 DEF OutFrames, PeerTypes, Transports
<1>5. \A k \in 1 .. Len(outq') : k + 1 > 1 BY <1>3
<1>6. /\ h.time < transport.time /\ (h.greeted => loop.announced)
      /\ \A k \in 1 .. Len(outq') : h.time < outq'[k].time
      /\ \A k \in 1 .. Len(wire) : wire[k] < h.time
  BY <1>1, <1>3, <1>5 DEF Speaking, TimesAdvance
<1>7. /\ \A k \in 1 .. Len(outq') : outq'[k].time < transport.time /\ (outq'[k].greeted => loop.announced)
      /\ \A j, k \in 1 .. Len(outq') : j < k => outq'[j].time < outq'[k].time
      /\ \A i \in 1 .. Len(wire) : \A j \in 1 .. Len(outq') : wire[i] < outq'[j].time
  <2>1. \A j, k \in 1 .. Len(outq') : j < k => j + 1 < k + 1 BY <1>3
  <2> QED BY <1>1, <1>3, <2>1 DEF Speaking, TimesAdvance
<1>8. CASE loop.mid /\ wire' = Append(wire, h.time) /\ UNCHANGED discarded
  <2>1. /\ wire' \in Seq(Nat) /\ Len(wire) \in Nat
        /\ \A k \in 1 .. Len(wire') :
             (k \in 1 .. Len(wire) /\ wire'[k] = wire[k]) \/ (k = Len(wire) + 1 /\ wire'[k] = h.time)
    BY <1>1, <1>4, <1>8, AppendAt DEF PeerTypes
  <2>2. PeerTypes' BY <1>1, <1>2, <1>3, <1>8, <2>1 DEF PeerTypes
  <2>3. ASSUME NEW j \in 1 .. Len(wire'), NEW k \in 1 .. Len(wire'), j < k PROVE wire'[j] < wire'[k]
    <3>1. j # Len(wire) + 1 BY <2>1, <2>3
    <3>2. j \in 1 .. Len(wire) /\ wire'[j] = wire[j] BY <2>1, <3>1
    <3> QED BY <1>1, <1>6, <2>1, <2>3, <3>2 DEF Speaking, TimesAdvance
  <2>4. \A k \in 1 .. Len(wire') : wire'[k] < transport.time BY <1>1, <1>6, <2>1 DEF Speaking
  <2>5. \A i \in 1 .. Len(wire') : \A j \in 1 .. Len(outq') : wire'[i] < outq'[j].time
    BY <1>6, <1>7, <2>1
  <2>6. Speaking' BY <1>1, <1>2, <1>7, <1>8, <2>3, <2>4, <2>5 DEF Speaking, TimesAdvance
  <2> QED BY <1>1, <1>2, <2>2, <2>6 DEF PeerInv, Announced, Hearing
<1>9. CASE ~ loop.mid /\ discarded' = Append(discarded, h) /\ UNCHANGED wire
  <2>1. /\ discarded' \in Seq(OutFrames)
        /\ \A k \in 1 .. Len(discarded') :
             (k \in 1 .. Len(discarded) /\ discarded'[k] = discarded[k]) \/ discarded'[k] = h
    BY <1>1, <1>3, <1>9, AppendAt DEF PeerTypes
  <2>2. PeerTypes' BY <1>1, <1>2, <1>3, <1>9, <2>1 DEF PeerTypes
  <2>3. ~ h.greeted BY <1>1, <1>6, <1>9 DEF Announced
  <2>4. \A k \in 1 .. Len(discarded') : ~ discarded'[k].greeted BY <1>1, <2>1, <2>3 DEF Speaking
  <2>5. Speaking' BY <1>1, <1>2, <1>7, <1>9, <2>4 DEF Speaking, TimesAdvance
  <2> QED BY <1>1, <1>2, <2>2, <2>5 DEF PeerInv, Announced, Hearing
<1> QED BY <1>2, <1>8, <1>9

\* The pump receives.
LEMMA PumpReceivesKeeps ==
  ASSUME PeerInv, PumpReceives
  PROVE  PeerInv'
<1>1. PeerTypes /\ Announced /\ Hearing /\ Speaking BY DEF PeerInv
<1>2. /\ transport.at = "idle" /\ ~ Stopped /\ UNCHANGED <<loop, outq, wire, discarded>>
      /\ \E heard \in BOOLEAN : Recv(heard)
  BY DEF PumpReceives
<1>3. received \in Seq(Heard) /\ Len(received) \in Nat /\ <<>> \in Seq(Heard) /\ inq \in Seq(Events)
  BY <1>1, LenProperties DEF PeerTypes
<1>4. ~ transport.started => received = <<>>
  <2>1. <<"stop">> # <<>> /\ Len(<<"stop">>) = 1 /\ <<"stop">>[1] = "stop" OBVIOUS
  <2> QED BY <1>1, <1>2, <2>1 DEF Stopped, Hearing
<1>5. ASSUME NEW x \in Heard, received' = Append(received, x),
             transport'.started => received # <<>> \/ x = "start",
             x = "start" => ~ transport.started,
             ~ transport'.started => ~ transport.started /\ x = "stop",
             transport.started => transport'.started
      PROVE  received' \in Seq(Heard) /\ Hearing'
  <2>1. /\ received' \in Seq(Heard) /\ received' # <<>>
        /\ \A k \in 1 .. Len(received) : received'[k] = received[k]
        /\ received'[Len(received) + 1] = x
    BY <1>3, <1>5, AppendProperties
  <2>2. \A k \in 1 .. Len(received') :
          (k \in 1 .. Len(received) /\ received'[k] = received[k])
          \/ (k = Len(received) + 1 /\ received'[k] = x)
    BY <1>3, <1>5, AppendAt
  <2>3. received = <<>> => Len(received) = 0 BY <1>3
  <2>4. received # <<>> => 1 \in 1 .. Len(received) BY <1>3, EmptySeq
  <2>5. transport'.started => received'[1] = "start"
    <3>1. CASE received = <<>>
      <4>1. transport'.started => x = "start" BY <1>5, <3>1
      <4> QED BY <2>1, <2>3, <3>1, <4>1
    <3>2. CASE received # <<>> BY <1>1, <1>4, <2>1, <2>4, <3>2 DEF Hearing
    <3> QED BY <3>1, <3>2
  <2>6. ~ transport'.started => received' = <<"stop">>
    <3> SUFFICES ASSUME ~ transport'.started PROVE received' = <<"stop">> OBVIOUS
    <3>1. received = <<>> /\ x = "stop" BY <1>4, <1>5
    <3>2. Append(<<>>, "stop") = <<"stop">> OBVIOUS
    <3> QED BY <1>5, <3>1, <3>2
  <2>7. \A k \in 1 .. Len(received') : received'[k] = "start" => k = 1
    <3>1. x = "start" => Len(received) + 1 = 1 BY <1>4, <1>5, <2>3
    <3> QED BY <1>1, <2>2, <3>1 DEF Hearing
  <2> QED BY <2>1, <2>5, <2>6, <2>7 DEF Hearing
<1>6. CASE inq = <<>> /\ loop.at = "done" /\ received' = Append(received, "stop") /\ UNCHANGED <<inq, transport>>
  <2>1. transport.started => received # <<>> BY <1>1 DEF Hearing
  <2>2. received' \in Seq(Heard) /\ Hearing' BY <1>5, <1>6, <2>1 DEF Heard
  <2>3. Announced' BY <1>1, <1>2, <1>6 DEF Announced
  <2>4. PeerTypes' BY <1>1, <1>2, <1>6, <2>2 DEF PeerTypes
  <2>5. Speaking' BY <1>1, <1>2, <1>6, SpeakingStays
  <2> QED BY <2>2, <2>3, <2>4, <2>5 DEF PeerInv
<1>7. ASSUME NEW heard \in BOOLEAN, RecvEvent(heard) PROVE PeerInv'
  <2> DEFINE e == Head(inq)
  <2>1. /\ inq # <<>> /\ inq' = Tail(inq)
        /\ transport' = [transport EXCEPT !.started = @ \/ e = "connected"]
        /\ received' = CASE e = "connected" /\ ~transport.started -> Append(received, "start")
                         [] e = "opus" /\ heard -> Append(received, "audio")
                         [] e = "closed" -> Append(received, "stop")
                         [] OTHER -> received
    BY <1>7 DEF RecvEvent
  <2>2. /\ inq' \in Seq(Events) /\ e \in Events /\ e = inq[1] /\ 1 \in 1 .. Len(inq)
        /\ \A k \in 1 .. Len(inq') : k + 1 \in 1 .. Len(inq) /\ inq'[k] = inq[k + 1] /\ k + 1 # 1
    BY <1>3, <2>1, TailAt
  <2> HIDE DEF e
  <2>3. /\ transport' \in Transports /\ transport'.started = (transport.started \/ e = "connected")
        /\ transport'.at = "idle" /\ transport'.time = transport.time
    BY <1>1, <1>2, <2>1 DEF PeerTypes, Transports
  <2>4. e = "connected" => ~ transport.started /\ loop.announced
    BY <1>1, <2>2 DEF Announced
  <2>5. ~ transport.started /\ loop.announced => e = "connected"
    BY <1>1, <1>2, <2>2 DEF Announced
  <2>6. ~ loop.announced => e = "closed" BY <1>1, <2>2 DEF Announced
  <2>7. transport.started => received # <<>> BY <1>1 DEF Hearing
  <2>8. received' \in Seq(Heard) /\ Hearing'
    <3>1. CASE e = "connected"
      <4>1. received' = Append(received, "start") BY <2>1, <2>4, <3>1
      <4> QED BY <1>5, <2>3, <2>4, <3>1, <4>1 DEF Heard
    <3>2. CASE e = "closed"
      <4>1. received' = Append(received, "stop") BY <2>1, <3>2
      <4> QED BY <1>5, <2>3, <2>7, <3>2, <4>1 DEF Heard
    <3>3. CASE e = "opus" /\ heard
      <4>1. received' = Append(received, "audio") BY <2>1, <3>3
      <4>2. transport.started BY <2>4, <2>5, <2>6, <3>3
      <4> QED BY <1>5, <2>3, <2>7, <4>1, <4>2 DEF Heard
    <3>4. CASE e = "opus" /\ ~ heard
      <4>1. received' = received BY <2>1, <3>4
      <4>2. transport'.started <=> transport.started BY <2>3, <3>4
      <4> QED BY <1>1, <1>3, <4>1, <4>2 DEF Hearing
    <3> QED BY <2>2, <3>1, <3>2, <3>3, <3>4 DEF Events
  <2>9. Announced'
    <3>1. transport'.started => loop.announced BY <1>1, <2>3, <2>4 DEF Announced
    <3>2. \A k \in 1 .. Len(inq') : inq'[k] # "connected" BY <1>1, <2>2 DEF Announced
    <3>3. ~ loop.announced => \A k \in 1 .. Len(inq') : inq'[k] = "closed" BY <1>1, <2>2 DEF Announced
    <3>4. loop.announced => transport'.started BY <2>3, <2>5
    <3>5. ~ loop.announced => loop.at = "done" BY <1>1, <2>1 DEF Announced
    <3>6. loop' = loop BY <1>2
    <3>7. loop.announced <=> (loop.connected /\ loop.mid) BY <1>1 DEF Announced
    <3>8. loop.at = "media" => loop.announced BY <1>1 DEF Announced
    <3> QED BY <3>1, <3>2, <3>3, <3>4, <3>5, <3>6, <3>7, <3>8 DEF Announced
  <2>10. PeerTypes' BY <1>1, <1>2, <2>2, <2>3, <2>8 DEF PeerTypes
  <2>11. Speaking' BY <1>1, <1>2, <2>3, SpeakingStays
  <2> QED BY <2>8, <2>9, <2>10, <2>11 DEF PeerInv
<1> QED BY <1>2, <1>6, <1>7 DEF Recv

\* The steps of send_audio and send_clear but for the frame itself.
LEMMA SendKeeps ==
  ASSUME PeerInv, SendReturns \/ SendClear \/ \E halves \in HalvesPerChunk : SendChunk(halves)
  PROVE  PeerInv'
<1>1. PeerTypes /\ Announced /\ Hearing /\ Speaking BY DEF PeerInv
<1>2. UNCHANGED <<loop, inq, outq, received, wire, discarded>>
  BY DEF SendReturns, SendClear, SendChunk
<1>3. transport.at # "dropped" BY DEF SendReturns, SendClear, SendChunk
<1>4. /\ transport' \in Transports /\ transport'.started = transport.started
      /\ transport'.at # "dropped"
      /\ transport.time \in Nat /\ transport'.time \in Nat /\ transport.time <= transport'.time
  <2>1. transport \in Transports BY <1>1 DEF PeerTypes
  <2> DEFINE p == transport.pending - FrameHalves
             n == transport.time + 1
  <2>5. p \in Int /\ n \in Nat /\ transport.time \in Nat /\ transport.time <= n
    BY <2>1 DEF Transports, FrameHalves
  <2>2. CASE SendReturns
    <3>1. \/ transport' = [transport EXCEPT !.at = "idle"]
          \/ transport' = [transport EXCEPT !.at = "idle", !.pending = p, !.time = n]
      BY <2>2 DEF SendReturns
    <3> HIDE DEF p, n
    <3>2. CASE transport' = [transport EXCEPT !.at = "idle"] BY <2>1, <3>2 DEF Transports
    <3>3. CASE transport' = [transport EXCEPT !.at = "idle", !.pending = p, !.time = n]
      BY <2>1, <2>5, <3>3 DEF Transports
    <3> QED BY <3>1, <3>2, <3>3
  <2>3. CASE SendClear BY <2>1, <2>3 DEF SendClear, Transports
  <2>4. ASSUME NEW halves \in HalvesPerChunk, SendChunk(halves)
        PROVE  /\ transport' \in Transports /\ transport'.started = transport.started
               /\ transport'.at # "dropped"
               /\ transport.time \in Nat /\ transport'.time \in Nat /\ transport.time <= transport'.time
    <3> DEFINE q == transport.pending + halves
               c == transport.chunks + 1
    <3>1. halves \in Nat BY PeerAssumption
    <3>2. q \in Int /\ c \in Int BY <2>1, <3>1 DEF Transports
    <3>3. transport' = [transport EXCEPT !.at = "sending", !.pending = q, !.chunks = c]
      BY <2>4 DEF SendChunk
    <3> HIDE DEF q, c
    <3>4. /\ transport' \in Transports /\ transport'.started = transport.started
          /\ transport'.at = "sending" /\ transport'.time = transport.time
      BY <2>1, <3>2, <3>3 DEF Transports
    <3>5. transport.time \in Nat /\ transport.time <= transport.time BY <2>1 DEF Transports
    <3> QED BY <3>4, <3>5
  <2> QED BY <2>2, <2>3, <2>4
<1>5. PeerTypes' BY <1>1, <1>2, <1>4 DEF PeerTypes
<1>6. Announced' BY <1>1, <1>2, <1>3, <1>4 DEF Announced
<1>7. Hearing' BY <1>1, <1>2, <1>4 DEF Hearing
<1>8. Speaking'
  <2>1. \A k \in 1 .. Len(outq) : outq[k].time \in Nat
    <3>1. \A k \in 1 .. Len(outq) : outq[k] \in OutFrames BY <1>1, ElementOfSeq DEF PeerTypes
    <3> QED BY <3>1 DEF OutFrames
  <2>2. \A k \in 1 .. Len(wire) : wire[k] \in Nat BY <1>1, ElementOfSeq DEF PeerTypes
  <2>3. \A k \in 1 .. Len(outq) : outq[k].time < transport'.time BY <1>1, <1>4, <2>1 DEF Speaking
  <2>4. \A k \in 1 .. Len(wire) : wire[k] < transport'.time BY <1>1, <1>4, <2>2 DEF Speaking
  <2> QED BY <1>1, <1>2, <2>3, <2>4 DEF Speaking, TimesAdvance
<1> QED BY <1>5, <1>6, <1>7, <1>8 DEF PeerInv

\* A frame goes to the loop, with the next time.
LEMMA SendFrameKeeps ==
  ASSUME PeerInv, SendFrame
  PROVE  PeerInv'
<1>1. PeerTypes /\ Announced /\ Hearing /\ Speaking BY DEF PeerInv
<1> DEFINE f == [time |-> transport.time, greeted |-> transport.started]
<1>2. /\ transport.at = "sending" /\ outq' = Append(outq, f)
      /\ transport' = [transport EXCEPT !.pending = @ - FrameHalves, !.time = @ + 1]
      /\ UNCHANGED <<loop, inq, received, wire, discarded>>
  BY DEF SendFrame
<1>3. /\ transport' \in Transports /\ transport'.started = transport.started
      /\ transport'.at = "sending" /\ transport.time \in Nat /\ transport'.time = transport.time + 1
  <2> DEFINE p == transport.pending - FrameHalves
             n == transport.time + 1
  <2>1. transport \in Transports BY <1>1 DEF PeerTypes
  <2>2. p \in Int /\ n \in Nat /\ transport.time \in Nat BY <2>1 DEF Transports, FrameHalves
  <2>3. transport' = [transport EXCEPT !.pending = p, !.time = n] BY <1>2
  <2>4. n = transport.time + 1 OBVIOUS
  <2> HIDE DEF p, n
  <2> QED BY <1>2, <2>1, <2>2, <2>3, <2>4 DEF Transports
<1>4. f \in OutFrames /\ f.time = transport.time /\ f.greeted = transport.started
  BY <1>1 DEF PeerTypes, Transports, OutFrames
<1> HIDE DEF f
<1>5. /\ outq' \in Seq(OutFrames) /\ Len(outq) \in Nat
      /\ \A k \in 1 .. Len(outq') :
           (k \in 1 .. Len(outq) /\ outq'[k] = outq[k]) \/ (k = Len(outq) + 1 /\ outq'[k] = f)
  BY <1>1, <1>2, <1>4, AppendAt DEF PeerTypes
<1>6. PeerTypes' BY <1>1, <1>2, <1>3, <1>5 DEF PeerTypes
<1>7. Announced' BY <1>1, <1>2, <1>3 DEF Announced
<1>8. Hearing' BY <1>1, <1>2, <1>3 DEF Hearing
<1>9. /\ \A k \in 1 .. Len(outq) : outq[k].time < transport.time /\ outq[k].time < transport.time + 1
      /\ \A k \in 1 .. Len(wire) : wire[k] < transport.time /\ wire[k] < transport.time + 1
  <2>1. \A k \in 1 .. Len(outq) : outq[k].time \in Nat
    <3>1. \A k \in 1 .. Len(outq) : outq[k] \in OutFrames BY <1>1, ElementOfSeq DEF PeerTypes
    <3> QED BY <3>1 DEF OutFrames
  <2>2. \A k \in 1 .. Len(wire) : wire[k] \in Nat BY <1>1, ElementOfSeq DEF PeerTypes
  <2> QED BY <1>1, <1>3, <2>1, <2>2 DEF Speaking
<1>10. f.time < transport.time + 1 /\ (f.greeted => loop.announced)
  BY <1>1, <1>3, <1>4 DEF Announced
<1>11. ASSUME NEW j \in 1 .. Len(outq'), NEW k \in 1 .. Len(outq'), j < k
       PROVE  outq'[j].time < outq'[k].time
  <2>1. j # Len(outq) + 1 BY <1>5, <1>11
  <2>2. j \in 1 .. Len(outq) /\ outq'[j] = outq[j] BY <1>5, <2>1
  <2> QED BY <1>1, <1>4, <1>5, <1>9, <1>11, <2>2 DEF Speaking
<1>12. \A k \in 1 .. Len(outq') : outq'[k].time < transport'.time /\ (outq'[k].greeted => loop.announced)
  BY <1>1, <1>3, <1>5, <1>9, <1>10 DEF Speaking
<1>13. \A i \in 1 .. Len(wire) : \A j \in 1 .. Len(outq') : wire[i] < outq'[j].time
  BY <1>1, <1>4, <1>5, <1>9 DEF Speaking, TimesAdvance
<1>14. Speaking' BY <1>1, <1>2, <1>3, <1>9, <1>11, <1>12, <1>13 DEF Speaking, TimesAdvance
<1> QED BY <1>6, <1>7, <1>8, <1>14 DEF PeerInv

\* The transport is dropped, and the channels with it.
LEMMA DroppedKeeps ==
  ASSUME PeerInv, TransportDropped
  PROVE  PeerInv'
<1>1. PeerTypes /\ Announced /\ Hearing /\ Speaking BY DEF PeerInv
<1>2. /\ transport' = [transport EXCEPT !.at = "dropped"] /\ loop' = [loop EXCEPT !.at = "done"]
      /\ inq' = <<>> /\ outq' = <<>> /\ UNCHANGED <<received, wire, discarded>>
  BY DEF TransportDropped
<1>3. /\ transport' \in Transports /\ transport'.started = transport.started
      /\ transport'.at = "dropped" /\ transport'.time = transport.time
  BY <1>1, <1>2 DEF PeerTypes, Transports
<1>4. /\ loop' \in Loops /\ loop'.at = "done" /\ loop'.announced = loop.announced
      /\ loop'.connected = loop.connected /\ loop'.mid = loop.mid
  BY <1>1, <1>2 DEF PeerTypes, Loops
<1>5. <<>> \in Seq(OutFrames) /\ <<>> \in Seq(Events) /\ Len(<<>>) = 0 /\ 1 .. 0 = {} OBVIOUS
<1>6. PeerTypes' BY <1>1, <1>2, <1>3, <1>4, <1>5 DEF PeerTypes
<1>7. Announced' BY <1>1, <1>2, <1>3, <1>4, <1>5 DEF Announced
<1>8. Hearing' BY <1>1, <1>2, <1>3 DEF Hearing
<1>9. Speaking' BY <1>1, <1>2, <1>3, <1>5 DEF Speaking, TimesAdvance
<1> QED BY <1>6, <1>7, <1>8, <1>9 DEF PeerInv

\* accept_offer.
LEMMA PeerStart == PeerInit => PeerInv
<1> SUFFICES ASSUME PeerInit PROVE PeerInv OBVIOUS
<1>1. /\ <<>> \in Seq(OutFrames) /\ <<>> \in Seq(Events) /\ <<>> \in Seq(Heard) /\ <<>> \in Seq(Nat)
      /\ Len(<<>>) = 0 /\ 1 .. 0 = {}
  OBVIOUS
<1>2. loop \in Loops /\ loop.at = "poll" /\ ~ loop.connected /\ ~ loop.mid /\ ~ loop.announced
  BY DEF PeerInit, Loops
<1>3. transport \in Transports /\ ~ transport.started BY DEF PeerInit, Transports
<1>4. inq = <<>> /\ outq = <<>> /\ received = <<>> /\ wire = <<>> /\ discarded = <<>> BY DEF PeerInit
<1>5. PeerTypes BY <1>1, <1>2, <1>3, <1>4 DEF PeerTypes
<1>6. Announced BY <1>1, <1>2, <1>3, <1>4 DEF Announced
<1>7. Hearing BY <1>1, <1>3, <1>4 DEF Hearing
<1>8. Speaking BY <1>1, <1>4 DEF Speaking, TimesAdvance
<1> QED BY <1>5, <1>6, <1>7, <1>8 DEF PeerInv

\* Every step keeps the invariant.
LEMMA PeerStep == PeerInv /\ [PeerNext]_peerVars => PeerInv'
<1> SUFFICES ASSUME PeerInv, [PeerNext]_peerVars PROVE PeerInv' OBVIOUS
<1>1. CASE BrowserUp \/ UNCHANGED peerVars
  <2>1. UNCHANGED <<loop, inq, outq, transport, received, wire, discarded>>
    BY <1>1 DEF BrowserUp, peerVars
  <2> QED BY <2>1 DEF PeerInv, PeerTypes, Announced, Hearing, Speaking, TimesAdvance
<1> QED
  BY <1>1, HandleEventKeeps, LoopKeeps, WriteAudioKeeps, PumpReceivesKeeps, SendKeeps,
     SendFrameKeeps, DroppedKeeps
  DEF PeerNext

\* Both directions of a call with a browser keep their order, whatever the two bounded channels
\* drop: the call starts once and first, no frame that the bot sends after that is thrown away
\* for want of an audio line, and the times of the frames on the wire rise.
THEOREM PeerKeepsOrder == PeerSpec => []PeerOrdered
<1>1. PeerInv => PeerOrdered
  <2> SUFFICES ASSUME PeerInv PROVE PeerOrdered OBVIOUS
  <2>1. Hearing /\ Speaking /\ PeerTypes BY DEF PeerInv
  <2>2. ASSUME NEW i \in 1 .. Len(received)
        PROVE  (received[i] = "start") <=> (i = 1 /\ received[i] # "stop")
    <3>1. received[i] = "start" => i = 1 BY <2>1 DEF Hearing
    <3>2. CASE transport.started BY <2>1, <3>1, <3>2 DEF Hearing
    <3>3. CASE ~ transport.started
      <4>1. Len(<<>>) = 0 /\ 1 .. 0 = {} /\ Len(<<"stop">>) = 1 /\ <<"stop">>[1] = "stop" OBVIOUS
      <4>2. received = <<"stop">> BY <2>1, <3>3, <4>1 DEF Hearing
      <4>3. i = 1 /\ received[i] = "stop" BY <4>1, <4>2
      <4> QED BY <4>3
    <3> QED BY <3>2, <3>3
  <2>3. StartedThenHeard BY <2>1, <2>2 DEF StartedThenHeard, Speaking
  <2> QED BY <2>1, <2>3 DEF PeerOrdered, Speaking
<1> QED BY <1>1, PeerStart, PeerStep, PTL DEF PeerSpec

-----------------------------------------------------------------------------
(* CascadedTurns: the ledger of the tool calls. Calls are numbered as the  *)
(* model makes them; they pass the bridge, the brain and the bridge again  *)
(* in that order, so that of any two the one further on has the smaller    *)
(* number. That makes each result find its own call.                       *)

AllEdges == UNION {DOMAIN Edges[n] : n \in DOMAIN Edges}
AllTools == UNION {NodeTools[n] : n \in DOMAIN Edges}
Names == {"ghost", EndTool} \cup AllEdges \cup AllTools
Replies == RelayStatuses \cup Acks
Calls == [id : Nat, name : Names]
BridgeMsgs ==
  [kind : {"calls"}, calls : Seq(Calls)] \cup [kind : {"interruption"}]
    \cup [kind : {"reprompt"}, node : DOMAIN Edges, tools : SUBSET Names]
    \cup [kind : {"result"}, id : Nat, status : Replies]
BrainMsgs == [kind : {"call"}, id : Nat, name : Names] \cup [kind : {"interruption"}]
Messages == [role : {"user", "call", "tool", "assistant"}, id : Nat]

ResultsAbove(q, n) == \A k \in 1 .. Len(q) : q[k].kind = "result" => n < q[k].id
BatchAbove(m, n) == m.kind = "calls" => \A i \in 1 .. Len(m.calls) : n < m.calls[i].id
BatchesAbove(q, n) == \A k \in 1 .. Len(q) : BatchAbove(q[k], n)
CallsAbove(b, n) == \A k \in 1 .. Len(b) : b[k].kind = "call" => n < b[k].id
Passed(q, b, c, id) == id <= c /\ BatchesAbove(q, id) /\ CallsAbove(b, id)

BatchInside(m, c) ==
  m.kind = "calls" =>
    /\ \A i, l \in 1 .. Len(m.calls) : i < l => m.calls[i].id < m.calls[l].id
    /\ \A i \in 1 .. Len(m.calls) : m.calls[i].id <= c
BatchBefore(m, n) ==
  m.kind = "calls" => \A i \in 1 .. Len(m.calls) : BatchAbove(n, m.calls[i].id)
BatchesRise(q) == \A j, k \in 1 .. Len(q) : j < k => BatchBefore(q[j], q[k])
ResultsRise(q) ==
  \A j, k \in 1 .. Len(q) : j < k /\ q[j].kind = "result" /\ q[k].kind = "result" => q[j].id < q[k].id
CallsRise(b) ==
  \A j, k \in 1 .. Len(b) : j < k /\ b[j].kind = "call" /\ b[k].kind = "call" => b[j].id < b[k].id

On(q, id) == \E k \in 1 .. Len(q) : q[k].kind = "result" /\ q[k].id = id
Written(h, id) ==
  \E k \in 2 .. Len(h) : h[k] = [role |-> "tool", id |-> id] /\ h[k - 1] = [role |-> "call", id |-> id]
ToolsOnce(h) == \A j, k \in 1 .. Len(h) : j # k /\ h[j].role = "tool" => h[j] # h[k]

\* q, b: the channels of the bridge and the brain; h: the history; p: the pending calls; r: the
\* calls relayed; c: the calls made.
Ledger(q, b, h, p, r, c) ==
  /\ \A k \in 1 .. Len(q) : BatchInside(q[k], c)
  /\ BatchesRise(q) /\ ResultsRise(q) /\ CallsRise(b)
  /\ \A k \in 1 .. Len(b) :
       b[k].kind = "call" => b[k].id <= c /\ BatchesAbove(q, b[k].id) /\ b[k].id \in p
  /\ \A k \in 1 .. Len(q) :
       q[k].kind = "result" =>
         /\ Passed(q, b, c, q[k].id) /\ q[k].id \in p
         /\ q[k].id \in DOMAIN r => q[k].status = r[q[k].id]
  /\ \A id \in DOMAIN r : Passed(q, b, c, id) /\ (On(q, id) \/ Written(h, id) \/ r[id] \in Acks)
  /\ \A k \in 1 .. Len(h) :
       h[k].role = "tool" => Passed(q, b, c, h[k].id) /\ ResultsAbove(q, h[k].id)
  /\ ToolsOnce(h)

\* A message more in the bridge's channel.
LEMMA BridgeMore ==
  ASSUME NEW q \in Seq(BridgeMsgs), NEW m \in BridgeMsgs
  PROVE  LET p == Append(q, m) IN
         /\ p \in Seq(BridgeMsgs) /\ Len(q) \in Nat
         /\ \A k \in 1 .. Len(p) : (k \in 1 .. Len(q) /\ p[k] = q[k]) \/ (k = Len(q) + 1 /\ p[k] = m)
         /\ \A n : BatchesAbove(q, n) /\ BatchAbove(m, n) => BatchesAbove(p, n)
         /\ \A n : ResultsAbove(q, n) /\ (m.kind = "result" => n < m.id) => ResultsAbove(p, n)
         /\ BatchesRise(q) /\ (\A k \in 1 .. Len(q) : BatchBefore(q[k], m)) => BatchesRise(p)
         /\ ResultsRise(q) /\ (\A k \in 1 .. Len(q) :
                                 q[k].kind = "result" /\ m.kind = "result" => q[k].id < m.id)
              => ResultsRise(p)
         /\ \A id : On(q, id) => On(p, id)
         /\ m.kind = "result" => On(p, m.id)
<1> DEFINE p == Append(q, m)
<1>1. /\ p \in Seq(BridgeMsgs) /\ Len(q) \in Nat /\ Len(p) = Len(q) + 1
      /\ \A k \in 1 .. Len(p) : (k \in 1 .. Len(q) /\ p[k] = q[k]) \/ (k = Len(q) + 1 /\ p[k] = m)
  BY AppendAt
<1>2. (\A k \in 1 .. Len(q) : p[k] = q[k]) /\ p[Len(q) + 1] = m BY AppendProperties
<1> HIDE DEF p
<1>3. \A n : BatchesAbove(q, n) /\ BatchAbove(m, n) => BatchesAbove(p, n) BY <1>1 DEF BatchesAbove
<1>4. \A n : ResultsAbove(q, n) /\ (m.kind = "result" => n < m.id) => ResultsAbove(p, n)
  BY <1>1 DEF ResultsAbove
<1>5. ASSUME NEW j \in 1 .. Len(p), NEW k \in 1 .. Len(p), j < k
      PROVE  /\ j \in 1 .. Len(q) /\ p[j] = q[j]
             /\ (k \in 1 .. Len(q) /\ p[k] = q[k]) \/ p[k] = m
  <2>1. j # Len(q) + 1 BY <1>1, <1>5
  <2> QED BY <1>1, <2>1
<1>6. BatchesRise(q) /\ (\A k \in 1 .. Len(q) : BatchBefore(q[k], m)) => BatchesRise(p)
  BY <1>5 DEF BatchesRise
<1>7. ResultsRise(q) /\ (\A k \in 1 .. Len(q) : q[k].kind = "result" /\ m.kind = "result" => q[k].id < m.id)
        => ResultsRise(p)
  BY <1>5 DEF ResultsRise
<1>8. \A k \in 1 .. Len(q) : k \in 1 .. Len(p) BY <1>1
<1>9. Len(q) + 1 \in 1 .. Len(p) BY <1>1
<1>10. \A id : On(q, id) => On(p, id) BY <1>2, <1>8 DEF On
<1>11. m.kind = "result" => On(p, m.id) BY <1>2, <1>9 DEF On
<1> QED BY <1>1, <1>3, <1>4, <1>6, <1>7, <1>10, <1>11 DEF p

\* A message less.
LEMMA BridgeLess ==
  ASSUME NEW q \in Seq(BridgeMsgs), q # <<>>
  PROVE  LET p == Tail(q)
             m == Head(q) IN
         /\ p \in Seq(BridgeMsgs) /\ m \in BridgeMsgs /\ 1 \in 1 .. Len(q) /\ m = q[1]
         /\ \A k \in 1 .. Len(p) : k + 1 \in 1 .. Len(q) /\ p[k] = q[k + 1]
         /\ \A n : BatchesAbove(q, n) => BatchesAbove(p, n) /\ BatchAbove(m, n)
         /\ \A n : ResultsAbove(q, n) => ResultsAbove(p, n)
         /\ BatchesRise(q) => BatchesRise(p) /\ \A k \in 1 .. Len(p) : BatchBefore(m, p[k])
         /\ ResultsRise(q) => ResultsRise(p) /\ (m.kind = "result" => ResultsAbove(p, m.id))
         /\ \A id : On(q, id) => On(p, id) \/ (m.kind = "result" /\ m.id = id)
<1> DEFINE p == Tail(q)
           m == Head(q)
<1>1. /\ p \in Seq(BridgeMsgs) /\ Len(q) \in Nat /\ Len(p) = Len(q) - 1
      /\ m \in BridgeMsgs /\ m = q[1] /\ 1 \in 1 .. Len(q)
      /\ \A k \in 1 .. Len(p) : k + 1 \in 1 .. Len(q) /\ p[k] = q[k + 1]
  BY TailAt
<1> HIDE DEF p, m
<1>2. \A n : BatchesAbove(q, n) => BatchesAbove(p, n) /\ BatchAbove(m, n) BY <1>1 DEF BatchesAbove
<1>3. \A n : ResultsAbove(q, n) => ResultsAbove(p, n) BY <1>1 DEF ResultsAbove
<1>4. \A j, k \in 1 .. Len(p) : j < k =>
         j + 1 \in 1 .. Len(q) /\ k + 1 \in 1 .. Len(q) /\ j + 1 < k + 1
  BY <1>1
<1>5. \A k \in 1 .. Len(p) : k + 1 \in 1 .. Len(q) /\ 1 < k + 1
  BY <1>1
<1>6. BatchesRise(q) => BatchesRise(p) /\ \A k \in 1 .. Len(p) : BatchBefore(m, p[k])
  BY <1>1, <1>4, <1>5 DEF BatchesRise
<1>7. ResultsRise(q) => ResultsRise(p) /\ (m.kind = "result" => ResultsAbove(p, m.id))
  BY <1>1, <1>4, <1>5 DEF ResultsRise, ResultsAbove
<1>8. ASSUME NEW id, On(q, id) PROVE On(p, id) \/ (m.kind = "result" /\ m.id = id)
  <2>1. PICK k \in 1 .. Len(q) : q[k].kind = "result" /\ q[k].id = id BY <1>8 DEF On
  <2>2. CASE k = 1 BY <1>1, <2>1, <2>2
  <2>3. CASE k # 1
    <3>1. k - 1 \in 1 .. Len(p) /\ (k - 1) + 1 = k BY <1>1, <2>3
    <3>2. p[k - 1] = q[k] BY <1>1, <3>1
    <3> QED BY <2>1, <3>1, <3>2 DEF On
  <2> QED BY <2>2, <2>3
<1> QED BY <1>1, <1>2, <1>3, <1>6, <1>7, <1>8 DEF p, m

\* The same for the channel of the brain.
LEMMA BrainMore ==
  ASSUME NEW b \in Seq(BrainMsgs), NEW m \in BrainMsgs
  PROVE  LET p == Append(b, m) IN
         /\ p \in Seq(BrainMsgs)
         /\ \A k \in 1 .. Len(p) : (k \in 1 .. Len(b) /\ p[k] = b[k]) \/ p[k] = m
         /\ \A n : CallsAbove(b, n) /\ (m.kind = "call" => n < m.id) => CallsAbove(p, n)
         /\ CallsRise(b) /\ (\A k \in 1 .. Len(b) :
                               b[k].kind = "call" /\ m.kind = "call" => b[k].id < m.id)
              => CallsRise(p)
<1> DEFINE p == Append(b, m)
<1>1. /\ p \in Seq(BrainMsgs) /\ Len(b) \in Nat /\ Len(p) = Len(b) + 1
      /\ \A k \in 1 .. Len(p) : (k \in 1 .. Len(b) /\ p[k] = b[k]) \/ (k = Len(b) + 1 /\ p[k] = m)
  BY AppendAt
<1> HIDE DEF p
<1>2. \A n : CallsAbove(b, n) /\ (m.kind = "call" => n < m.id) => CallsAbove(p, n)
  BY <1>1 DEF CallsAbove
<1>3. ASSUME NEW j \in 1 .. Len(p), NEW k \in 1 .. Len(p), j < k
      PROVE  /\ j \in 1 .. Len(b) /\ p[j] = b[j]
             /\ (k \in 1 .. Len(b) /\ p[k] = b[k]) \/ p[k] = m
  <2>1. j # Len(b) + 1 BY <1>1, <1>3
  <2> QED BY <1>1, <2>1
<1>4. CallsRise(b) /\ (\A k \in 1 .. Len(b) : b[k].kind = "call" /\ m.kind = "call" => b[k].id < m.id)
        => CallsRise(p)
  BY <1>3 DEF CallsRise
<1> QED BY <1>1, <1>2, <1>4 DEF p

\* And one less there.
LEMMA BrainLess ==
  ASSUME NEW b \in Seq(BrainMsgs), b # <<>>
  PROVE  LET p == Tail(b)
             m == Head(b) IN
         /\ p \in Seq(BrainMsgs) /\ m \in BrainMsgs /\ 1 \in 1 .. Len(b) /\ m = b[1]
         /\ \A k \in 1 .. Len(p) : k + 1 \in 1 .. Len(b) /\ p[k] = b[k + 1]
         /\ \A n : CallsAbove(b, n) => CallsAbove(p, n) /\ (m.kind = "call" => n < m.id)
         /\ CallsRise(b) => CallsRise(p) /\ (m.kind = "call" => CallsAbove(p, m.id))
<1> DEFINE p == Tail(b)
           m == Head(b)
<1>1. /\ p \in Seq(BrainMsgs) /\ Len(b) \in Nat /\ Len(p) = Len(b) - 1
      /\ m \in BrainMsgs /\ m = b[1] /\ 1 \in 1 .. Len(b)
      /\ \A k \in 1 .. Len(p) : k + 1 \in 1 .. Len(b) /\ p[k] = b[k + 1]
  BY TailAt
<1> HIDE DEF p, m
<1>2. \A n : CallsAbove(b, n) => CallsAbove(p, n) /\ (m.kind = "call" => n < m.id)
  BY <1>1 DEF CallsAbove
<1>3. \A j, k \in 1 .. Len(p) : j < k =>
         j + 1 \in 1 .. Len(b) /\ k + 1 \in 1 .. Len(b) /\ j + 1 < k + 1
  BY <1>1
<1>4. \A k \in 1 .. Len(p) : k + 1 \in 1 .. Len(b) /\ 1 < k + 1
  BY <1>1
<1>5. CallsRise(b) => CallsRise(p) /\ (m.kind = "call" => CallsAbove(p, m.id))
  BY <1>1, <1>3, <1>4 DEF CallsRise, CallsAbove
<1> QED BY <1>1, <1>2, <1>5 DEF p, m

\* A message that is neither calls nor a result leaves the ledger as it is, coming or going.
LEMMA LedgerTold ==
  ASSUME NEW q \in Seq(BridgeMsgs), NEW m \in BridgeMsgs, m.kind # "calls", m.kind # "result",
         NEW b, NEW h, NEW p, NEW r, NEW c, Ledger(q, b, h, p, r, c)
  PROVE  Ledger(Append(q, m), b, h, p, r, c)
<1> DEFINE a == Append(q, m)
<1>1. /\ \A k \in 1 .. Len(a) : (k \in 1 .. Len(q) /\ a[k] = q[k]) \/ (k = Len(q) + 1 /\ a[k] = m)
      /\ \A n : BatchesAbove(q, n) /\ BatchAbove(m, n) => BatchesAbove(a, n)
      /\ \A n : ResultsAbove(q, n) /\ (m.kind = "result" => n < m.id) => ResultsAbove(a, n)
      /\ BatchesRise(q) /\ (\A k \in 1 .. Len(q) : BatchBefore(q[k], m)) => BatchesRise(a)
      /\ ResultsRise(q) /\ (\A k \in 1 .. Len(q) :
                              q[k].kind = "result" /\ m.kind = "result" => q[k].id < m.id)
           => ResultsRise(a)
      /\ \A id : On(q, id) => On(a, id)
  BY BridgeMore
<1> HIDE DEF a
<1>2. /\ \A n : BatchAbove(m, n)
      /\ BatchInside(m, c)
      /\ \A k \in 1 .. Len(q) : BatchBefore(q[k], m)
  BY DEF BatchAbove, BatchInside, BatchBefore
<1>3. /\ \A n : BatchesAbove(q, n) => BatchesAbove(a, n)
      /\ \A n : ResultsAbove(q, n) => ResultsAbove(a, n)
  BY <1>1, <1>2
<1>4. \A id : Passed(q, b, c, id) => Passed(a, b, c, id) BY <1>3 DEF Passed
<1>5. \A k \in 1 .. Len(a) : BatchInside(a[k], c) BY <1>1, <1>2 DEF Ledger
<1>6. BatchesRise(a) /\ ResultsRise(a) /\ CallsRise(b) BY <1>1, <1>2 DEF Ledger
<1>7. \A k \in 1 .. Len(b) :
        b[k].kind = "call" => b[k].id <= c /\ BatchesAbove(a, b[k].id) /\ b[k].id \in p
  BY <1>3 DEF Ledger
<1>8. \A k \in 1 .. Len(a) :
        a[k].kind = "result" =>
          /\ Passed(a, b, c, a[k].id) /\ a[k].id \in p
          /\ a[k].id \in DOMAIN r => a[k].status = r[a[k].id]
  BY <1>1, <1>4 DEF Ledger
<1>9. \A id \in DOMAIN r : Passed(a, b, c, id) /\ (On(a, id) \/ Written(h, id) \/ r[id] \in Acks)
  BY <1>1, <1>4 DEF Ledger
<1>10. \A k \in 1 .. Len(h) :
         h[k].role = "tool" => Passed(a, b, c, h[k].id) /\ ResultsAbove(a, h[k].id)
  BY <1>3, <1>4 DEF Ledger
<1>11. ToolsOnce(h) BY DEF Ledger
<1>12. Ledger(a, b, h, p, r, c) BY <1>5, <1>6, <1>7, <1>8, <1>9, <1>10, <1>11 DEF Ledger
<1> QED BY <1>12 DEF a

\* The bridge takes such a message.
LEMMA LedgerTaken ==
  ASSUME NEW q \in Seq(BridgeMsgs), q # <<>>, Head(q).kind # "calls", Head(q).kind # "result",
         NEW b, NEW h, NEW p, NEW r, NEW c, Ledger(q, b, h, p, r, c)
  PROVE  Ledger(Tail(q), b, h, p, r, c)
<1> DEFINE a == Tail(q)
           m == Head(q)
<1>1. /\ \A k \in 1 .. Len(a) : k + 1 \in 1 .. Len(q) /\ a[k] = q[k + 1]
      /\ \A n : BatchesAbove(q, n) => BatchesAbove(a, n)
      /\ \A n : ResultsAbove(q, n) => ResultsAbove(a, n)
      /\ BatchesRise(q) => BatchesRise(a)
      /\ ResultsRise(q) => ResultsRise(a)
      /\ \A id : On(q, id) => On(a, id) \/ (m.kind = "result" /\ m.id = id)
  BY BridgeLess
<1>2. \A id : On(q, id) => On(a, id) BY <1>1
<1> HIDE DEF a, m
<1>3. \A id : Passed(q, b, c, id) => Passed(a, b, c, id) BY <1>1 DEF Passed
<1>4. \A k \in 1 .. Len(a) : BatchInside(a[k], c) BY <1>1 DEF Ledger
<1>5. BatchesRise(a) /\ ResultsRise(a) /\ CallsRise(b) BY <1>1 DEF Ledger
<1>6. \A k \in 1 .. Len(b) :
        b[k].kind = "call" => b[k].id <= c /\ BatchesAbove(a, b[k].id) /\ b[k].id \in p
  BY <1>1 DEF Ledger
<1>7. \A k \in 1 .. Len(a) :
        a[k].kind = "result" =>
          /\ Passed(a, b, c, a[k].id) /\ a[k].id \in p
          /\ a[k].id \in DOMAIN r => a[k].status = r[a[k].id]
  BY <1>1, <1>3 DEF Ledger
<1>8. \A id \in DOMAIN r : Passed(a, b, c, id) /\ (On(a, id) \/ Written(h, id) \/ r[id] \in Acks)
  BY <1>2, <1>3 DEF Ledger
<1>9. \A k \in 1 .. Len(h) :
        h[k].role = "tool" => Passed(a, b, c, h[k].id) /\ ResultsAbove(a, h[k].id)
  BY <1>1, <1>3 DEF Ledger
<1>10. ToolsOnce(h) BY DEF Ledger
<1>11. Ledger(a, b, h, p, r, c) BY <1>4, <1>5, <1>6, <1>7, <1>8, <1>9, <1>10 DEF Ledger
<1> QED BY <1>11 DEF a

\* An interruption passes the brain's channel.
LEMMA LedgerBarged ==
  ASSUME NEW b \in Seq(BrainMsgs), NEW m \in BrainMsgs, m.kind # "call",
         NEW q, NEW h, NEW p, NEW r, NEW c, Ledger(q, b, h, p, r, c)
  PROVE  Ledger(q, Append(b, m), h, p, r, c)
<1> DEFINE a == Append(b, m)
<1>1. /\ \A k \in 1 .. Len(a) : (k \in 1 .. Len(b) /\ a[k] = b[k]) \/ a[k] = m
      /\ \A n : CallsAbove(b, n) => CallsAbove(a, n)
      /\ CallsRise(b) => CallsRise(a)
  BY BrainMore
<1> HIDE DEF a
<1>2. \A id : Passed(q, b, c, id) => Passed(q, a, c, id) BY <1>1 DEF Passed
<1>3. CallsRise(a) BY <1>1 DEF Ledger
<1>4. \A k \in 1 .. Len(a) :
        a[k].kind = "call" => a[k].id <= c /\ BatchesAbove(q, a[k].id) /\ a[k].id \in p
  BY <1>1 DEF Ledger
<1>5. Ledger(q, a, h, p, r, c) BY <1>2, <1>3, <1>4 DEF Ledger
<1> QED BY <1>5 DEF a

\* The brain takes a message, of whatever kind.
LEMMA LedgerHeard ==
  ASSUME NEW b \in Seq(BrainMsgs), b # <<>>,
         NEW q, NEW h, NEW p, NEW r, NEW c, Ledger(q, b, h, p, r, c)
  PROVE  Ledger(q, Tail(b), h, p, r, c)
<1> DEFINE a == Tail(b)
<1>1. /\ \A k \in 1 .. Len(a) : k + 1 \in 1 .. Len(b) /\ a[k] = b[k + 1]
      /\ \A n : CallsAbove(b, n) => CallsAbove(a, n)
      /\ CallsRise(b) => CallsRise(a)
  BY BrainLess
<1> HIDE DEF a
<1>2. \A id : Passed(q, b, c, id) => Passed(q, a, c, id) BY <1>1 DEF Passed
<1>3. CallsRise(a) BY <1>1 DEF Ledger
<1>4. \A k \in 1 .. Len(a) :
        a[k].kind = "call" => a[k].id <= c /\ BatchesAbove(q, a[k].id) /\ a[k].id \in p
  BY <1>1 DEF Ledger
<1>5. Ledger(q, a, h, p, r, c) BY <1>2, <1>3, <1>4 DEF Ledger
<1> QED BY <1>5 DEF a

\* A message more in the history.
LEMMA HistoryMore ==
  ASSUME NEW h \in Seq(Messages), NEW m \in Messages
  PROVE  LET a == Append(h, m) IN
         /\ a \in Seq(Messages) /\ Len(h) \in Nat /\ Len(a) = Len(h) + 1 /\ a[Len(a)] = m
         /\ \A k \in 1 .. Len(a) : (k \in 1 .. Len(h) /\ a[k] = h[k]) \/ (k = Len(h) + 1 /\ a[k] = m)
         /\ \A id : Written(h, id) => Written(a, id)
         /\ ToolsOnce(h) /\ (m.role = "tool" => \A k \in 1 .. Len(h) : h[k] # m) => ToolsOnce(a)
         /\ \A id : Len(h) > 0 /\ h[Len(h)] = [role |-> "call", id |-> id]
                      /\ m = [role |-> "tool", id |-> id] => Written(a, id)
<1> DEFINE a == Append(h, m)
<1>1. /\ a \in Seq(Messages) /\ Len(h) \in Nat /\ Len(a) = Len(h) + 1
      /\ \A k \in 1 .. Len(a) : (k \in 1 .. Len(h) /\ a[k] = h[k]) \/ (k = Len(h) + 1 /\ a[k] = m)
  BY AppendAt
<1>2. (\A k \in 1 .. Len(h) : a[k] = h[k]) /\ a[Len(h) + 1] = m BY AppendProperties
<1> HIDE DEF a
<1>3. ASSUME NEW id, Written(h, id) PROVE Written(a, id)
  <2>1. PICK k \in 2 .. Len(h) : h[k] = [role |-> "tool", id |-> id] /\ h[k - 1] = [role |-> "call", id |-> id]
    BY <1>3 DEF Written
  <2>2. k \in 1 .. Len(h) /\ k - 1 \in 1 .. Len(h) /\ k \in 2 .. Len(a) BY <1>1
  <2>3. a[k] = h[k] /\ a[k - 1] = h[k - 1] BY <1>2, <2>2
  <2> QED BY <2>1, <2>2, <2>3 DEF Written
<1>4. ASSUME ToolsOnce(h), m.role = "tool" => \A k \in 1 .. Len(h) : h[k] # m,
             NEW j \in 1 .. Len(a), NEW k \in 1 .. Len(a), j # k, a[j].role = "tool"
      PROVE  a[j] # a[k]
  <2>1. CASE j \in 1 .. Len(h) /\ k \in 1 .. Len(h) BY <1>2, <1>4, <2>1 DEF ToolsOnce
  <2>2. CASE j \in 1 .. Len(h) /\ k = Len(h) + 1
    <3>1. a[j] = h[j] /\ a[k] = m BY <1>2, <2>2
    <3>2. m.role = "tool" => h[j] # m BY <1>4, <2>2
    <3> QED BY <1>4, <3>1, <3>2
  <2>3. CASE j = Len(h) + 1 /\ k \in 1 .. Len(h)
    <3>1. a[j] = m /\ a[k] = h[k] BY <1>2, <2>3
    <3>2. m.role = "tool" => h[k] # m BY <1>4, <2>3
    <3> QED BY <1>4, <3>1, <3>2
  <2> QED BY <1>1, <1>4, <2>1, <2>2, <2>3
<1>5. ASSUME NEW id, Len(h) > 0, h[Len(h)] = [role |-> "call", id |-> id],
             m = [role |-> "tool", id |-> id]
      PROVE  Written(a, id)
  <2> DEFINE k == Len(h) + 1
  <2>1. k \in 2 .. Len(a) /\ k - 1 = Len(h) /\ Len(h) \in 1 .. Len(h) BY <1>1, <1>5
  <2>2. a[k] = m /\ a[k - 1] = h[Len(h)] BY <1>2, <2>1
  <2> QED BY <1>5, <2>1, <2>2 DEF Written
<1>6. ToolsOnce(h) /\ (m.role = "tool" => \A k \in 1 .. Len(h) : h[k] # m) => ToolsOnce(a)
  BY <1>4 DEF ToolsOnce
<1> QED BY <1>1, <1>2, <1>3, <1>5, <1>6 DEF a

\* What is not a tool's answer can be written at any time.
LEMMA LedgerSpoken ==
  ASSUME NEW h \in Seq(Messages), NEW m \in Messages, m.role # "tool",
         NEW q, NEW b, NEW p, NEW r, NEW c, Ledger(q, b, h, p, r, c)
  PROVE  Ledger(q, b, Append(h, m), p, r, c)
<1> DEFINE a == Append(h, m)
<1>1. /\ \A k \in 1 .. Len(a) : (k \in 1 .. Len(h) /\ a[k] = h[k]) \/ (k = Len(h) + 1 /\ a[k] = m)
      /\ \A id : Written(h, id) => Written(a, id)
      /\ ToolsOnce(h) => ToolsOnce(a)
  BY HistoryMore
<1> HIDE DEF a
<1>2. \A k \in 1 .. Len(a) :
        a[k].role = "tool" => Passed(q, b, c, a[k].id) /\ ResultsAbove(q, a[k].id)
  BY <1>1 DEF Ledger
<1>3. \A id \in DOMAIN r : Passed(q, b, c, id) /\ (On(q, id) \/ Written(a, id) \/ r[id] \in Acks)
  BY <1>1 DEF Ledger
<1>4. ToolsOnce(a) BY <1>1 DEF Ledger
<1>5. Ledger(q, b, a, p, r, c) BY <1>2, <1>3, <1>4 DEF Ledger
<1> QED BY <1>5 DEF a

\* The model makes calls: their numbers are above all before.
LEMMA LedgerCalled ==
  ASSUME NEW q \in Seq(BridgeMsgs), NEW b \in Seq(BrainMsgs), NEW h \in Seq(Messages), NEW p, NEW r,
         DOMAIN r \subseteq Nat, NEW c \in Nat, NEW d \in Nat, c <= d,
         NEW m \in BridgeMsgs, m.kind = "calls", BatchInside(m, d),
         \A i \in 1 .. Len(m.calls) : m.calls[i].id \in Nat /\ c < m.calls[i].id,
         Ledger(q, b, h, p, r, c)
  PROVE  Ledger(Append(q, m), b, h, p, r, d)
<1> DEFINE a == Append(q, m)
<1>1. /\ \A k \in 1 .. Len(a) : (k \in 1 .. Len(q) /\ a[k] = q[k]) \/ (k = Len(q) + 1 /\ a[k] = m)
      /\ \A n : BatchesAbove(q, n) /\ BatchAbove(m, n) => BatchesAbove(a, n)
      /\ \A n : ResultsAbove(q, n) /\ (m.kind = "result" => n < m.id) => ResultsAbove(a, n)
      /\ BatchesRise(q) /\ (\A k \in 1 .. Len(q) : BatchBefore(q[k], m)) => BatchesRise(a)
      /\ ResultsRise(q) /\ (\A k \in 1 .. Len(q) :
                              q[k].kind = "result" /\ m.kind = "result" => q[k].id < m.id)
           => ResultsRise(a)
      /\ \A id : On(q, id) => On(a, id)
  BY BridgeMore
<1> HIDE DEF a
<1>2. \A n \in Nat : n <= c => BatchAbove(m, n) BY DEF BatchAbove
<1>3. \A k \in 1 .. Len(q) : q[k] \in BridgeMsgs OBVIOUS
<1>4. ASSUME NEW k \in 1 .. Len(q) PROVE BatchBefore(q[k], m) /\ BatchInside(q[k], d)
  <2>1. SUFFICES ASSUME q[k].kind = "calls" PROVE BatchBefore(q[k], m) /\ BatchInside(q[k], d)
    BY DEF BatchBefore, BatchInside
  <2>2. q[k].calls \in Seq(Calls) BY <1>3, <2>1 DEF BridgeMsgs
  <2>3. \A i \in 1 .. Len(q[k].calls) : q[k].calls[i].id \in Nat
    <3>1. \A i \in 1 .. Len(q[k].calls) : q[k].calls[i] \in Calls BY <2>2
    <3> QED BY <3>1 DEF Calls
  <2>4. BatchInside(q[k], c) BY DEF Ledger
  <2>5. \A i \in 1 .. Len(q[k].calls) : q[k].calls[i].id <= c BY <2>1, <2>4 DEF BatchInside
  <2>6. BatchBefore(q[k], m) BY <1>2, <2>3, <2>5 DEF BatchBefore
  <2>7. \A i \in 1 .. Len(q[k].calls) : q[k].calls[i].id <= d BY <2>3, <2>5
  <2>8. BatchInside(q[k], d) BY <2>1, <2>4, <2>7 DEF BatchInside
  <2> QED BY <2>6, <2>8
<1>5. \A id \in Nat : Passed(q, b, c, id) => Passed(a, b, d, id)
  <2>1. \A id \in Nat : id <= c => id <= d OBVIOUS
  <2> QED BY <1>1, <1>2, <2>1 DEF Passed
<1>6. \A k \in 1 .. Len(a) : BatchInside(a[k], d) BY <1>1, <1>4
<1>7. BatchesRise(a) /\ ResultsRise(a) /\ CallsRise(b) BY <1>1, <1>4 DEF Ledger
<1>8. \A k \in 1 .. Len(b) :
        b[k].kind = "call" => b[k].id <= d /\ BatchesAbove(a, b[k].id) /\ b[k].id \in p
  <2>1. \A k \in 1 .. Len(b) : b[k].kind = "call" => b[k].id \in Nat BY DEF BrainMsgs
  <2>2. ASSUME NEW k \in 1 .. Len(b), b[k].kind = "call"
        PROVE b[k].id <= d /\ BatchesAbove(a, b[k].id) /\ b[k].id \in p
    <3>1. b[k].id <= c /\ BatchesAbove(q, b[k].id) /\ b[k].id \in p BY <2>2 DEF Ledger
    <3>2. b[k].id <= d BY <2>1, <2>2, <3>1
    <3>3. BatchAbove(m, b[k].id) BY <1>2, <2>1, <2>2, <3>1
    <3> QED BY <1>1, <3>1, <3>2, <3>3
  <2> QED BY <2>2
<1>9. \A k \in 1 .. Len(a) :
        a[k].kind = "result" =>
          /\ Passed(a, b, d, a[k].id) /\ a[k].id \in p
          /\ a[k].id \in DOMAIN r => a[k].status = r[a[k].id]
  <2>1. \A k \in 1 .. Len(q) : q[k].kind = "result" => q[k].id \in Nat BY <1>3 DEF BridgeMsgs
  <2>2. \A k \in 1 .. Len(q) : q[k].kind = "result" =>
          /\ Passed(a, b, d, q[k].id) /\ q[k].id \in p
          /\ q[k].id \in DOMAIN r => q[k].status = r[q[k].id]
    BY <1>5, <2>1 DEF Ledger
  <2> QED BY <1>1, <2>2
<1>10. \A id \in DOMAIN r : Passed(a, b, d, id) /\ (On(a, id) \/ Written(h, id) \/ r[id] \in Acks)
  BY <1>1, <1>5 DEF Ledger
<1>11. \A k \in 1 .. Len(h) :
         h[k].role = "tool" => Passed(a, b, d, h[k].id) /\ ResultsAbove(a, h[k].id)
  <2>1. \A k \in 1 .. Len(h) : h[k].id \in Nat
    <3>1. \A k \in 1 .. Len(h) : h[k] \in Messages OBVIOUS
    <3> QED BY <3>1 DEF Messages
  <2> QED BY <1>1, <1>5, <2>1 DEF Ledger
<1>12. ToolsOnce(h) BY DEF Ledger
<1>13. Ledger(a, b, h, p, r, d) BY <1>6, <1>7, <1>8, <1>9, <1>10, <1>11, <1>12 DEF Ledger
<1> QED BY <1>13 DEF a

\* The calls at the head go on to the brain, each noted; x is what the brain gets.
LEMMA LedgerPassed ==
  ASSUME NEW q \in Seq(BridgeMsgs), q # <<>>, Head(q).kind = "calls",
         NEW b \in Seq(BrainMsgs), NEW x, Len(b) \in Nat,
         \A k \in 1 .. Len(x) :
           \/ k \in 1 .. Len(b) /\ x[k] = b[k]
           \/ /\ k > Len(b) /\ k - Len(b) \in 1 .. Len(Head(q).calls)
              /\ x[k].kind = "call" /\ x[k].id = Head(q).calls[k - Len(b)].id,
         Len(x) \in Nat,
         NEW h, NEW p, NEW r, NEW c, Ledger(q, b, h, p, r, c)
  PROVE  Ledger(Tail(q), x, h,
                p \cup {Head(q).calls[k].id : k \in 1 .. Len(Head(q).calls)}, r, c)
<1> DEFINE a == Tail(q)
           m == Head(q)
           o == p \cup {m.calls[k].id : k \in 1 .. Len(m.calls)}
           New(k) == k - Len(b)
<1>1. /\ m = q[1] /\ 1 \in 1 .. Len(q) /\ m \in BridgeMsgs
      /\ \A k \in 1 .. Len(a) : k + 1 \in 1 .. Len(q) /\ a[k] = q[k + 1]
      /\ \A n : BatchesAbove(q, n) => BatchesAbove(a, n) /\ BatchAbove(m, n)
      /\ \A n : ResultsAbove(q, n) => ResultsAbove(a, n)
      /\ BatchesRise(q) => BatchesRise(a) /\ \A k \in 1 .. Len(a) : BatchBefore(m, a[k])
      /\ ResultsRise(q) => ResultsRise(a)
      /\ \A id : On(q, id) => On(a, id)
  BY BridgeLess
<1>2. m.kind = "calls" OBVIOUS
<1>3. m.calls \in Seq(Calls) BY <1>1, <1>2 DEF BridgeMsgs
<1>4. Len(m.calls) \in Nat BY <1>3, LenProperties
<1>5. \A k \in 1 .. Len(x) :
        \/ k \in 1 .. Len(b) /\ x[k] = b[k]
        \/ /\ k > Len(b) /\ New(k) \in 1 .. Len(m.calls)
           /\ x[k].kind = "call" /\ x[k].id = m.calls[New(k)].id
  OBVIOUS
<1>6. BatchInside(m, c) BY <1>1 DEF Ledger
<1>7. /\ \A i, l \in 1 .. Len(m.calls) : i < l => m.calls[i].id < m.calls[l].id
      /\ \A i \in 1 .. Len(m.calls) : m.calls[i].id <= c
  BY <1>2, <1>6 DEF BatchInside
<1>8. \A i \in 1 .. Len(m.calls) : BatchesAbove(a, m.calls[i].id)
  BY <1>1, <1>2 DEF Ledger, BatchBefore, BatchesAbove
<1>9. \A j, k \in 1 .. Len(x) :
        j < k /\ j > Len(b) => k > Len(b) /\ New(j) < New(k)
  OBVIOUS
<1>10. \A n, i : BatchesAbove(q, n) /\ i \in 1 .. Len(m.calls) => n < m.calls[i].id
  BY <1>1, <1>2 DEF BatchAbove
<1>11. \A k \in 1 .. Len(x) : k \in 1 .. Len(b) \/ k > Len(b) OBVIOUS
<1>12. \A k \in 1 .. Len(x) : k > Len(b) => k \notin 1 .. Len(b) OBVIOUS
<1> HIDE DEF a, m, o, New
<1>13. CallsRise(x)
  <2> SUFFICES ASSUME NEW j \in 1 .. Len(x), NEW k \in 1 .. Len(x), j < k,
                      x[j].kind = "call", x[k].kind = "call"
               PROVE  x[j].id < x[k].id
    BY DEF CallsRise
  <2>1. CASE j \in 1 .. Len(b) /\ x[j] = b[j] /\ k \in 1 .. Len(b) /\ x[k] = b[k]
    BY <2>1 DEF Ledger, CallsRise
  <2>2. CASE j \in 1 .. Len(b) /\ x[j] = b[j] /\ k > Len(b)
    <3>1. BatchesAbove(q, x[j].id) BY <2>2 DEF Ledger
    <3>2. New(k) \in 1 .. Len(m.calls) /\ x[k].id = m.calls[New(k)].id BY <1>5, <1>12, <2>2
    <3> QED BY <1>10, <3>1, <3>2
  <2>3. CASE j > Len(b)
    <3>1. k > Len(b) /\ New(j) < New(k) BY <1>9, <2>3
    <3>2. /\ New(j) \in 1 .. Len(m.calls) /\ x[j].id = m.calls[New(j)].id
          /\ New(k) \in 1 .. Len(m.calls) /\ x[k].id = m.calls[New(k)].id
      BY <1>5, <1>12, <2>3, <3>1
    <3> QED BY <1>7, <3>1, <3>2
  <2> QED BY <1>5, <1>11, <2>1, <2>2, <2>3
<1>14. \A n : BatchesAbove(q, n) /\ CallsAbove(b, n) => CallsAbove(x, n)
  BY <1>5, <1>10 DEF CallsAbove
<1>15. \A id : Passed(q, b, c, id) => Passed(a, x, c, id) BY <1>1, <1>14 DEF Passed
<1>16. p \subseteq o /\ \A i \in 1 .. Len(m.calls) : m.calls[i].id \in o BY DEF o
<1>17. \A k \in 1 .. Len(x) :
         x[k].kind = "call" => x[k].id <= c /\ BatchesAbove(a, x[k].id) /\ x[k].id \in o
  <2> SUFFICES ASSUME NEW k \in 1 .. Len(x), x[k].kind = "call"
               PROVE  x[k].id <= c /\ BatchesAbove(a, x[k].id) /\ x[k].id \in o
    OBVIOUS
  <2>1. CASE k \in 1 .. Len(b) /\ x[k] = b[k] BY <1>1, <1>16, <2>1 DEF Ledger
  <2>2. CASE New(k) \in 1 .. Len(m.calls) /\ x[k].id = m.calls[New(k)].id
    BY <1>7, <1>8, <1>16, <2>2
  <2> QED BY <1>5, <2>1, <2>2
<1>18. \A k \in 1 .. Len(a) :
         a[k].kind = "result" =>
           /\ Passed(a, x, c, a[k].id) /\ a[k].id \in o
           /\ a[k].id \in DOMAIN r => a[k].status = r[a[k].id]
  BY <1>1, <1>15, <1>16 DEF Ledger
<1>19. \A id \in DOMAIN r : Passed(a, x, c, id) /\ (On(a, id) \/ Written(h, id) \/ r[id] \in Acks)
  BY <1>1, <1>15 DEF Ledger
<1>20. \A k \in 1 .. Len(h) :
         h[k].role = "tool" => Passed(a, x, c, h[k].id) /\ ResultsAbove(a, h[k].id)
  BY <1>1, <1>15 DEF Ledger
<1>21. (\A k \in 1 .. Len(a) : BatchInside(a[k], c)) /\ BatchesRise(a) /\ ResultsRise(a) /\ ToolsOnce(h)
  BY <1>1 DEF Ledger
<1>22. Ledger(a, x, h, o, r, c) BY <1>13, <1>17, <1>18, <1>19, <1>20, <1>21 DEF Ledger
<1> QED BY <1>22 DEF a, o, m

\* The result at the head is written behind its call, or is an acknowledgement: x is the
\* history after it.
LEMMA LedgerAnswered ==
  ASSUME NEW q \in Seq(BridgeMsgs), q # <<>>, Head(q).kind = "result",
         NEW b \in Seq(BrainMsgs), NEW h, NEW x, ToolsOnce(x),
         \A k \in 1 .. Len(x) : x[k].role = "tool" =>
           x[k].id = Head(q).id \/ \E j \in 1 .. Len(h) : x[k] = h[j],
         \A id : Written(h, id) => Written(x, id),
         Head(q).status \in Acks \/ Written(x, Head(q).id),
         NEW p, NEW r, NEW c, Ledger(q, b, h, p, r, c)
  PROVE  Ledger(Tail(q), b, x, p \ {Head(q).id}, r, c)
<1> DEFINE a == Tail(q)
           m == Head(q)
           o == p \ {m.id}
<1>1. /\ m = q[1] /\ 1 \in 1 .. Len(q) /\ m \in BridgeMsgs /\ a \in Seq(BridgeMsgs)
      /\ \A k \in 1 .. Len(a) : k + 1 \in 1 .. Len(q) /\ a[k] = q[k + 1]
      /\ \A n : BatchesAbove(q, n) => BatchesAbove(a, n)
      /\ \A n : ResultsAbove(q, n) => ResultsAbove(a, n)
      /\ BatchesRise(q) => BatchesRise(a)
      /\ ResultsRise(q) => ResultsRise(a) /\ ResultsAbove(a, m.id)
      /\ \A id : On(q, id) => On(a, id) \/ m.id = id
  BY BridgeLess
<1>2. /\ m.kind = "result" /\ (m.status \in Acks \/ Written(x, m.id))
      /\ \A k \in 1 .. Len(x) : x[k].role = "tool" =>
           x[k].id = m.id \/ \E j \in 1 .. Len(h) : x[k] = h[j]
  OBVIOUS
<1> HIDE DEF a, m, o
<1>3. m.id \in Nat BY <1>1, <1>2 DEF BridgeMsgs
<1>4. /\ Passed(q, b, c, m.id) /\ m.id \in p
      /\ m.id \in DOMAIN r => m.status = r[m.id]
  BY <1>1, <1>2 DEF Ledger
<1>5. ResultsAbove(a, m.id) BY <1>1 DEF Ledger
<1>6. \A id : Passed(q, b, c, id) => Passed(a, b, c, id) BY <1>1 DEF Passed
<1>7. \A k \in 1 .. Len(b) :
        b[k].kind = "call" => b[k].id <= c /\ BatchesAbove(a, b[k].id) /\ b[k].id \in o
  <2>1. ASSUME NEW k \in 1 .. Len(b), b[k].kind = "call" PROVE b[k].id # m.id
    <3>1. m.id < b[k].id BY <1>4, <2>1 DEF Passed, CallsAbove
    <3> QED BY <1>3, <3>1
  <2> QED BY <1>1, <2>1 DEF Ledger, o
<1>8. \A k \in 1 .. Len(a) :
        a[k].kind = "result" =>
          /\ Passed(a, b, c, a[k].id) /\ a[k].id \in o
          /\ a[k].id \in DOMAIN r => a[k].status = r[a[k].id]
  <2>1. ASSUME NEW k \in 1 .. Len(a), a[k].kind = "result" PROVE a[k].id # m.id
    <3>1. m.id < a[k].id BY <1>5, <2>1 DEF ResultsAbove
    <3> QED BY <1>3, <3>1
  <2> QED BY <1>1, <1>6, <2>1 DEF Ledger, o
<1>9. \A id \in DOMAIN r : Passed(a, b, c, id) /\ (On(a, id) \/ Written(x, id) \/ r[id] \in Acks)
  BY <1>1, <1>2, <1>4, <1>6 DEF Ledger
<1>10. \A k \in 1 .. Len(x) :
         x[k].role = "tool" => Passed(a, b, c, x[k].id) /\ ResultsAbove(a, x[k].id)
  <2>1. \A j \in 1 .. Len(h) :
          h[j].role = "tool" => Passed(a, b, c, h[j].id) /\ ResultsAbove(a, h[j].id)
    BY <1>1, <1>6 DEF Ledger
  <2> QED BY <1>2, <1>4, <1>5, <1>6, <2>1
<1>11. (\A k \in 1 .. Len(a) : BatchInside(a[k], c)) /\ BatchesRise(a) /\ ResultsRise(a) /\ CallsRise(b)
  BY <1>1 DEF Ledger
<1>12. Ledger(a, b, x, o, r, c) BY <1>7, <1>8, <1>9, <1>10, <1>11 DEF Ledger
<1> QED BY <1>12 DEF a, o, m

\* The brain answers the call at its head; x is what has been relayed after it, the call's
\* result included or not.
LEMMA LedgerResult ==
  ASSUME NEW q \in Seq(BridgeMsgs), NEW b \in Seq(BrainMsgs), b # <<>>, Head(b).kind = "call",
         NEW s \in Replies, NEW h \in Seq(Messages), NEW p, NEW r, DOMAIN r \subseteq Nat, NEW c \in Nat,
         NEW x,
         \/ x = r
         \/ /\ DOMAIN x = DOMAIN r \cup {Head(b).id} /\ x[Head(b).id] = s
            /\ \A id \in DOMAIN r : id # Head(b).id => x[id] = r[id],
         Ledger(q, b, h, p, r, c)
  PROVE  Ledger(Append(q, Result(Head(b).id, s)), Tail(b), h, p, x, c)
<1> DEFINE n == Head(b).id
           m == Result(n, s)
           a == Append(q, m)
           d == Tail(b)
<1>1. /\ d \in Seq(BrainMsgs) /\ Head(b) \in BrainMsgs /\ 1 \in 1 .. Len(b) /\ Head(b) = b[1]
      /\ \A k \in 1 .. Len(d) : k + 1 \in 1 .. Len(b) /\ d[k] = b[k + 1]
      /\ \A i : CallsAbove(b, i) => CallsAbove(d, i) /\ i < n
      /\ CallsRise(b) => CallsRise(d) /\ CallsAbove(d, n)
  BY BrainLess
<1>2. n \in Nat BY <1>1 DEF BrainMsgs
<1>3. m \in BridgeMsgs /\ m.kind = "result" /\ m.id = n /\ m.status = s
  BY <1>2 DEF Result, BridgeMsgs
<1>4. /\ \A k \in 1 .. Len(a) : (k \in 1 .. Len(q) /\ a[k] = q[k]) \/ (k = Len(q) + 1 /\ a[k] = m)
      /\ \A i : BatchesAbove(q, i) /\ BatchAbove(m, i) => BatchesAbove(a, i)
      /\ \A i : ResultsAbove(q, i) /\ (m.kind = "result" => i < m.id) => ResultsAbove(a, i)
      /\ BatchesRise(q) /\ (\A k \in 1 .. Len(q) : BatchBefore(q[k], m)) => BatchesRise(a)
      /\ ResultsRise(q) /\ (\A k \in 1 .. Len(q) :
                              q[k].kind = "result" /\ m.kind = "result" => q[k].id < m.id)
           => ResultsRise(a)
      /\ \A id : On(q, id) => On(a, id)
      /\ m.kind = "result" => On(a, m.id)
  BY <1>3, BridgeMore
<1>5. /\ x = r \/ (DOMAIN x = DOMAIN r \cup {n} /\ x[n] = s /\ \A id \in DOMAIN r : id # n => x[id] = r[id])
      /\ Head(b).kind = "call" /\ Head(b).id = n
  OBVIOUS
<1> HIDE DEF n, m, a, d
<1>6. /\ \A i : BatchAbove(m, i)
      /\ BatchInside(m, c)
      /\ \A k \in 1 .. Len(q) : BatchBefore(q[k], m)
  BY <1>3 DEF BatchAbove, BatchInside, BatchBefore
<1>7. n <= c /\ BatchesAbove(q, n) /\ n \in p /\ CallsAbove(d, n) BY <1>1, <1>5 DEF Ledger
<1>8. \A i : BatchesAbove(q, i) => BatchesAbove(a, i) BY <1>4, <1>6
<1>9. Passed(a, d, c, n) BY <1>7, <1>8 DEF Passed
<1>10. \A i : Passed(q, b, c, i) => Passed(a, d, c, i) /\ i < n BY <1>1, <1>8 DEF Passed
<1>11. n \notin DOMAIN r
  <2>1. n \in DOMAIN r => n < n BY <1>10 DEF Ledger
  <2> QED BY <1>2, <2>1
<1>12. (\A id \in DOMAIN r : id \in DOMAIN x /\ x[id] = r[id])
       /\ (\A id \in DOMAIN x : id \in DOMAIN r \/ id = n) /\ (n \in DOMAIN x => x[n] = s)
  BY <1>5, <1>11
<1>13. \A k \in 1 .. Len(q) : q[k].kind = "result" => q[k].id < n BY <1>10 DEF Ledger
<1>14. \A k \in 1 .. Len(a) : BatchInside(a[k], c) BY <1>4, <1>6 DEF Ledger
<1>15. BatchesRise(a) /\ ResultsRise(a) /\ CallsRise(d) BY <1>1, <1>3, <1>4, <1>6, <1>13 DEF Ledger
<1>16. \A k \in 1 .. Len(d) :
         d[k].kind = "call" => d[k].id <= c /\ BatchesAbove(a, d[k].id) /\ d[k].id \in p
  <2>1. \A k \in 1 .. Len(b) :
          b[k].kind = "call" => b[k].id <= c /\ BatchesAbove(a, b[k].id) /\ b[k].id \in p
    BY <1>8 DEF Ledger
  <2> QED BY <1>1, <2>1
<1>17. \A k \in 1 .. Len(a) :
         a[k].kind = "result" =>
           /\ Passed(a, d, c, a[k].id) /\ a[k].id \in p
           /\ a[k].id \in DOMAIN x => a[k].status = x[a[k].id]
  <2> SUFFICES ASSUME NEW k \in 1 .. Len(a), a[k].kind = "result"
               PROVE  /\ Passed(a, d, c, a[k].id) /\ a[k].id \in p
                      /\ a[k].id \in DOMAIN x => a[k].status = x[a[k].id]
    OBVIOUS
  <2>1. CASE a[k] = m BY <1>3, <1>7, <1>9, <1>12, <2>1
  <2>2. CASE k \in 1 .. Len(q) /\ a[k] = q[k]
    <3>1. /\ Passed(q, b, c, q[k].id) /\ q[k].id \in p
          /\ q[k].id \in DOMAIN r => q[k].status = r[q[k].id]
      BY <2>2 DEF Ledger
    <3>2. q[k].id # n
      <4>1. q[k].id < n BY <1>10, <3>1
      <4>2. q[k] \in BridgeMsgs BY <2>2
      <4>3. q[k].id \in Nat BY <2>2, <4>2 DEF BridgeMsgs
      <4> QED BY <1>2, <4>1, <4>3
    <3> QED BY <1>10, <1>12, <2>2, <3>1, <3>2
  <2> QED BY <1>4, <2>1, <2>2
<1>18. \A id \in DOMAIN x : Passed(a, d, c, id) /\ (On(a, id) \/ Written(h, id) \/ x[id] \in Acks)
  <2> SUFFICES ASSUME NEW id \in DOMAIN x
               PROVE  Passed(a, d, c, id) /\ (On(a, id) \/ Written(h, id) \/ x[id] \in Acks)
    OBVIOUS
  <2>1. CASE id = n BY <1>3, <1>4, <1>9, <2>1
  <2>2. CASE id \in DOMAIN r
    <3>1. Passed(q, b, c, id) /\ (On(q, id) \/ Written(h, id) \/ r[id] \in Acks) BY <2>2 DEF Ledger
    <3> QED BY <1>4, <1>10, <1>12, <2>2, <3>1
  <2> QED BY <1>12, <2>1, <2>2
<1>19. \A k \in 1 .. Len(h) :
         h[k].role = "tool" => Passed(a, d, c, h[k].id) /\ ResultsAbove(a, h[k].id)
  BY <1>3, <1>4, <1>10 DEF Ledger
<1>20. ToolsOnce(h) BY DEF Ledger
<1>21. Ledger(a, d, h, p, x, c) BY <1>14, <1>15, <1>16, <1>17, <1>18, <1>19, <1>20 DEF Ledger
<1> QED BY <1>21 DEF a, d, m, n

-----------------------------------------------------------------------------
(* CascadedTurns: the prompt. The last re-prompt in the bridge's channel   *)
(* is for where the brain is; without one the context has it already.      *)

PromptFor(q, pn, pt, n, t) ==
  /\ (\A k \in 1 .. Len(q) : q[k].kind # "reprompt") => pn = n /\ pt = t
  /\ \A k \in 1 .. Len(q) :
       q[k].kind = "reprompt" /\ (\A j \in 1 .. Len(q) : k < j => q[j].kind # "reprompt")
         => q[k].node = n /\ q[k].tools = t

\* Another message changes nothing, and a re-prompt behind the others is the last.
LEMMA PromptTold ==
  ASSUME NEW q \in Seq(BridgeMsgs), NEW m \in BridgeMsgs, NEW pn, NEW pt, NEW n, NEW t
  PROVE  /\ m.kind # "reprompt" /\ PromptFor(q, pn, pt, n, t) => PromptFor(Append(q, m), pn, pt, n, t)
         /\ m.kind = "reprompt" /\ m.node = n /\ m.tools = t => PromptFor(Append(q, m), pn, pt, n, t)
<1> DEFINE a == Append(q, m)
<1>1. /\ Len(q) \in Nat /\ Len(a) = Len(q) + 1
      /\ \A k \in 1 .. Len(a) : (k \in 1 .. Len(q) /\ a[k] = q[k]) \/ (k = Len(q) + 1 /\ a[k] = m)
  BY AppendAt
<1>2. (\A k \in 1 .. Len(q) : a[k] = q[k]) /\ a[Len(q) + 1] = m BY AppendProperties
<1> HIDE DEF a
<1>3. \A k \in 1 .. Len(q) : k \in 1 .. Len(a) BY <1>1
<1>4. Len(q) + 1 \in 1 .. Len(a) BY <1>1
<1>5. \A k \in 1 .. Len(q) : k < Len(q) + 1 BY <1>1
<1>6. ASSUME m.kind # "reprompt", PromptFor(q, pn, pt, n, t) PROVE PromptFor(a, pn, pt, n, t)
  <2>1. (\A k \in 1 .. Len(a) : a[k].kind # "reprompt") => \A k \in 1 .. Len(q) : q[k].kind # "reprompt"
    BY <1>2, <1>3
  <2>2. ASSUME NEW k \in 1 .. Len(a), a[k].kind = "reprompt",
               \A j \in 1 .. Len(a) : k < j => a[j].kind # "reprompt"
        PROVE  a[k].node = n /\ a[k].tools = t
    <3>1. k \in 1 .. Len(q) /\ a[k] = q[k] BY <1>1, <1>6, <2>2
    <3>2. \A j \in 1 .. Len(q) : k < j => q[j].kind # "reprompt" BY <1>2, <1>3, <2>2
    <3> QED BY <1>6, <2>2, <3>1, <3>2 DEF PromptFor
  <2> QED BY <1>6, <2>1, <2>2 DEF PromptFor
<1>7. ASSUME m.kind = "reprompt", m.node = n, m.tools = t PROVE PromptFor(a, pn, pt, n, t)
  <2>1. ~ \A k \in 1 .. Len(a) : a[k].kind # "reprompt" BY <1>2, <1>4, <1>7
  <2>2. ASSUME NEW k \in 1 .. Len(a), a[k].kind = "reprompt",
               \A j \in 1 .. Len(a) : k < j => a[j].kind # "reprompt"
        PROVE  a[k].node = n /\ a[k].tools = t
    BY <1>1, <1>2, <1>4, <1>5, <1>7, <2>2
  <2> QED BY <2>1, <2>2 DEF PromptFor
<1> QED BY <1>6, <1>7 DEF a

\* The bridge takes a message: a re-prompt is then the context's.
LEMMA PromptTaken ==
  ASSUME NEW q \in Seq(BridgeMsgs), q # <<>>, NEW pn, NEW pt, NEW n, NEW t,
         PromptFor(q, pn, pt, n, t)
  PROVE  /\ Head(q).kind # "reprompt" => PromptFor(Tail(q), pn, pt, n, t)
         /\ Head(q).kind = "reprompt" => PromptFor(Tail(q), Head(q).node, Head(q).tools, n, t)
<1> DEFINE a == Tail(q)
           m == Head(q)
<1>1. /\ Len(q) \in Nat /\ Len(a) = Len(q) - 1 /\ m = q[1] /\ 1 \in 1 .. Len(q)
      /\ \A k \in 1 .. Len(a) : k + 1 \in 1 .. Len(q) /\ a[k] = q[k + 1]
  BY TailAt
<1> HIDE DEF a, m
<1>2. \A k \in 1 .. Len(q) : k # 1 => k - 1 \in 1 .. Len(a) /\ (k - 1) + 1 = k BY <1>1
<1>3. \A k \in 1 .. Len(q) : k # 1 => k - 1 \in 1 .. Len(a) /\ q[k] = a[k - 1] BY <1>1, <1>2
<1>4. ASSUME NEW k \in 1 .. Len(a), a[k].kind = "reprompt",
             \A j \in 1 .. Len(a) : k < j => a[j].kind # "reprompt"
      PROVE  a[k].node = n /\ a[k].tools = t
  <2>1. k + 1 \in 1 .. Len(q) /\ a[k] = q[k + 1] BY <1>1
  <2>2. ASSUME NEW j \in 1 .. Len(q), k + 1 < j PROVE q[j].kind # "reprompt"
    <3>1. j # 1 /\ k < j - 1 BY <1>1, <2>2
    <3> QED BY <1>3, <1>4, <3>1
  <2> QED BY <1>4, <2>1, <2>2 DEF PromptFor
<1>5. ASSUME \A k \in 1 .. Len(a) : a[k].kind # "reprompt" PROVE
        /\ m.kind # "reprompt" => pn = n /\ pt = t
        /\ m.kind = "reprompt" => m.node = n /\ m.tools = t
  <2>1. \A k \in 1 .. Len(q) : k # 1 => q[k].kind # "reprompt" BY <1>3, <1>5
  <2>2. m.kind # "reprompt" => \A k \in 1 .. Len(q) : q[k].kind # "reprompt" BY <1>1, <2>1
  <2>3. \A j \in 1 .. Len(q) : 1 < j => q[j].kind # "reprompt"
    <3>1. \A j \in 1 .. Len(q) : 1 < j => j # 1 OBVIOUS
    <3> QED BY <2>1, <3>1
  <2> QED BY <1>1, <2>2, <2>3 DEF PromptFor
<1>6. m.kind # "reprompt" => PromptFor(a, pn, pt, n, t) BY <1>4, <1>5 DEF PromptFor
<1>7. m.kind = "reprompt" => PromptFor(a, m.node, m.tools, n, t) BY <1>4, <1>5 DEF PromptFor
<1> QED BY <1>6, <1>7 DEF a, m

-----------------------------------------------------------------------------
(* CascadedTurns: the invariant, and one lemma for each action.            *)

Snapshots == [tools : SUBSET Names, history : Seq(Messages)]

TurnsTypes ==
  /\ called \in Nat /\ users \in Nat
  /\ bridgeSys \in Seq(BridgeMsgs) /\ brainSys \in Seq(BrainMsgs) /\ history \in Seq(Messages)
  /\ llmQueue \in Seq(Snapshots) /\ promptTools \in SUBSET Names
  /\ brainNode \in DOMAIN Edges /\ brainTools \in SUBSET Names /\ DOMAIN relayed \subseteq Nat

TurnsLedger == Ledger(bridgeSys, brainSys, history, pendingCalls, relayed, called)
TurnsPrompt == PromptFor(bridgeSys, promptNode, promptTools, brainNode, ToolNames(brainNode, brainTools))

\* Until the caller speaks only the greeting runs, which is offered no tool.
Quiet ==
  users = 0 =>
    /\ GreetingHarmless
    /\ \A k \in 1 .. Len(llmQueue) : llmQueue[k].tools = {}
    /\ \A k \in 1 .. Len(bridgeSys) : bridgeSys[k].kind = "interruption"
    /\ \A k \in 1 .. Len(brainSys) : brainSys[k].kind = "interruption"

TurnsInv == TurnsTypes /\ TurnsLedger /\ TurnsPrompt /\ Quiet

\* The messages are what they are typed to be.
LEMMA MessagesTyped ==
  /\ [kind |-> "interruption"] \in BridgeMsgs /\ [kind |-> "interruption"] \in BrainMsgs
  /\ \A n \in DOMAIN Edges : \A t \in SUBSET Names :
       [kind |-> "reprompt", node |-> n, tools |-> t] \in BridgeMsgs
  /\ \A id \in Nat : \A s \in Replies : Result(id, s) \in BridgeMsgs
  /\ \A id \in Nat : \A role \in {"user", "call", "tool", "assistant"} :
       [role |-> role, id |-> id] \in Messages
  /\ \A n \in DOMAIN Edges : \A t \in SUBSET Names : ToolNames(n, t) \in SUBSET Names
  /\ \A n \in DOMAIN Edges : \A t \in ResolvedTools(n) : t \in SUBSET Names
<1>1. /\ [kind |-> "interruption"] \in BridgeMsgs /\ [kind |-> "interruption"] \in BrainMsgs
      /\ \A n \in DOMAIN Edges : \A t \in SUBSET Names :
           [kind |-> "reprompt", node |-> n, tools |-> t] \in BridgeMsgs
  BY DEF BridgeMsgs, BrainMsgs
<1>2. \A id \in Nat : \A s \in Replies : Result(id, s) \in BridgeMsgs BY DEF BridgeMsgs, Result
<1>3. \A id \in Nat : \A role \in {"user", "call", "tool", "assistant"} :
        [role |-> role, id |-> id] \in Messages
  BY DEF Messages
<1>4. \A n \in DOMAIN Edges : \A t \in SUBSET Names : ToolNames(n, t) \in SUBSET Names
  <2>1. \A n \in DOMAIN Edges : DOMAIN Edges[n] \subseteq AllEdges BY DEF AllEdges
  <2> QED BY <2>1 DEF ToolNames, Names
<1>5. \A n \in DOMAIN Edges : \A t \in ResolvedTools(n) : t \in SUBSET Names
  <2>1. \A n \in DOMAIN Edges : NodeTools[n] \in {NodeTools[k] : k \in DOMAIN Edges} OBVIOUS
  <2>2. ASSUME NEW n \in DOMAIN Edges, NEW t \in NodeTools[n] PROVE t \in Names
    <3>1. t \in AllTools BY <2>1, <2>2 DEF AllTools
    <3> QED BY <3>1 DEF Names
  <2>3. \A n \in DOMAIN Edges : NodeTools[n] \subseteq Names BY <2>2
  <2> QED BY <2>3 DEF ResolvedTools
<1> QED BY <1>1, <1>2, <1>3, <1>4, <1>5

\* A run more for the model: without tools it keeps the quiet.
LEMMA RunMore ==
  ASSUME NEW l \in Seq(Snapshots), NEW t \in SUBSET Names, NEW h \in Seq(Messages)
  PROVE  /\ Append(l, Snapshot(t, h)) \in Seq(Snapshots)
         /\ t = {} /\ (\A k \in 1 .. Len(l) : l[k].tools = {}) =>
              \A k \in 1 .. Len(Append(l, Snapshot(t, h))) : Append(l, Snapshot(t, h))[k].tools = {}
<1> DEFINE m == Snapshot(t, h)
<1>1. m \in Snapshots /\ m.tools = t BY DEF Snapshot, Snapshots
<1> HIDE DEF m
<1>2. /\ Append(l, m) \in Seq(Snapshots)
      /\ \A k \in 1 .. Len(Append(l, m)) :
           \/ k \in 1 .. Len(l) /\ Append(l, m)[k] = l[k]
           \/ k = Len(l) + 1 /\ Append(l, m)[k] = m
  BY <1>1, AppendAt
<1> QED BY <1>1, <1>2 DEF m

\* The greeting.
LEMMA KickoffKeeps == TurnsInv /\ Kickoff => TurnsInv'
<1> SUFFICES ASSUME TurnsInv, Kickoff PROVE TurnsInv' OBVIOUS
<1>1. TurnsTypes /\ TurnsLedger /\ TurnsPrompt /\ Quiet BY DEF TurnsInv
<1>2. UNCHANGED <<bridgeSys, brainSys, history, pendingCalls, relayed, called, users, promptNode,
                  promptTools, brainNode, brainTools, ending>>
  BY DEF Kickoff, ctxVars, brainVars
<1>3. llmQueue' = Append(llmQueue, Snapshot({}, history)) BY DEF Kickoff, Run
<1>4. /\ llmQueue' \in Seq(Snapshots)
      /\ (\A k \in 1 .. Len(llmQueue) : llmQueue[k].tools = {}) =>
           \A k \in 1 .. Len(llmQueue') : llmQueue'[k].tools = {}
  BY <1>1, <1>3, RunMore DEF TurnsTypes
<1>5. TurnsTypes' BY <1>1, <1>2, <1>4 DEF TurnsTypes
<1>6. TurnsLedger' BY <1>1, <1>2 DEF TurnsLedger
<1>7. TurnsPrompt' BY <1>1, <1>2 DEF TurnsPrompt
<1>8. Quiet' BY <1>1, <1>2, <1>4 DEF Quiet, GreetingHarmless
<1> QED BY <1>5, <1>6, <1>7, <1>8 DEF TurnsInv

\* The caller speaks.
LEMMA UserTurnKeeps == TurnsInv /\ UserTurn => TurnsInv'
<1> SUFFICES ASSUME TurnsInv, UserTurn PROVE TurnsInv' OBVIOUS
<1>1. TurnsTypes /\ TurnsLedger /\ TurnsPrompt /\ Quiet BY DEF TurnsInv
<1>2. UNCHANGED <<bridgeSys, brainSys, pendingCalls, relayed, called, promptNode,
                  promptTools, brainNode, brainTools, ending>>
  BY DEF UserTurn, brainVars
<1>3. /\ users' = users + 1 /\ history' = Append(history, [role |-> "user", id |-> 0])
      /\ llmQueue' = Append(llmQueue, Snapshot(promptTools, history'))
  BY DEF UserTurn, Run
<1>4. [role |-> "user", id |-> 0] \in Messages /\ [role |-> "user", id |-> 0].role # "tool"
  BY MessagesTyped
<1>5. history' \in Seq(Messages) BY <1>1, <1>3, <1>4, HistoryMore DEF TurnsTypes
<1>6. llmQueue' \in Seq(Snapshots) BY <1>1, <1>3, <1>5, RunMore DEF TurnsTypes
<1>7. users' \in Nat /\ users' # 0 BY <1>1, <1>3 DEF TurnsTypes
<1>8. TurnsTypes' BY <1>1, <1>2, <1>5, <1>6, <1>7 DEF TurnsTypes
<1>9. TurnsLedger' BY <1>1, <1>2, <1>3, <1>4, LedgerSpoken DEF TurnsLedger, TurnsTypes
<1>10. TurnsPrompt' BY <1>1, <1>2 DEF TurnsPrompt
<1>11. Quiet' BY <1>7 DEF Quiet
<1> QED BY <1>8, <1>9, <1>10, <1>11 DEF TurnsInv

\* A run of the model: its calls are numbered from the last one on; with no tool there is none.
LEMMA LlmRunKeeps == TurnsInv /\ LlmRun => TurnsInv'
<1> SUFFICES ASSUME TurnsInv, LlmRun PROVE TurnsInv' OBVIOUS
<1>1. TurnsTypes /\ TurnsLedger /\ TurnsPrompt /\ Quiet BY DEF TurnsInv
<1>2. UNCHANGED <<brainSys, history, pendingCalls, relayed, users, promptNode, promptTools,
                  brainNode, brainTools, ending>>
  BY DEF LlmRun, ctxVars, brainVars
<1>3. llmQueue # <<>> /\ llmQueue' = Tail(llmQueue) BY DEF LlmRun
<1> DEFINE s == Head(llmQueue)
           offered == IF s.tools = {} THEN {} ELSE s.tools \cup {"ghost"}
           Batch(n, names) == [k \in 1 .. n |-> [id |-> called + k, name |-> names[k]]]
<1>a. PICK n \in 0 .. 2 : \E names \in [1 .. n -> offered] :
         /\ called' = called + n
         /\ bridgeSys' = IF n = 0 THEN bridgeSys
              ELSE Append(bridgeSys, [kind |-> "calls", calls |-> Batch(n, names)])
  BY DEF LlmRun
<1>4. PICK names \in [1 .. n -> offered] :
        /\ called' = called + n
        /\ bridgeSys' = IF n = 0 THEN bridgeSys
             ELSE Append(bridgeSys, [kind |-> "calls", calls |-> Batch(n, names)])
  BY <1>a
<1>5. /\ llmQueue' \in Seq(Snapshots) /\ s \in Snapshots /\ s = llmQueue[1] /\ 1 \in 1 .. Len(llmQueue)
      /\ \A k \in 1 .. Len(llmQueue') : k + 1 \in 1 .. Len(llmQueue) /\ llmQueue'[k] = llmQueue[k + 1]
  <2>1. llmQueue \in Seq(Snapshots) BY <1>1 DEF TurnsTypes
  <2>2. /\ Tail(llmQueue) \in Seq(Snapshots) /\ Head(llmQueue) \in Snapshots
        /\ Head(llmQueue) = llmQueue[1] /\ 1 \in 1 .. Len(llmQueue)
        /\ \A k \in 1 .. Len(Tail(llmQueue)) :
             k + 1 \in 1 .. Len(llmQueue) /\ Tail(llmQueue)[k] = llmQueue[k + 1]
    BY <1>3, <2>1, TailAt
  <2> QED BY <1>3, <2>2
<1> HIDE DEF s
<1>6. offered \subseteq Names
  <2>1. s.tools \in SUBSET Names BY <1>5 DEF Snapshots
  <2> QED BY <2>1 DEF Names
<1>7. n = 0 \/ users # 0
  <2> SUFFICES ASSUME users = 0, n # 0 PROVE FALSE OBVIOUS
  <2>1. s.tools = {} BY <1>1, <1>5 DEF Quiet
  <2>2. offered = {} BY <2>1
  <2>3. 1 \in 1 .. n OBVIOUS
  <2>4. names[1] \in offered BY <2>3
  <2> QED BY <2>2, <2>4
<1> DEFINE calls == Batch(n, names)
           m == [kind |-> "calls", calls |-> calls]
<1>8. calls \in Seq(Calls) /\ Len(calls) = n /\ \A i \in 1 .. n : calls[i].id = called + i
  <2>1. called \in Nat BY <1>1 DEF TurnsTypes
  <2>2. n \in Nat /\ \A k \in 1 .. n : called + k \in Nat BY <2>1
  <2>3. \A k \in 1 .. n : names[k] \in Names BY <1>6
  <2>4. \A k \in 1 .. n : [id |-> called + k, name |-> names[k]] \in Calls BY <2>2, <2>3 DEF Calls
  <2>5. calls \in [1 .. n -> Calls] BY <2>4
  <2>6. calls \in Seq(Calls) /\ Len(calls) = n BY <2>2, <2>5
  <2>7. \A i \in 1 .. n : calls[i] = [id |-> called + i, name |-> names[i]] OBVIOUS
  <2> QED BY <2>6, <2>7
<1> HIDE DEF offered, Batch, calls
<1>9. m \in BridgeMsgs /\ m.kind = "calls" /\ m.calls = calls BY <1>8 DEF BridgeMsgs
<1> HIDE DEF m
<1>10. bridgeSys' = IF n = 0 THEN bridgeSys ELSE Append(bridgeSys, m) BY <1>4 DEF m, calls
<1>11. called \in Nat /\ called + n \in Nat /\ called <= called + n BY <1>1 DEF TurnsTypes
<1>12. /\ \A i \in 1 .. n : called + i \in Nat /\ called < called + i /\ called + i <= called + n
       /\ \A i, l \in 1 .. n : i < l => called + i < called + l
  BY <1>11
<1>13. BatchInside(m, called + n) BY <1>8, <1>9, <1>12 DEF BatchInside
<1>14. \A i \in 1 .. Len(m.calls) : m.calls[i].id \in Nat /\ called < m.calls[i].id
  BY <1>8, <1>9, <1>12
<1>15. bridgeSys' \in Seq(BridgeMsgs) BY <1>1, <1>9, <1>10, BridgeMore DEF TurnsTypes
<1>16. TurnsTypes' BY <1>1, <1>2, <1>4, <1>5, <1>11, <1>15 DEF TurnsTypes
<1>17. TurnsLedger'
  <2>1. CASE n = 0
    <3>1. called' = called /\ bridgeSys' = bridgeSys BY <1>4, <1>10, <1>11, <2>1
    <3> QED BY <1>1, <1>2, <3>1 DEF TurnsLedger
  <2>2. CASE n # 0
    <3>1. bridgeSys' = Append(bridgeSys, m) BY <1>10, <2>2
    <3>2. Ledger(bridgeSys, brainSys, history, pendingCalls, relayed, called) BY <1>1 DEF TurnsLedger
    <3>3. /\ bridgeSys \in Seq(BridgeMsgs) /\ brainSys \in Seq(BrainMsgs) /\ history \in Seq(Messages)
          /\ DOMAIN relayed \subseteq Nat
      BY <1>1 DEF TurnsTypes
    <3>4. Ledger(Append(bridgeSys, m), brainSys, history, pendingCalls, relayed, called + n)
      BY <1>9, <1>11, <1>13, <1>14, <3>2, <3>3, LedgerCalled
    <3> QED BY <1>2, <1>4, <3>1, <3>4 DEF TurnsLedger
  <2> QED BY <2>1, <2>2
<1>18. TurnsPrompt'
  <2>1. m.kind # "reprompt" BY <1>9
  <2>2. bridgeSys \in Seq(BridgeMsgs) BY <1>1 DEF TurnsTypes
  <2>3. PromptFor(bridgeSys, promptNode, promptTools, brainNode, ToolNames(brainNode, brainTools))
    BY <1>1 DEF TurnsPrompt
  <2>4. PromptFor(Append(bridgeSys, m), promptNode, promptTools, brainNode, ToolNames(brainNode, brainTools))
    BY <1>9, <2>1, <2>2, <2>3, PromptTold
  <2> QED BY <1>2, <1>10, <2>3, <2>4 DEF TurnsPrompt
<1>19. Quiet'
  <2> SUFFICES ASSUME users' = 0 PROVE Quiet' BY DEF Quiet
  <2>1. n = 0 /\ users = 0 BY <1>2, <1>7
  <2>2. called' = called /\ bridgeSys' = bridgeSys BY <1>4, <1>10, <1>11, <2>1
  <2>3. \A k \in 1 .. Len(llmQueue') : llmQueue'[k].tools = {} BY <1>1, <1>5, <2>1 DEF Quiet
  <2> QED BY <1>1, <1>2, <2>1, <2>2, <2>3 DEF Quiet, GreetingHarmless
<1> QED BY <1>16, <1>17, <1>18, <1>19 DEF TurnsInv

\* A barge-in reaches the LLM.
LEMMA LlmInterruptedKeeps == TurnsInv /\ LlmInterrupted => TurnsInv'
<1> SUFFICES ASSUME TurnsInv, LlmInterrupted PROVE TurnsInv' OBVIOUS
<1>1. TurnsTypes /\ TurnsLedger /\ TurnsPrompt /\ Quiet BY DEF TurnsInv
<1>2. UNCHANGED <<brainSys, history, pendingCalls, relayed, users, called, promptNode, promptTools,
                  brainNode, brainTools, ending>>
  BY DEF LlmInterrupted, ctxVars, brainVars
<1> DEFINE m == [kind |-> "interruption"]
<1>3. llmQueue' = <<>> /\ bridgeSys' = Append(bridgeSys, m) BY DEF LlmInterrupted
<1>4. m \in BridgeMsgs /\ m.kind = "interruption" BY MessagesTyped
<1> HIDE DEF m
<1>5. bridgeSys \in Seq(BridgeMsgs) BY <1>1 DEF TurnsTypes
<1>6. /\ bridgeSys' \in Seq(BridgeMsgs)
      /\ \A k \in 1 .. Len(bridgeSys') :
           (k \in 1 .. Len(bridgeSys) /\ bridgeSys'[k] = bridgeSys[k]) \/ bridgeSys'[k] = m
  BY <1>3, <1>4, <1>5, BridgeMore
<1>7. <<>> \in Seq(Snapshots) /\ Len(<<>>) = 0 /\ 1 .. 0 = {} OBVIOUS
<1>8. TurnsTypes' BY <1>1, <1>2, <1>3, <1>6, <1>7 DEF TurnsTypes
<1>9. m.kind # "calls" /\ m.kind # "result" /\ m.kind # "reprompt" BY <1>4
<1>10. TurnsLedger' BY <1>1, <1>2, <1>3, <1>4, <1>5, <1>9, LedgerTold DEF TurnsLedger
<1>11. TurnsPrompt' BY <1>1, <1>2, <1>3, <1>4, <1>5, <1>9, PromptTold DEF TurnsPrompt
<1>12. Quiet' BY <1>1, <1>2, <1>3, <1>4, <1>6, <1>7 DEF Quiet, GreetingHarmless
<1> QED BY <1>8, <1>10, <1>11, <1>12 DEF TurnsInv

\* The end comes down only once the brain has asked for it.
LEMMA EndArrivesKeeps == TurnsInv /\ EndArrives => TurnsInv'
<1> SUFFICES ASSUME TurnsInv, EndArrives PROVE TurnsInv' OBVIOUS
<1>1. TurnsTypes /\ TurnsLedger /\ TurnsPrompt /\ Quiet BY DEF TurnsInv
<1>2. UNCHANGED <<bridgeSys, brainSys, llmQueue, history, pendingCalls, relayed, users, called,
                  promptNode, promptTools, brainNode, brainTools>>
  BY DEF EndArrives, ctxVars
<1>3. ending = "asked" BY DEF EndArrives
<1>4. users # 0 BY <1>1, <1>3 DEF Quiet, GreetingHarmless
<1>5. TurnsTypes' BY <1>1, <1>2 DEF TurnsTypes
<1>6. TurnsLedger' BY <1>1, <1>2 DEF TurnsLedger
<1>7. TurnsPrompt' BY <1>1, <1>2 DEF TurnsPrompt
<1>8. Quiet' BY <1>2, <1>4 DEF Quiet
<1> QED BY <1>5, <1>6, <1>7, <1>8 DEF TurnsInv

\* What the bridge takes, and what that leaves alone.
LEMMA BridgeTakesFacts ==
  ASSUME NEW kind, BridgeTakes(kind), TurnsInv
  PROVE  /\ bridgeSys \in Seq(BridgeMsgs) /\ bridgeSys # <<>> /\ bridgeSys' = Tail(bridgeSys)
         /\ Head(bridgeSys) \in BridgeMsgs /\ Head(bridgeSys).kind = kind
         /\ bridgeSys' \in Seq(BridgeMsgs)
         /\ \A k \in 1 .. Len(bridgeSys') :
              k + 1 \in 1 .. Len(bridgeSys) /\ bridgeSys'[k] = bridgeSys[k + 1]
         /\ kind = "interruption" \/ users # 0
         /\ UNCHANGED <<brainNode, brainTools, relayed, ending, users, called>>
         /\ TurnsTypes /\ TurnsLedger /\ TurnsPrompt /\ Quiet
<1>1. TurnsTypes /\ TurnsLedger /\ TurnsPrompt /\ Quiet BY DEF TurnsInv
<1>2. bridgeSys # <<>> /\ Head(bridgeSys).kind = kind /\ bridgeSys' = Tail(bridgeSys)
  BY DEF BridgeTakes
<1>3. bridgeSys \in Seq(BridgeMsgs) BY <1>1 DEF TurnsTypes
<1>4. /\ Head(bridgeSys) \in BridgeMsgs /\ Head(bridgeSys) = bridgeSys[1] /\ 1 \in 1 .. Len(bridgeSys)
      /\ Tail(bridgeSys) \in Seq(BridgeMsgs)
      /\ \A k \in 1 .. Len(Tail(bridgeSys)) :
           k + 1 \in 1 .. Len(bridgeSys) /\ Tail(bridgeSys)[k] = bridgeSys[k + 1]
  BY <1>2, <1>3, TailAt
<1>5. kind = "interruption" \/ users # 0 BY <1>1, <1>2, <1>4 DEF Quiet
<1>6. UNCHANGED <<brainNode, brainTools, relayed, ending, users, called>> BY DEF BridgeTakes, brainVars
<1> QED BY <1>1, <1>2, <1>3, <1>4, <1>5, <1>6

\* The calls go on to the brain.
LEMMA BridgeCallsKeeps == TurnsInv /\ BridgeCalls => TurnsInv'
<1> SUFFICES ASSUME TurnsInv, BridgeCalls PROVE TurnsInv' OBVIOUS
<1> DEFINE calls == Head(bridgeSys).calls
           y == [k \in DOMAIN calls |-> [kind |-> "call", id |-> calls[k].id, name |-> calls[k].name]]
           x == brainSys \o y
<1>1. BridgeTakes("calls") BY DEF BridgeCalls
<1>2. /\ bridgeSys \in Seq(BridgeMsgs) /\ bridgeSys # <<>> /\ bridgeSys' = Tail(bridgeSys)
      /\ Head(bridgeSys) \in BridgeMsgs /\ Head(bridgeSys).kind = "calls"
      /\ bridgeSys' \in Seq(BridgeMsgs) /\ users # 0
      /\ UNCHANGED <<brainNode, brainTools, relayed, ending, users, called>>
      /\ TurnsTypes /\ TurnsLedger /\ TurnsPrompt
  BY <1>1, BridgeTakesFacts
<1>3. /\ pendingCalls' = pendingCalls \cup {calls[k].id : k \in DOMAIN calls} /\ brainSys' = x
      /\ UNCHANGED <<promptNode, promptTools, history, llmQueue>>
  BY DEF BridgeCalls, ctxVars
<1>4. calls \in Seq(Calls) BY <1>2 DEF BridgeMsgs
<1> HIDE DEF calls
<1>5. Len(calls) \in Nat /\ DOMAIN calls = 1 .. Len(calls) BY <1>4, LenProperties
<1>6. y \in Seq(BrainMsgs) /\ Len(y) = Len(calls)
      /\ \A k \in 1 .. Len(calls) : y[k].kind = "call" /\ y[k].id = calls[k].id
  <2>1. \A k \in 1 .. Len(calls) : calls[k] \in Calls BY <1>4
  <2>2. \A k \in 1 .. Len(calls) : calls[k].id \in Nat /\ calls[k].name \in Names BY <2>1 DEF Calls
  <2>3. \A k \in 1 .. Len(calls) :
          [kind |-> "call", id |-> calls[k].id, name |-> calls[k].name] \in BrainMsgs
    BY <2>2 DEF BrainMsgs
  <2>4. y \in [1 .. Len(calls) -> BrainMsgs] BY <1>5, <2>3
  <2>5. y \in Seq(BrainMsgs) /\ Len(y) = Len(calls) BY <1>5, <2>4
  <2>6. \A k \in 1 .. Len(calls) : y[k] = [kind |-> "call", id |-> calls[k].id, name |-> calls[k].name]
    BY <1>5
  <2> QED BY <2>5, <2>6
<1>7. brainSys \in Seq(BrainMsgs) BY <1>2 DEF TurnsTypes
<1> HIDE DEF y
<1>8. /\ x \in Seq(BrainMsgs) /\ Len(x) = Len(brainSys) + Len(y)
      /\ \A k \in 1 .. Len(brainSys) + Len(y) :
           x[k] = IF k <= Len(brainSys) THEN brainSys[k] ELSE y[k - Len(brainSys)]
  BY <1>6, <1>7, ConcatProperties
<1>9. Len(brainSys) \in Nat BY <1>7, LenProperties
<1> HIDE DEF x
<1>10. ASSUME NEW k \in 1 .. Len(x)
       PROVE  \/ k \in 1 .. Len(brainSys) /\ x[k] = brainSys[k]
              \/ /\ k > Len(brainSys) /\ k - Len(brainSys) \in 1 .. Len(calls)
                 /\ x[k].kind = "call" /\ x[k].id = calls[k - Len(brainSys)].id
  <2>1. k \in 1 .. Len(brainSys) + Len(y) BY <1>8
  <2>2. CASE k <= Len(brainSys) BY <1>8, <1>9, <2>1, <2>2
  <2>3. CASE ~ (k <= Len(brainSys))
    <3>1. k > Len(brainSys) /\ k - Len(brainSys) \in 1 .. Len(calls) BY <1>5, <1>6, <1>9, <2>1, <2>3
    <3>2. x[k] = y[k - Len(brainSys)] BY <1>8, <2>1, <2>3
    <3> QED BY <1>6, <3>1, <3>2
  <2> QED BY <2>2, <2>3
<1>11. Len(x) \in Nat BY <1>5, <1>6, <1>8, <1>9
<1>12. TurnsTypes' BY <1>2, <1>3, <1>8 DEF TurnsTypes
<1>13. TurnsLedger'
  <2>1. Ledger(bridgeSys, brainSys, history, pendingCalls, relayed, called) BY <1>2 DEF TurnsLedger
  <2>2. Ledger(Tail(bridgeSys), x, history,
               pendingCalls \cup {Head(bridgeSys).calls[k].id : k \in 1 .. Len(Head(bridgeSys).calls)},
               relayed, called)
    BY <1>2, <1>7, <1>9, <1>10, <1>11, <2>1, LedgerPassed DEF calls
  <2>3. pendingCalls' = pendingCalls \cup {Head(bridgeSys).calls[k].id : k \in 1 .. Len(Head(bridgeSys).calls)}
    BY <1>3, <1>5 DEF calls
  <2>4. Ledger(bridgeSys', brainSys', history, pendingCalls', relayed, called)
    BY <1>2, <1>3, <2>2, <2>3
  <2> QED BY <1>2, <1>3, <2>4 DEF TurnsLedger
<1>14. TurnsPrompt' BY <1>2, <1>3, PromptTaken DEF TurnsPrompt
<1>15. Quiet' BY <1>2 DEF Quiet
<1> QED BY <1>12, <1>13, <1>14, <1>15 DEF TurnsInv

\* A re-prompt becomes the context's prompt, and the model is run for it.
LEMMA BridgeRepromptKeeps == TurnsInv /\ BridgeReprompt => TurnsInv'
<1> SUFFICES ASSUME TurnsInv, BridgeReprompt PROVE TurnsInv' OBVIOUS
<1>1. BridgeTakes("reprompt") BY DEF BridgeReprompt
<1>2. /\ bridgeSys \in Seq(BridgeMsgs) /\ bridgeSys # <<>> /\ bridgeSys' = Tail(bridgeSys)
      /\ Head(bridgeSys) \in BridgeMsgs /\ Head(bridgeSys).kind = "reprompt"
      /\ bridgeSys' \in Seq(BridgeMsgs) /\ users # 0
      /\ UNCHANGED <<brainNode, brainTools, relayed, ending, users, called>>
      /\ TurnsTypes /\ TurnsLedger /\ TurnsPrompt
  BY <1>1, BridgeTakesFacts
<1>3. /\ promptNode' = Head(bridgeSys).node /\ promptTools' = Head(bridgeSys).tools
      /\ llmQueue' = Append(llmQueue, Snapshot(promptTools', history))
      /\ UNCHANGED <<history, brainSys, pendingCalls>>
  BY DEF BridgeReprompt, Run
<1>4. promptTools' \in SUBSET Names BY <1>2, <1>3 DEF BridgeMsgs
<1>5. llmQueue' \in Seq(Snapshots) BY <1>2, <1>3, <1>4, RunMore DEF TurnsTypes
<1>6. TurnsTypes' BY <1>2, <1>3, <1>4, <1>5 DEF TurnsTypes
<1>7. TurnsLedger' BY <1>2, <1>3, LedgerTaken DEF TurnsLedger
<1>8. TurnsPrompt' BY <1>2, <1>3, PromptTaken DEF TurnsPrompt
<1>9. Quiet' BY <1>2 DEF Quiet
<1> QED BY <1>6, <1>7, <1>8, <1>9 DEF TurnsInv

\* An interruption passes the bridge.
LEMMA BridgeInterruptedKeeps == TurnsInv /\ BridgeInterrupted => TurnsInv'
<1> SUFFICES ASSUME TurnsInv, BridgeInterrupted PROVE TurnsInv' OBVIOUS
<1>1. BridgeTakes("interruption") BY DEF BridgeInterrupted
<1>2. /\ bridgeSys \in Seq(BridgeMsgs) /\ bridgeSys # <<>> /\ bridgeSys' = Tail(bridgeSys)
      /\ Head(bridgeSys).kind = "interruption" /\ bridgeSys' \in Seq(BridgeMsgs)
      /\ \A k \in 1 .. Len(bridgeSys') :
           k + 1 \in 1 .. Len(bridgeSys) /\ bridgeSys'[k] = bridgeSys[k + 1]
      /\ UNCHANGED <<brainNode, brainTools, relayed, ending, users, called>>
      /\ TurnsTypes /\ TurnsLedger /\ TurnsPrompt /\ Quiet
  BY <1>1, BridgeTakesFacts
<1> DEFINE m == [kind |-> "interruption"]
<1>3. /\ brainSys' = Append(brainSys, m)
      /\ UNCHANGED <<promptNode, promptTools, history, llmQueue, pendingCalls>>
  BY DEF BridgeInterrupted, ctxVars
<1>4. m \in BrainMsgs /\ m.kind = "interruption" BY MessagesTyped
<1> HIDE DEF m
<1>5. brainSys \in Seq(BrainMsgs) BY <1>2 DEF TurnsTypes
<1>6. /\ brainSys' \in Seq(BrainMsgs)
      /\ \A k \in 1 .. Len(brainSys') : (k \in 1 .. Len(brainSys) /\ brainSys'[k] = brainSys[k]) \/ brainSys'[k] = m
  BY <1>3, <1>4, <1>5, BrainMore
<1>7. TurnsTypes' BY <1>2, <1>3, <1>6 DEF TurnsTypes
<1>8. TurnsLedger'
  <2>1. Ledger(Tail(bridgeSys), brainSys, history, pendingCalls, relayed, called)
    BY <1>2, LedgerTaken DEF TurnsLedger
  <2>2. Ledger(Tail(bridgeSys), Append(brainSys, m), history, pendingCalls, relayed, called)
    BY <1>4, <1>5, <2>1, LedgerBarged
  <2> QED BY <1>2, <1>3, <2>2 DEF TurnsLedger
<1>9. TurnsPrompt' BY <1>2, <1>3, PromptTaken DEF TurnsPrompt
<1>10. Quiet' BY <1>2, <1>3, <1>4, <1>6 DEF Quiet, GreetingHarmless
<1> QED BY <1>7, <1>8, <1>9, <1>10 DEF TurnsInv

\* Two messages more, one after the other.
LEMMA AppendTwo ==
  ASSUME NEW S, NEW q \in Seq(S), NEW a \in S, NEW b \in S
  PROVE  /\ q \o <<a, b>> = Append(Append(q, a), b)
         /\ (q \o <<a>>) \o <<b>> = Append(Append(q, a), b)
<1>1. /\ <<a>> \in Seq(S) /\ <<b>> \in Seq(S) /\ <<a, b>> \in Seq(S)
      /\ Len(<<a>>) = 1 /\ Len(<<b>>) = 1 /\ Len(<<a, b>>) = 2
      /\ <<a, b>>[1] = a /\ <<a, b>>[2] = b /\ <<a>>[1] = a /\ <<b>>[1] = b
  OBVIOUS
<1> DEFINE u == Append(q, a)
           v == Append(u, b)
<1>2. /\ u \in Seq(S) /\ Len(q) \in Nat /\ Len(u) = Len(q) + 1 /\ u[Len(q) + 1] = a
      /\ \A k \in 1 .. Len(q) : u[k] = q[k]
  BY AppendProperties, LenProperties
<1> HIDE DEF u
<1>3. /\ v \in Seq(S) /\ Len(v) = Len(u) + 1 /\ v[Len(u) + 1] = b
      /\ \A k \in 1 .. Len(u) : v[k] = u[k]
  BY <1>2, AppendProperties
<1> HIDE DEF v
<1>4. /\ Len(v) = Len(q) + 2 /\ v[Len(q) + 1] = a /\ v[Len(q) + 2] = b
      /\ \A k \in 1 .. Len(q) : v[k] = q[k]
  <2>1. Len(u) + 1 = Len(q) + 2 /\ Len(q) + 1 \in 1 .. Len(u) BY <1>2
  <2>2. \A k \in 1 .. Len(q) : k \in 1 .. Len(u) BY <1>2
  <2> QED BY <1>2, <1>3, <2>1, <2>2
<1>5. \A k \in 1 .. Len(q) + 2 : k \in 1 .. Len(q) \/ k = Len(q) + 1 \/ k = Len(q) + 2 BY <1>2
<1>6. q \o <<a, b>> = v
  <2> DEFINE t == <<a, b>>
             w == q \o t
  <2>1. t \in Seq(S) /\ Len(t) = 2 /\ t[1] = a /\ t[2] = b BY <1>1
  <2> HIDE DEF t
  <2>2. /\ w \in Seq(S) /\ Len(w) = Len(q) + Len(t)
        /\ \A k \in 1 .. Len(q) + Len(t) : w[k] = IF k <= Len(q) THEN q[k] ELSE t[k - Len(q)]
    BY <2>1, ConcatProperties
  <2> HIDE DEF w
  <2>3. Len(w) = Len(v) /\ \A k \in 1 .. Len(q) + 2 : w[k] = IF k <= Len(q) THEN q[k] ELSE t[k - Len(q)]
    BY <1>4, <2>1, <2>2
  <2>4. ASSUME NEW k \in 1 .. Len(w) PROVE w[k] = v[k]
    <3>1. k \in 1 .. Len(q) + 2 BY <1>4, <2>3
    <3>2. CASE k \in 1 .. Len(q) BY <1>2, <1>4, <2>3, <3>1, <3>2
    <3>3. CASE k = Len(q) + 1
      <4>1. ~ (k <= Len(q)) /\ k - Len(q) = 1 BY <1>2, <3>3
      <4> QED BY <1>4, <2>1, <2>3, <3>1, <3>3, <4>1
    <3>4. CASE k = Len(q) + 2
      <4>1. ~ (k <= Len(q)) /\ k - Len(q) = 2 BY <1>2, <3>4
      <4> QED BY <1>4, <2>1, <2>3, <3>1, <3>4, <4>1
    <3> QED BY <1>5, <3>1, <3>2, <3>3, <3>4
  <2>5. w = v BY <1>3, <2>2, <2>3, <2>4, SeqEqual
  <2> QED BY <2>5 DEF w, t
<1>7. u = q \o <<a>> BY AppendIsConcat DEF u
<1>8. v = u \o <<b>> BY <1>2, AppendIsConcat DEF v
<1> QED BY <1>6, <1>7, <1>8 DEF v, u

\* A result is written behind its call, which is still pending; an acknowledgement is dropped.
LEMMA BridgeResultKeeps == TurnsInv /\ BridgeResult => TurnsInv'
<1> SUFFICES ASSUME TurnsInv, BridgeResult PROVE TurnsInv' OBVIOUS
<1> DEFINE m == Head(bridgeSys)
           call == [role |-> "call", id |-> m.id]
           tool == [role |-> "tool", id |-> m.id]
           h == Append(history, call)
           x == Append(h, tool)
<1>1. BridgeTakes("result") BY DEF BridgeResult
<1>2. /\ bridgeSys \in Seq(BridgeMsgs) /\ bridgeSys # <<>> /\ bridgeSys' = Tail(bridgeSys)
      /\ m \in BridgeMsgs /\ m.kind = "result"
      /\ bridgeSys' \in Seq(BridgeMsgs) /\ users # 0
      /\ UNCHANGED <<brainNode, brainTools, relayed, ending, users, called>>
      /\ TurnsTypes /\ TurnsLedger /\ TurnsPrompt
  BY <1>1, BridgeTakesFacts
<1>3. /\ pendingCalls' = pendingCalls \ {m.id}
      /\ UNCHANGED <<promptNode, promptTools, brainSys>>
  BY DEF BridgeResult
<1>4. Ledger(bridgeSys, brainSys, history, pendingCalls, relayed, called) BY <1>2 DEF TurnsLedger
<1>5. m.id \in Nat /\ m.id \in pendingCalls
  <2>1. m = bridgeSys[1] /\ 1 \in 1 .. Len(bridgeSys) BY <1>2, TailAt
  <2> QED BY <1>2, <1>4, <2>1 DEF Ledger, BridgeMsgs
<1>6. call \in Messages /\ tool \in Messages BY <1>5, MessagesTyped
<1>7. history \in Seq(Messages) /\ brainSys \in Seq(BrainMsgs) BY <1>2 DEF TurnsTypes
<1>8. \/ m.status \in Acks /\ history' = history /\ llmQueue' = llmQueue
      \/ history' = x /\ llmQueue' = Append(llmQueue, Snapshot(promptTools, history'))
  <2>1. CASE IsTransitionAck(m.status) BY <2>1 DEF BridgeResult, IsTransitionAck
  <2>2. CASE ~ IsTransitionAck(m.status)
    <3>1. history' = (history \o <<call>>) \o <<tool>> BY <1>5, <2>2 DEF BridgeResult
    <3>2. (history \o <<call>>) \o <<tool>> = x BY <1>6, <1>7, AppendTwo
    <3>3. llmQueue' = Append(llmQueue, Snapshot(promptTools, history'))
      BY <2>2 DEF BridgeResult, ResultRun, Run
    <3> QED BY <3>1, <3>2, <3>3
  <2> QED BY <2>1, <2>2
<1>9. call.role = "call" /\ tool.role = "tool" /\ tool.id = m.id OBVIOUS
<1> HIDE DEF m
<1>10. /\ h \in Seq(Messages) /\ Len(history) \in Nat /\ Len(h) = Len(history) + 1 /\ h[Len(h)] = call
       /\ \A k \in 1 .. Len(h) :
            (k \in 1 .. Len(history) /\ h[k] = history[k]) \/ (k = Len(history) + 1 /\ h[k] = call)
       /\ \A id : Written(history, id) => Written(h, id)
       /\ ToolsOnce(history) => ToolsOnce(h)
  <2> HIDE DEF call, tool
  <2>1. call.role # "tool" BY <1>9
  <2> QED BY <1>6, <1>7, <2>1, HistoryMore
<1> HIDE DEF h
<1>11. \A k \in 1 .. Len(h) : h[k] # tool
  <2> SUFFICES ASSUME NEW k \in 1 .. Len(h), h[k] = tool PROVE FALSE OBVIOUS
  <2>1. k \in 1 .. Len(history) /\ h[k] = history[k]
    <3>1. h[k] # call BY <1>9
    <3> QED BY <1>10, <3>1
  <2>2. history[k].role = "tool" /\ history[k].id = m.id BY <2>1
  <2>3. ResultsAbove(bridgeSys, m.id) BY <1>4, <2>1, <2>2 DEF Ledger
  <2>4. m = bridgeSys[1] /\ 1 \in 1 .. Len(bridgeSys) BY <1>2, TailAt DEF m
  <2>5. m.id < m.id BY <1>2, <2>3, <2>4 DEF ResultsAbove
  <2> QED BY <1>5, <2>5
<1>12. /\ x \in Seq(Messages) /\ ToolsOnce(x) /\ Written(x, m.id)
       /\ \A k \in 1 .. Len(x) : (k \in 1 .. Len(h) /\ x[k] = h[k]) \/ x[k] = tool
       /\ \A id : Written(h, id) => Written(x, id)
  <2>1. ToolsOnce(h) BY <1>4, <1>10 DEF Ledger
  <2>2. Len(h) > 0 BY <1>10
  <2> QED BY <1>6, <1>10, <1>11, <2>1, <2>2, HistoryMore
<1>13. \A k \in 1 .. Len(x) : x[k].role = "tool" => x[k].id = m.id \/ \E j \in 1 .. Len(history) : x[k] = history[j]
  BY <1>9, <1>10, <1>12
<1> HIDE DEF x, call, tool
<1>14. history' \in Seq(Messages) BY <1>7, <1>8, <1>12
<1>15. llmQueue' \in Seq(Snapshots) BY <1>2, <1>8, <1>14, RunMore DEF TurnsTypes
<1>16. TurnsTypes' BY <1>2, <1>3, <1>14, <1>15 DEF TurnsTypes
<1>17. TurnsLedger'
  <2>1. CASE m.status \in Acks /\ history' = history
    <3>1. ToolsOnce(history) BY <1>4 DEF Ledger
    <3>2. Ledger(Tail(bridgeSys), brainSys, history, pendingCalls \ {m.id}, relayed, called)
      BY <1>2, <1>4, <1>7, <2>1, <3>1, LedgerAnswered DEF m
    <3> QED BY <1>2, <1>3, <2>1, <3>2 DEF TurnsLedger
  <2>2. CASE history' = x
    <3>1. \A id : Written(history, id) => Written(x, id) BY <1>10, <1>12
    <3>2. Ledger(Tail(bridgeSys), brainSys, x, pendingCalls \ {m.id}, relayed, called)
      BY <1>2, <1>4, <1>7, <1>12, <1>13, <3>1, LedgerAnswered DEF m
    <3> QED BY <1>2, <1>3, <2>2, <3>2 DEF TurnsLedger
  <2> QED BY <1>8, <2>1, <2>2
<1>18. TurnsPrompt' BY <1>2, <1>3, PromptTaken DEF TurnsPrompt, m
<1>19. Quiet' BY <1>2 DEF Quiet
<1> QED BY <1>16, <1>17, <1>18, <1>19 DEF TurnsInv

\* What the brain takes, and what that leaves alone.
LEMMA BrainTakesFacts ==
  ASSUME NEW kind, BrainTakes(kind), TurnsInv
  PROVE  /\ brainSys \in Seq(BrainMsgs) /\ brainSys # <<>> /\ brainSys' = Tail(brainSys)
         /\ Head(brainSys) \in BrainMsgs /\ Head(brainSys).kind = kind
         /\ brainSys' \in Seq(BrainMsgs)
         /\ \A k \in 1 .. Len(brainSys') : k + 1 \in 1 .. Len(brainSys) /\ brainSys'[k] = brainSys[k + 1]
         /\ kind = "interruption" \/ users # 0
         /\ UNCHANGED <<promptNode, promptTools, history, llmQueue, pendingCalls, users, called>>
         /\ TurnsTypes /\ TurnsLedger /\ TurnsPrompt /\ Quiet
         /\ bridgeSys \in Seq(BridgeMsgs) /\ history \in Seq(Messages) /\ called \in Nat
         /\ DOMAIN relayed \subseteq Nat
         /\ Ledger(bridgeSys, brainSys, history, pendingCalls, relayed, called)
<1>1. TurnsTypes /\ TurnsLedger /\ TurnsPrompt /\ Quiet BY DEF TurnsInv
<1>2. brainSys # <<>> /\ Head(brainSys).kind = kind /\ brainSys' = Tail(brainSys)
  BY DEF BrainTakes
<1>3. brainSys \in Seq(BrainMsgs) BY <1>1 DEF TurnsTypes
<1>4. /\ Head(brainSys) \in BrainMsgs /\ Head(brainSys) = brainSys[1] /\ 1 \in 1 .. Len(brainSys)
      /\ Tail(brainSys) \in Seq(BrainMsgs)
      /\ \A k \in 1 .. Len(Tail(brainSys)) :
           k + 1 \in 1 .. Len(brainSys) /\ Tail(brainSys)[k] = brainSys[k + 1]
  BY <1>2, <1>3, TailAt
<1>5. kind = "interruption" \/ users # 0 BY <1>1, <1>2, <1>4 DEF Quiet
<1>6. UNCHANGED <<promptNode, promptTools, history, llmQueue, pendingCalls, users, called>>
  BY DEF BrainTakes, ctxVars
<1>7. /\ bridgeSys \in Seq(BridgeMsgs) /\ history \in Seq(Messages) /\ called \in Nat
      /\ DOMAIN relayed \subseteq Nat
      /\ Ledger(bridgeSys, brainSys, history, pendingCalls, relayed, called)
  BY <1>1 DEF TurnsTypes, TurnsLedger
<1> QED BY <1>1, <1>2, <1>3, <1>4, <1>5, <1>6, <1>7

\* A workflow tool is relayed: its result is on its way, under a number of its own.
LEMMA BrainRelaysKeeps == TurnsInv /\ BrainRelays => TurnsInv'
<1> SUFFICES ASSUME TurnsInv, BrainRelays PROVE TurnsInv' OBVIOUS
<1> DEFINE n == Head(brainSys).id
<1>1. BrainTakes("call") BY DEF BrainRelays
<1>2. /\ brainSys \in Seq(BrainMsgs) /\ brainSys # <<>> /\ brainSys' = Tail(brainSys)
      /\ Head(brainSys) \in BrainMsgs /\ Head(brainSys).kind = "call"
      /\ brainSys' \in Seq(BrainMsgs) /\ users # 0
      /\ UNCHANGED <<promptNode, promptTools, history, llmQueue, pendingCalls, users, called>>
      /\ TurnsTypes /\ TurnsLedger /\ TurnsPrompt
      /\ bridgeSys \in Seq(BridgeMsgs) /\ history \in Seq(Messages) /\ called \in Nat
      /\ DOMAIN relayed \subseteq Nat
      /\ Ledger(bridgeSys, brainSys, history, pendingCalls, relayed, called)
  BY <1>1, BrainTakesFacts
<1>3. PICK s \in RelayStatuses :
        /\ relayed' = [id \in DOMAIN relayed \cup {n} |-> IF id = n THEN s ELSE relayed[id]]
        /\ bridgeSys' = Append(bridgeSys, Result(n, s))
  BY DEF BrainRelays
<1>4. UNCHANGED <<brainNode, brainTools, ending>> BY DEF BrainRelays
<1>5. n \in Nat /\ s \in Replies BY <1>2 DEF BrainMsgs, Replies
<1>6. Result(n, s) \in BridgeMsgs BY <1>5, MessagesTyped
<1>7. bridgeSys' \in Seq(BridgeMsgs) BY <1>2, <1>3, <1>6, BridgeMore
<1>8. /\ DOMAIN relayed' = DOMAIN relayed \cup {n} /\ relayed'[n] = s
      /\ \A id \in DOMAIN relayed : id # n => relayed'[id] = relayed[id]
  BY <1>3
<1>9. DOMAIN relayed' \subseteq Nat BY <1>2, <1>5, <1>8
<1>10. TurnsTypes' BY <1>2, <1>4, <1>7, <1>9 DEF TurnsTypes
<1>11. TurnsLedger'
  <2>1. Ledger(Append(bridgeSys, Result(n, s)), Tail(brainSys), history, pendingCalls, relayed', called)
    BY <1>2, <1>5, <1>8, LedgerResult
  <2> QED BY <1>2, <1>3, <2>1 DEF TurnsLedger
<1>12. TurnsPrompt'
  <2>1. Result(n, s).kind # "reprompt" BY DEF Result
  <2> QED BY <1>2, <1>3, <1>4, <1>6, <2>1, PromptTold DEF TurnsPrompt
<1>13. Quiet' BY <1>2 DEF Quiet
<1> QED BY <1>10, <1>11, <1>12, <1>13 DEF TurnsInv

\* The end tool, or an unknown name, is answered.
LEMMA BrainStaysOrEndsKeeps == TurnsInv /\ BrainStaysOrEnds => TurnsInv'
<1> SUFFICES ASSUME TurnsInv, BrainStaysOrEnds PROVE TurnsInv' OBVIOUS
<1> DEFINE n == Head(brainSys).id
           s == IF Head(brainSys).name = EndTool THEN "ended" ELSE "stay"
<1>1. BrainTakes("call") BY DEF BrainStaysOrEnds
<1>2. /\ brainSys \in Seq(BrainMsgs) /\ brainSys # <<>> /\ brainSys' = Tail(brainSys)
      /\ Head(brainSys) \in BrainMsgs /\ Head(brainSys).kind = "call"
      /\ brainSys' \in Seq(BrainMsgs) /\ users # 0
      /\ UNCHANGED <<promptNode, promptTools, history, llmQueue, pendingCalls, users, called>>
      /\ TurnsTypes /\ TurnsLedger /\ TurnsPrompt
      /\ bridgeSys \in Seq(BridgeMsgs) /\ history \in Seq(Messages) /\ called \in Nat
      /\ DOMAIN relayed \subseteq Nat
      /\ Ledger(bridgeSys, brainSys, history, pendingCalls, relayed, called)
  BY <1>1, BrainTakesFacts
<1>3. bridgeSys' = Append(bridgeSys, Result(n, s)) BY DEF BrainStaysOrEnds
<1>4. UNCHANGED <<brainNode, brainTools, relayed>> BY DEF BrainStaysOrEnds
<1>5. n \in Nat /\ s \in Replies BY <1>2 DEF BrainMsgs, Replies, Acks
<1> HIDE DEF s
<1>6. Result(n, s) \in BridgeMsgs BY <1>5, MessagesTyped
<1>7. bridgeSys' \in Seq(BridgeMsgs) BY <1>2, <1>3, <1>6, BridgeMore
<1>8. TurnsTypes' BY <1>2, <1>4, <1>7 DEF TurnsTypes
<1>9. TurnsLedger'
  <2>1. Ledger(Append(bridgeSys, Result(n, s)), Tail(brainSys), history, pendingCalls, relayed, called)
    BY <1>2, <1>5, LedgerResult
  <2> QED BY <1>2, <1>3, <1>4, <2>1 DEF TurnsLedger
<1>10. TurnsPrompt'
  <2>1. Result(n, s).kind # "reprompt" BY DEF Result
  <2> QED BY <1>2, <1>3, <1>4, <1>6, <2>1, PromptTold DEF TurnsPrompt
<1>11. Quiet' BY <1>2 DEF Quiet
<1> QED BY <1>8, <1>9, <1>10, <1>11 DEF TurnsInv

\* The brain moves: the re-prompt for the new node is the last, and goes before the
\* acknowledgement.
LEMMA BrainMovesKeeps == TurnsInv /\ BrainMoves => TurnsInv'
<1> SUFFICES ASSUME TurnsInv, BrainMoves PROVE TurnsInv' OBVIOUS
<1> DEFINE n == Head(brainSys).id
<1>1. BrainTakes("call") BY DEF BrainMoves
<1>2. /\ brainSys \in Seq(BrainMsgs) /\ brainSys # <<>> /\ brainSys' = Tail(brainSys)
      /\ Head(brainSys) \in BrainMsgs /\ Head(brainSys).kind = "call"
      /\ brainSys' \in Seq(BrainMsgs) /\ users # 0
      /\ UNCHANGED <<promptNode, promptTools, history, llmQueue, pendingCalls, users, called>>
      /\ TurnsTypes /\ TurnsLedger /\ TurnsPrompt
      /\ bridgeSys \in Seq(BridgeMsgs) /\ history \in Seq(Messages) /\ called \in Nat
      /\ DOMAIN relayed \subseteq Nat
      /\ Ledger(bridgeSys, brainSys, history, pendingCalls, relayed, called)
  BY <1>1, BrainTakesFacts
<1>3. /\ Head(brainSys).name \in DOMAIN Edges[brainNode]
      /\ brainNode' = Edges[brainNode][Head(brainSys).name]
      /\ UNCHANGED <<ending, relayed>>
  BY DEF BrainMoves
<1>4. brainNode' \in DOMAIN Edges
  <2>1. brainNode \in DOMAIN Edges BY <1>2 DEF TurnsTypes
  <2> QED BY <1>3, <2>1, TurnsAssumption
<1> DEFINE Re(t) == [kind |-> "reprompt", node |-> brainNode', tools |-> ToolNames(brainNode', t)]
<1>5. PICK mcp \in ResolvedTools(brainNode') :
        /\ brainTools' = mcp
        /\ bridgeSys' = bridgeSys \o <<Re(mcp), Result(n, "moved")>>
  BY DEF BrainMoves
<1> DEFINE m == Re(mcp)
           a == Append(bridgeSys, m)
           k == Result(n, "moved")
<1>6. mcp \in SUBSET Names /\ ToolNames(brainNode', mcp) \in SUBSET Names BY <1>4, MessagesTyped
<1>7. m \in BridgeMsgs BY <1>4, <1>6, MessagesTyped
<1>8. n \in Nat /\ "moved" \in Replies BY <1>2 DEF BrainMsgs, Replies, Acks
<1>9. k \in BridgeMsgs /\ k.kind # "reprompt" BY <1>8, MessagesTyped DEF Result
<1>10. /\ m.kind = "reprompt" /\ m.kind # "calls" /\ m.kind # "result"
       /\ m.node = brainNode' /\ m.tools = ToolNames(brainNode', mcp)
  OBVIOUS
<1>11. bridgeSys' = Append(a, k)
  <2> HIDE DEF m, k, Re
  <2>1. bridgeSys \o <<m, k>> = Append(Append(bridgeSys, m), k) BY <1>2, <1>7, <1>9, AppendTwo
  <2>2. bridgeSys' = bridgeSys \o <<m, k>> BY <1>5 DEF m, k
  <2> QED BY <2>1, <2>2
<1> HIDE DEF m, Re
<1>12. a \in Seq(BridgeMsgs) BY <1>2, <1>7, BridgeMore
<1>13. Ledger(a, brainSys, history, pendingCalls, relayed, called) BY <1>2, <1>7, <1>10, LedgerTold
<1>14. PromptFor(a, promptNode, promptTools, brainNode', ToolNames(brainNode', mcp))
  BY <1>2, <1>7, <1>10, PromptTold
<1> HIDE DEF a
<1>15. bridgeSys' \in Seq(BridgeMsgs) BY <1>9, <1>11, <1>12, BridgeMore
<1>16. TurnsTypes' BY <1>2, <1>3, <1>4, <1>5, <1>6, <1>15 DEF TurnsTypes
<1>17. TurnsLedger'
  <2>1. Ledger(Append(a, Result(n, "moved")), Tail(brainSys), history, pendingCalls, relayed, called)
    BY <1>2, <1>8, <1>12, <1>13, LedgerResult
  <2> QED BY <1>2, <1>3, <1>11, <2>1 DEF TurnsLedger
<1>18. TurnsPrompt'
  <2>1. PromptFor(Append(a, k), promptNode, promptTools, brainNode', ToolNames(brainNode', mcp))
    BY <1>9, <1>12, <1>14, PromptTold
  <2> QED BY <1>2, <1>5, <1>11, <2>1 DEF TurnsPrompt
<1>19. Quiet' BY <1>2 DEF Quiet
<1> QED BY <1>16, <1>17, <1>18, <1>19 DEF TurnsInv

\* An interruption passes the brain.
LEMMA BrainInterruptedKeeps == TurnsInv /\ BrainInterrupted => TurnsInv'
<1> SUFFICES ASSUME TurnsInv, BrainInterrupted PROVE TurnsInv' OBVIOUS
<1>1. BrainTakes("interruption") BY DEF BrainInterrupted
<1>2. /\ brainSys \in Seq(BrainMsgs) /\ brainSys # <<>> /\ brainSys' = Tail(brainSys)
      /\ brainSys' \in Seq(BrainMsgs)
      /\ \A k \in 1 .. Len(brainSys') : k + 1 \in 1 .. Len(brainSys) /\ brainSys'[k] = brainSys[k + 1]
      /\ UNCHANGED <<promptNode, promptTools, history, llmQueue, pendingCalls, users, called>>
      /\ TurnsTypes /\ TurnsLedger /\ TurnsPrompt /\ Quiet
      /\ Ledger(bridgeSys, brainSys, history, pendingCalls, relayed, called)
  BY <1>1, BrainTakesFacts
<1>3. UNCHANGED <<bridgeSys, brainNode, brainTools, ending, relayed>> BY DEF BrainInterrupted, brainVars
<1>4. TurnsTypes' BY <1>2, <1>3 DEF TurnsTypes
<1>5. TurnsLedger' BY <1>2, <1>3, LedgerHeard DEF TurnsLedger
<1>6. TurnsPrompt' BY <1>2, <1>3 DEF TurnsPrompt
<1>7. Quiet' BY <1>2, <1>3 DEF Quiet, GreetingHarmless
<1> QED BY <1>4, <1>5, <1>6, <1>7 DEF TurnsInv

\* The assistant's reply is written, whole or as far as it was spoken, or not at all.
LEMMA AggKeeps == TurnsInv /\ (AggReply \/ AggInterrupted) => TurnsInv'
<1> SUFFICES ASSUME TurnsInv, AggReply \/ AggInterrupted PROVE TurnsInv' OBVIOUS
<1>1. TurnsTypes /\ TurnsLedger /\ TurnsPrompt /\ Quiet BY DEF TurnsInv
<1> DEFINE m == [role |-> "assistant", id |-> 0]
<1>2. /\ UNCHANGED <<promptNode, promptTools, llmQueue, bridgeSys, brainSys, brainNode, brainTools,
                     ending, relayed, pendingCalls, users, called>>
      /\ history' = history \/ history' = Append(history, m)
  BY DEF AggReply, AggInterrupted, Committed, brainVars
<1>3. m \in Messages /\ m.role # "tool" BY MessagesTyped
<1> HIDE DEF m
<1>4. history \in Seq(Messages) BY <1>1 DEF TurnsTypes
<1>5. history' \in Seq(Messages) BY <1>2, <1>3, <1>4, HistoryMore
<1>6. TurnsTypes' BY <1>1, <1>2, <1>5 DEF TurnsTypes
<1>7. TurnsLedger' BY <1>1, <1>2, <1>3, <1>4, LedgerSpoken DEF TurnsLedger
<1>8. TurnsPrompt' BY <1>1, <1>2 DEF TurnsPrompt
<1>9. Quiet' BY <1>1, <1>2 DEF Quiet, GreetingHarmless
<1> QED BY <1>6, <1>7, <1>8, <1>9 DEF TurnsInv

\* A call starts with empty channels and the start node's prompt.
LEMMA TurnsStart == TurnsInit => TurnsInv
<1> SUFFICES ASSUME TurnsInit PROVE TurnsInv OBVIOUS
<1>1. Seeded BY DEF TurnsInit, BuildCascadedCall, BuildCascadedCallDuplex
<1>2. /\ Len(<<>>) = 0 /\ 1 .. 0 = {} /\ DOMAIN <<>> = {}
      /\ <<>> \in Seq(BridgeMsgs) /\ <<>> \in Seq(BrainMsgs) /\ <<>> \in Seq(Messages)
      /\ <<>> \in Seq(Snapshots)
  OBVIOUS
<1>3. brainNode \in DOMAIN Edges BY <1>1, TurnsAssumption DEF Seeded
<1>4. brainTools \in SUBSET Names /\ promptTools \in SUBSET Names
  <2>1. brainTools \in SUBSET Names BY <1>1, <1>3, MessagesTyped DEF Seeded
  <2> QED BY <1>1, <1>3, <2>1, MessagesTyped DEF Seeded
<1>5. TurnsTypes BY <1>1, <1>2, <1>3, <1>4 DEF TurnsTypes, Seeded
<1>6. TurnsLedger
  <2>1. Ledger(<<>>, <<>>, <<>>, {}, <<>>, 0)
    BY <1>2 DEF Ledger, BatchesRise, ResultsRise, CallsRise, ToolsOnce
  <2> QED BY <1>1, <2>1 DEF TurnsLedger, Seeded
<1>7. TurnsPrompt
  <2>1. \A n, t : PromptFor(<<>>, n, t, n, t) BY <1>2 DEF PromptFor
  <2> QED BY <1>1, <2>1 DEF TurnsPrompt, Seeded
<1>8. Quiet BY <1>1, <1>2 DEF Quiet, GreetingHarmless, Seeded
<1> QED BY <1>5, <1>6, <1>7, <1>8 DEF TurnsInv

\* Every step keeps the invariant.
LEMMA TurnsStep == TurnsInv /\ [TurnsNext]_turnsVars => TurnsInv'
<1>1. TurnsInv /\ UNCHANGED turnsVars => TurnsInv'
  BY DEF TurnsInv, turnsVars, ctxVars, brainVars, TurnsTypes, TurnsLedger, TurnsPrompt, Quiet,
         GreetingHarmless
<1> QED
  BY <1>1, KickoffKeeps, UserTurnKeeps, LlmRunKeeps, LlmInterruptedKeeps, EndArrivesKeeps,
     BridgeCallsKeeps, BridgeRepromptKeeps, BridgeResultKeeps, BridgeInterruptedKeeps,
     BrainRelaysKeeps, BrainMovesKeeps, BrainStaysOrEndsKeeps, BrainInterruptedKeeps, AggKeeps
  DEF TurnsNext

\* The conversation is where the brain is: nothing happens before the caller speaks, the prompt
\* is the current node's unless its re-prompt is on its way, and the result of every workflow
\* tool is on its way, in the history once behind its own call, or reads as an acknowledgement.
THEOREM ConversationFollowsBrain == TurnsSpec => []BrainFollowed
<1>1. TurnsInv => BrainFollowed
  <2> SUFFICES ASSUME TurnsInv PROVE BrainFollowed OBVIOUS
  <2>1. TurnsTypes /\ TurnsLedger /\ TurnsPrompt /\ Quiet BY DEF TurnsInv
  <2>2. DOMAIN bridgeSys = 1 .. Len(bridgeSys) /\ DOMAIN history = 1 .. Len(history)
    BY <2>1, LenProperties DEF TurnsTypes
  <2>3. GreetingHarmless BY <2>1 DEF Quiet, GreetingHarmless
  <2>4. PromptFollows BY <2>1, <2>2 DEF TurnsPrompt, PromptFor, PromptFollows
  <2>5. ResultsKept
    <3>1. Ledger(bridgeSys, brainSys, history, pendingCalls, relayed, called) BY <2>1 DEF TurnsLedger
    <3>2. \A id : On(bridgeSys, id) => OnItsWay(id) BY <2>2 DEF On, OnItsWay
    <3>3. \A id : Written(history, id) => InHistory(id) BY DEF Written, InHistory
    <3>4. \A id \in DOMAIN relayed : OnItsWay(id) \/ InHistory(id) \/ relayed[id] \in Acks
      BY <3>1, <3>2, <3>3 DEF Ledger
    <3>5. \A j, k \in DOMAIN history : j # k /\ history[j].role = "tool" => history[j] # history[k]
      BY <2>2, <3>1 DEF Ledger, ToolsOnce
    <3> QED BY <3>4, <3>5 DEF ResultsKept
  <2> QED BY <2>3, <2>4, <2>5 DEF BrainFollowed
<1> QED BY <1>1, TurnsStart, TurnsStep, PTL DEF TurnsSpec

-----------------------------------------------------------------------------
(* RealtimeSession. The queue is the events that were decoded and not      *)
(* delivered, with at most one mark, at its end, and only when the socket  *)
(* has gone; and the counter of reconnects counts the drops.               *)

SessionEvents == [kind : Fields, nr : Nat]
Marks == {Lost, Closed}

\* q: the events that wait.
Waits(q) ==
  /\ decoded = delivered \o q
  /\ evQueue = q \/ (socket = "gone" /\ \E m \in Marks : evQueue = Append(q, m))

SessionTypes ==
  /\ provider \in {"gemini", "openai", "ultravox"}
  /\ delivered \in Seq(SessionEvents) /\ drops \in Nat /\ tries \in Nat /\ ceilingHit \in BOOLEAN
  /\ \E q \in Seq(SessionEvents) : Waits(q)
  /\ update = "closed" => ~ conn /\ evQueue = <<>>

DropsCounted ==
  /\ consumer # "over" => drops = tries /\ tries <= Ceiling
  /\ CeilingExact

SessionInv == SessionTypes /\ DropsCounted

\* Events are no marks.
LEMMA EventsUnmarked ==
  /\ \A e \in SessionEvents : e.kind \notin {"Lost", "Closed"}
  /\ \A m \in Marks : m.kind \in {"Lost", "Closed"}
  /\ \A q \in Seq(SessionEvents) : Unmarked(q) = q
  /\ \A q \in Seq(SessionEvents) : \A m \in Marks : Unmarked(Append(q, m)) = q
<1>1. \A e \in SessionEvents : e.kind \notin {"Lost", "Closed"} BY DEF SessionEvents, Fields
<1>2. \A m \in Marks : m.kind \in {"Lost", "Closed"} BY DEF Marks, Lost, Closed
<1>3. ASSUME NEW q \in Seq(SessionEvents) PROVE Unmarked(q) = q
  <2>1. q # <<>> => q[Len(q)] \in SessionEvents
    <3>1. Len(q) \in Nat /\ (q # <<>> => Len(q) > 0) BY LenProperties, EmptySeq
    <3>2. q # <<>> => Len(q) \in 1 .. Len(q) BY <3>1
    <3> QED BY <3>2
  <2> QED BY <1>1, <2>1 DEF Unmarked
<1>4. ASSUME NEW q \in Seq(SessionEvents), NEW m \in Marks PROVE Unmarked(Append(q, m)) = q
  <2> DEFINE S == SessionEvents \cup Marks
             a == Append(q, m)
  <2>1. q \in Seq(S) /\ m \in S OBVIOUS
  <2> HIDE DEF S
  <2>2. /\ a \in Seq(S) /\ a # <<>> /\ Len(a) = Len(q) + 1 /\ a[Len(q) + 1] = m
        /\ \A k \in 1 .. Len(q) : a[k] = q[k]
    BY <2>1, AppendProperties
  <2>3. Len(q) \in Nat BY LenProperties
  <2> HIDE DEF a
  <2>4. Unmarked(a) = Front(a) BY <1>2, <2>2 DEF Unmarked
  <2>5. Front(a) = SubSeq(a, 1, Len(q))
    <3>1. Len(a) - 1 = Len(q) BY <2>2, <2>3
    <3> QED BY <3>1 DEF Front
  <2>6. \A k \in 1 .. Len(q) : a[k] \in S BY <2>1, <2>2
  <2> DEFINE t == SubSeq(a, 1, Len(q))
  <2>7. /\ t \in Seq(S) /\ Len(t) = (IF 1 <= Len(q) THEN Len(q) - 1 + 1 ELSE 0)
        /\ \A i \in 1 .. Len(q) - 1 + 1 : t[i] = a[1 + i - 1]
    BY <2>3, <2>6, SubSeqProperties
  <2> HIDE DEF t
  <2>8. Len(t) = Len(q) BY <2>3, <2>7
  <2>9. \A i \in 1 .. Len(q) : t[i] = q[i]
    <3>1. \A i \in 1 .. Len(q) : i \in 1 .. Len(q) - 1 + 1 /\ 1 + i - 1 = i BY <2>3
    <3> QED BY <2>2, <2>7, <3>1
  <2>10. t = q BY <2>1, <2>7, <2>8, <2>9, SeqEqual
  <2> QED BY <2>4, <2>5, <2>10 DEF t, a
<1> QED BY <1>1, <1>2, <1>3, <1>4

\* The first of what waits goes over to what is delivered.
LEMMA ShiftOne ==
  ASSUME NEW S, NEW s \in Seq(S), NEW q \in Seq(S), q # <<>>
  PROVE  s \o q = Append(s, Head(q)) \o Tail(q)
<1>1. Head(q) \in S /\ Tail(q) \in Seq(S) /\ Head(q) = q[1] /\ Len(q) \in Nat /\ 1 \in 1 .. Len(q)
  BY TailAt
<1>2. q = <<Head(q)>> \o Tail(q)
  <2>1. SubSeq(q, 1, Len(q)) = <<q[1]>> \o SubSeq(q, 1 + 1, Len(q))
    BY <1>1, SubSeqRecursiveFirst
  <2>2. SubSeq(q, 1, Len(q)) = q BY SubSeqFull
  <2>3. Tail(q) = SubSeq(q, 2, Len(q)) BY TailIsSubSeq
  <2> QED BY <1>1, <2>1, <2>2, <2>3
<1> DEFINE h == <<Head(q)>>
<1>3. h \in Seq(S) BY <1>1
<1>4. Append(s, Head(q)) = s \o h BY <1>1, AppendIsConcat
<1> HIDE DEF h
<1>5. Tail(q) \in Seq(S) BY <1>1
<1>6. (s \o h) \o Tail(q) = s \o (h \o Tail(q)) BY <1>3, <1>5, ConcatAssociative
<1>7. q = h \o Tail(q) BY <1>2 DEF h
<1> QED BY <1>4, <1>6, <1>7

\* What a frame is decoded to, numbered.
LEMMA DecodedTyped ==
  ASSUME provider \in {"gemini", "openai", "ultravox"}, NEW f \in FramesOf, decoded \in Seq(SessionEvents)
  PROVE  Numbered(Decode(f)) \in Seq(SessionEvents)
<1>1. \A x \in Fields : \A g : Carried(g, x) \in Seq(Fields) BY DEF Carried
<1>2. /\ "interrupted" \in Fields /\ "audio" \in Fields /\ "user" \in Fields /\ "bot" \in Fields
      /\ "tool" \in Fields /\ "usage" \in Fields
  BY DEF Fields
<1>3. GeminiDecode(f) \in Seq(Fields)
  <2> DEFINE a == Carried(f, "interrupted")
             b == Carried(f, "audio")
             c == Carried(f, "user")
             d == Carried(f, "bot")
             e == Carried(f, "tool")
             u == Carried(f, "usage")
  <2>1. /\ a \in Seq(Fields) /\ b \in Seq(Fields) /\ c \in Seq(Fields) /\ d \in Seq(Fields)
        /\ e \in Seq(Fields) /\ u \in Seq(Fields)
    BY <1>1, <1>2
  <2> HIDE DEF a, b, c, d, e, u
  <2>2. \A s, t \in Seq(Fields) : s \o t \in Seq(Fields) BY ConcatProperties
  <2>3. a \o b \in Seq(Fields) BY <2>1, <2>2
  <2>4. (a \o b) \o c \in Seq(Fields) BY <2>1, <2>2, <2>3
  <2>5. ((a \o b) \o c) \o d \in Seq(Fields) BY <2>1, <2>2, <2>4
  <2>6. (((a \o b) \o c) \o d) \o e \in Seq(Fields) BY <2>1, <2>2, <2>5
  <2>7. ((((a \o b) \o c) \o d) \o e) \o u \in Seq(Fields) BY <2>1, <2>2, <2>6
  <2> QED BY <2>7 DEF GeminiDecode, a, b, c, d, e, u
<1>4. \A x \in Fields : \A g \in {{x}} : (CHOOSE y \in g : TRUE) \in Fields OBVIOUS
<1>5. provider = "openai" => OpenAiDecode(f) \in Seq(Fields)
  <2> SUFFICES ASSUME provider = "openai" PROVE OpenAiDecode(f) \in Seq(Fields) OBVIOUS
  <2>1. f \in OpenAiFrames BY DEF FramesOf
  <2>2. (CHOOSE y \in f : TRUE) \in Fields BY <1>4, <2>1 DEF OpenAiFrames
  <2> QED BY <2>2 DEF OpenAiDecode
<1>6. provider = "ultravox" => UltravoxDecode(f) \in Seq(Fields)
  <2> SUFFICES ASSUME provider = "ultravox" PROVE UltravoxDecode(f) \in Seq(Fields) OBVIOUS
  <2>1. f \in UltravoxFrames BY DEF FramesOf
  <2>2. (CHOOSE y \in f : TRUE) \in Fields BY <1>4, <2>1 DEF UltravoxFrames
  <2> QED BY <2>2 DEF UltravoxDecode
<1> DEFINE d == Decode(f)
<1>7. d \in Seq(Fields) BY <1>3, <1>5, <1>6 DEF Decode
<1> HIDE DEF d
<1>8. Len(d) \in Nat /\ DOMAIN d = 1 .. Len(d) BY <1>7, LenProperties
<1>9. Len(decoded) \in Nat BY LenProperties
<1>10. \A k \in 1 .. Len(d) : d[k] \in Fields /\ Len(decoded) + k \in Nat BY <1>7, <1>8, <1>9
<1>11. \A k \in 1 .. Len(d) : [kind |-> d[k], nr |-> Len(decoded) + k] \in SessionEvents
  BY <1>10 DEF SessionEvents
<1>12. Numbered(d) \in [1 .. Len(d) -> SessionEvents] BY <1>8, <1>11 DEF Numbered
<1>13. Numbered(d) \in Seq(SessionEvents) BY <1>8, <1>12
<1> QED BY <1>13 DEF d

\* A live socket's queue has no mark.
LEMMA ForwardKeeps ==
  ASSUME SessionInv, NEW f \in FramesOf, ForwardFrame(f)
  PROVE  SessionInv'
<1>1. SessionTypes /\ DropsCounted BY DEF SessionInv
<1>2. PICK q \in Seq(SessionEvents) : Waits(q) BY <1>1 DEF SessionTypes
<1>3. evQueue = q /\ decoded = delivered \o q BY <1>2 DEF Waits, ForwardFrame
<1>4. delivered \in Seq(SessionEvents) /\ provider \in {"gemini", "openai", "ultravox"} BY <1>1 DEF SessionTypes
<1>5. decoded \in Seq(SessionEvents) BY <1>3, <1>4, ConcatProperties
<1> DEFINE evs == Numbered(Decode(f))
           p == q \o evs
<1>6. evs \in Seq(SessionEvents) BY <1>4, <1>5, DecodedTyped
<1>7. /\ evQueue' = (evQueue \o evs) \o (IF "away" \in f THEN <<SocketLoss>> ELSE <<>>)
      /\ decoded' = decoded \o evs /\ socket' = IF "away" \in f THEN "gone" ELSE "live"
      /\ UNCHANGED <<provider, conn, delivered, tries, drops, ceilingHit, consumer, update>>
  BY DEF ForwardFrame
<1> HIDE DEF evs
<1>8. p \in Seq(SessionEvents) BY <1>6, ConcatProperties
<1>9. decoded' = delivered \o p BY <1>3, <1>4, <1>6, <1>7, ConcatAssociative
<1> HIDE DEF p
<1>10. SocketLoss \in Marks BY <1>4 DEF SocketLoss, GeminiLoss, OpenAiLoss, UltravoxLoss, Marks
<1>11. evQueue' = p \/ (socket' = "gone" /\ \E m \in Marks : evQueue' = Append(p, m))
  <2>1. CASE "away" \in f
    <3>1. evQueue' = p \o <<SocketLoss>> BY <1>3, <1>7, <2>1 DEF p
    <3> DEFINE S == SessionEvents \cup Marks
    <3>2. p \in Seq(S) /\ SocketLoss \in S BY <1>8, <1>10
    <3> HIDE DEF S
    <3>3. Append(p, SocketLoss) = p \o <<SocketLoss>> BY <3>2, AppendIsConcat
    <3> QED BY <1>7, <1>10, <2>1, <3>1, <3>3
  <2>2. CASE "away" \notin f
    <3>1. evQueue' = p \o <<>> BY <1>3, <1>7, <2>2 DEF p
    <3> QED BY <1>8, <3>1, ConcatEmptySeq
  <2> QED BY <2>1, <2>2
<1>12. PICK w \in Seq(SessionEvents) : w = p BY <1>8
<1>13. Waits(w)' BY <1>7, <1>9, <1>11, <1>12 DEF Waits, Marks, Lost, Closed
<1>14. SessionTypes'
  <2>1. update' # "closed" BY <1>1, <1>7 DEF SessionTypes, ForwardFrame
  <2>2. (\E x \in Seq(SessionEvents) : Waits(x))' BY <1>12, <1>13 DEF SessionEvents, Fields
  <2>3. delivered' \in Seq(SessionEvents) BY <1>4, <1>7
  <2> QED BY <1>1, <1>4, <1>7, <2>1, <2>2, <2>3 DEF SessionTypes, SessionEvents, Fields
<1>15. DropsCounted' BY <1>1, <1>7 DEF DropsCounted, CeilingExact
<1> QED BY <1>14, <1>15 DEF SessionInv

\* The socket goes, and leaves its mark.
LEMMA ClosedKeeps == ASSUME SessionInv, SocketClosed PROVE SessionInv'
<1>1. SessionTypes /\ DropsCounted BY DEF SessionInv
<1>2. PICK q \in Seq(SessionEvents) : Waits(q) BY <1>1 DEF SessionTypes
<1>3. /\ socket = "live" /\ conn /\ socket' = "gone" /\ evQueue' = Append(evQueue, SocketLoss)
      /\ UNCHANGED <<provider, conn, decoded, delivered, tries, drops, ceilingHit, consumer, update>>
  BY DEF SocketClosed, resume
<1>4. evQueue = q /\ decoded = delivered \o q BY <1>2, <1>3 DEF Waits
<1>5. provider \in {"gemini", "openai", "ultravox"} BY <1>1 DEF SessionTypes
<1>6. SocketLoss \in Marks BY <1>5 DEF SocketLoss, GeminiLoss, OpenAiLoss, UltravoxLoss, Marks
<1>7. PICK m \in Marks : m = SocketLoss BY <1>6
<1>8. Waits(q)' BY <1>3, <1>4, <1>7 DEF Waits, Marks, Lost, Closed
<1>9. (\E x \in Seq(SessionEvents) : Waits(x))' BY <1>8 DEF SessionEvents, Fields
<1>10. SessionTypes' BY <1>1, <1>3, <1>9 DEF SessionTypes, SessionEvents, Fields
<1>11. DropsCounted' BY <1>1, <1>3 DEF DropsCounted, CeilingExact
<1> QED BY <1>10, <1>11 DEF SessionInv

\* What is at the head of a queue with events waiting is the first of them; if it is a mark,
\* nothing waits.
LEMMA HeadOfQueue ==
  ASSUME NEW q \in Seq(SessionEvents), Waits(q), evQueue # <<>>
  PROVE  /\ q # <<>> => /\ Head(evQueue) = Head(q)
                        /\ \/ Tail(evQueue) = Tail(q)
                           \/ socket = "gone" /\ \E m \in Marks : Tail(evQueue) = Append(Tail(q), m)
         /\ q = <<>> => Head(evQueue) \in Marks
<1>1. CASE evQueue = q BY <1>1
<1>2. ASSUME socket = "gone", NEW m \in Marks, evQueue = Append(q, m)
      PROVE  /\ q # <<>> => Head(evQueue) = Head(q) /\ Tail(evQueue) = Append(Tail(q), m)
             /\ q = <<>> => Head(evQueue) \in Marks
  <2> DEFINE S == SessionEvents \cup Marks
  <2>1. q \in Seq(S) /\ m \in S OBVIOUS
  <2> HIDE DEF S
  <2>2. q # <<>> => Head(Append(q, m)) = Head(q) /\ Tail(Append(q, m)) = Append(Tail(q), m)
    BY <2>1, HeadTailAppend
  <2>3. q = <<>> => Head(Append(q, m)) = m BY <2>1, HeadTailAppend
  <2> QED BY <1>2, <2>2, <2>3
<1> QED BY <1>1, <1>2 DEF Waits

\* An event is taken over.
LEMMA DeliverKeeps == ASSUME SessionInv, Deliver PROVE SessionInv'
<1>1. SessionTypes /\ DropsCounted BY DEF SessionInv
<1>2. PICK q \in Seq(SessionEvents) : Waits(q) BY <1>1 DEF SessionTypes
<1>3. /\ evQueue # <<>> /\ Head(evQueue).kind \notin {"Lost", "Closed"} /\ consumer = "poll"
      /\ update = "idle"
      /\ evQueue' = Tail(evQueue) /\ delivered' = Append(delivered, Head(evQueue))
      /\ tries' = 0 /\ drops' = 0
      /\ UNCHANGED <<provider, conn, socket, decoded, ceilingHit, consumer, update>>
  BY DEF Deliver, Unlocked
<1>4. q # <<>> BY <1>2, <1>3, HeadOfQueue, EventsUnmarked
<1>5. /\ Head(evQueue) = Head(q)
      /\ \/ Tail(evQueue) = Tail(q)
         \/ socket = "gone" /\ \E m \in Marks : Tail(evQueue) = Append(Tail(q), m)
  BY <1>2, <1>3, <1>4, HeadOfQueue
<1>6. delivered \in Seq(SessionEvents) /\ decoded = delivered \o q BY <1>1, <1>2 DEF SessionTypes, Waits
<1>7. Head(q) \in SessionEvents /\ Tail(q) \in Seq(SessionEvents) BY <1>4, TailAt
<1>8. decoded' = delivered' \o Tail(q) BY <1>3, <1>4, <1>5, <1>6, ShiftOne
<1>9. delivered' \in Seq(SessionEvents) BY <1>3, <1>5, <1>6, <1>7, AppendProperties
<1>10. PICK w \in Seq(SessionEvents) : w = Tail(q) BY <1>7
<1>11. Waits(w)' BY <1>3, <1>5, <1>8, <1>10 DEF Waits, Marks, Lost, Closed
<1>12. (\E x \in Seq(SessionEvents) : Waits(x))' BY <1>11 DEF SessionEvents, Fields
<1>13. SessionTypes' BY <1>1, <1>3, <1>9, <1>12 DEF SessionTypes, SessionEvents, Fields
<1>14. ~ ceilingHit
  BY <1>1, <1>3, SessionAssumption DEF DropsCounted, CeilingExact
<1>15. DropsCounted' BY <1>3, <1>14, SessionAssumption DEF DropsCounted, CeilingExact
<1> QED BY <1>13, <1>15 DEF SessionInv

\* Steps that leave the queue, and what it stands for, alone.
LEMMA QueueLeft ==
  ASSUME SessionInv,
         UNCHANGED <<provider, decoded, delivered, evQueue, socket, drops, tries, ceilingHit>>,
         consumer = "over" => consumer' = "over",
         update' = "closed" => ~ conn' /\ evQueue' = <<>>
  PROVE  SessionInv'
<1>1. SessionTypes /\ DropsCounted BY DEF SessionInv
<1>2. PICK q \in Seq(SessionEvents) : Waits(q) BY <1>1 DEF SessionTypes
<1>3. Waits(q)' BY <1>2 DEF Waits, Marks, Lost, Closed
<1>4. (\E x \in Seq(SessionEvents) : Waits(x))' BY <1>3 DEF SessionEvents, Fields
<1>5. SessionTypes' BY <1>1, <1>4 DEF SessionTypes, SessionEvents, Fields
<1>6. DropsCounted' BY <1>1, SessionAssumption DEF DropsCounted, CeilingExact, SessionTypes
<1> QED BY <1>5, <1>6 DEF SessionInv

\* With nothing queued, nothing waits: a queue that is replaced by an empty one loses nothing,
\* if what was decoded is delivered.
LEMMA QueueEmptied ==
  ASSUME SessionTypes, evQueue' = <<>>, decoded' = delivered', delivered' = delivered
  PROVE  (\E x \in Seq(SessionEvents) : Waits(x))'
<1>1. delivered \in Seq(SessionEvents) BY DEF SessionTypes
<1>2. delivered \o <<>> = delivered BY <1>1, ConcatEmptySeq
<1>3. <<>> \in Seq(SessionEvents) OBVIOUS
<1>4. PICK w \in Seq(SessionEvents) : w = <<>> BY <1>3
<1>5. Waits(w)' BY <1>2, <1>4 DEF Waits
<1> QED BY <1>5 DEF SessionEvents, Fields

\* A reconnect is attempted when only the mark is left, within the ceiling.
LEMMA ReconnectKeeps == ASSUME SessionInv, TryReconnect PROVE SessionInv'
<1>1. SessionTypes /\ DropsCounted BY DEF SessionInv
<1>2. PICK q \in Seq(SessionEvents) : Waits(q) BY <1>1 DEF SessionTypes
<1>3. /\ consumer = "poll" /\ update = "idle" /\ evQueue # <<>> /\ Head(evQueue).kind = "Lost"
      /\ drops' = drops + 1
      /\ UNCHANGED <<provider, update, decoded, delivered>>
  BY DEF TryReconnect, Unlocked
<1>4. q = <<>>
  <2> SUFFICES ASSUME q # <<>> PROVE FALSE OBVIOUS
  <2>1. Head(evQueue) = Head(q) /\ Head(q) \in SessionEvents BY <1>2, <1>3, HeadOfQueue, TailAt
  <2> QED BY <1>3, <2>1, EventsUnmarked
<1>5. delivered \in Seq(SessionEvents) /\ decoded = delivered \o q BY <1>1, <1>2 DEF SessionTypes, Waits
<1>6. decoded = delivered BY <1>4, <1>5, ConcatEmptySeq
<1>7. drops \in Nat /\ tries \in Nat /\ ceilingHit \in BOOLEAN BY <1>1 DEF SessionTypes
<1>8. drops = tries /\ tries <= Ceiling /\ ~ ceilingHit
  BY <1>1, <1>3, <1>7, SessionAssumption DEF DropsCounted, CeilingExact
<1>9. CASE handle = 0 \/ tries >= Ceiling
  <2>1. /\ consumer' = "over" /\ ceilingHit' = (handle # 0)
        /\ UNCHANGED <<conn, socket, evQueue, tries>>
    BY <1>9 DEF TryReconnect, link
  <2>2. Waits(q)' BY <1>2, <1>3, <2>1 DEF Waits, Marks, Lost, Closed
  <2>3. (\E x \in Seq(SessionEvents) : Waits(x))' BY <2>2 DEF SessionEvents, Fields
  <2>4. drops' \in Nat /\ ceilingHit' \in BOOLEAN BY <1>3, <1>7, <2>1
  <2>5. SessionTypes' BY <1>1, <1>3, <2>1, <2>3, <2>4 DEF SessionTypes, SessionEvents, Fields
  <2>6. drops + 1 <= Ceiling + 1 /\ (handle # 0 => drops + 1 = Ceiling + 1)
    BY <1>7, <1>8, <1>9, SessionAssumption
  <2>7. DropsCounted' BY <1>3, <2>1, <2>6 DEF DropsCounted, CeilingExact
  <2> QED BY <2>5, <2>7 DEF SessionInv
<1>10. CASE ~ (handle = 0 \/ tries >= Ceiling)
  <2>1. /\ tries' = tries + 1 /\ evQueue' = <<>> /\ UNCHANGED ceilingHit
        /\ consumer' = consumer \/ consumer' = "over"
    BY <1>10 DEF TryReconnect
  <2>2. (\E x \in Seq(SessionEvents) : Waits(x))' BY <1>1, <1>3, <1>6, <2>1, QueueEmptied
  <2>3. drops' \in Nat /\ tries' \in Nat BY <1>3, <1>7, <2>1
  <2>4. SessionTypes' BY <1>1, <1>3, <2>1, <2>2, <2>3 DEF SessionTypes, SessionEvents, Fields
  <2>5. drops' = tries' /\ drops' <= Ceiling /\ drops' < Ceiling + 1 /\ drops' # Ceiling + 1
    BY <1>3, <1>7, <1>8, <1>10, <2>1, SessionAssumption
  <2>6. ~ ceilingHit' BY <1>8, <2>1
  <2>7. DropsCounted' BY <2>3, <2>5, <2>6, SessionAssumption DEF DropsCounted, CeilingExact
  <2> QED BY <2>4, <2>7 DEF SessionInv
<1> QED BY <1>9, <1>10

\* A change of the prompt closes the connection, and what it had is dropped.
LEMMA CloseKeeps == ASSUME SessionInv, UpdateClose PROVE SessionInv'
<1>1. SessionTypes /\ DropsCounted BY DEF SessionInv
<1>2. /\ conn' = FALSE /\ evQueue' = <<>> /\ decoded' = delivered
      /\ UNCHANGED <<provider, tries, consumer, delivered, drops, ceilingHit>>
  BY DEF UpdateClose, resume
<1>3. (\E x \in Seq(SessionEvents) : Waits(x))' BY <1>1, <1>2, QueueEmptied
<1>4. SessionTypes' BY <1>1, <1>2, <1>3 DEF SessionTypes, SessionEvents, Fields
<1>5. DropsCounted' BY <1>1, <1>2 DEF DropsCounted, CeilingExact
<1> QED BY <1>4, <1>5 DEF SessionInv

\* The connection that is opened then starts with nothing queued.
LEMMA OpenKeeps == ASSUME SessionInv, UpdateOpen PROVE SessionInv'
<1>1. SessionTypes /\ DropsCounted BY DEF SessionInv
<1>2. PICK q \in Seq(SessionEvents) : Waits(q) BY <1>1 DEF SessionTypes
<1>3. /\ update = "closed" /\ update' = "idle"
      /\ UNCHANGED <<provider, evQueue, tries, consumer, decoded, delivered, drops, ceilingHit>>
  BY DEF UpdateOpen, client
<1>4. evQueue = <<>> BY <1>1, <1>3 DEF SessionTypes
<1>5. \A m \in Marks : Append(q, m) # <<>>
  <2> SUFFICES ASSUME NEW m \in Marks PROVE Append(q, m) # <<>> OBVIOUS
  <2> DEFINE S == SessionEvents \cup Marks
  <2>1. q \in Seq(S) /\ m \in S OBVIOUS
  <2> HIDE DEF S
  <2> QED BY <2>1, AppendProperties
<1>6. evQueue = q /\ decoded = delivered \o q BY <1>2, <1>4, <1>5 DEF Waits
<1>7. delivered \in Seq(SessionEvents) BY <1>1 DEF SessionTypes
<1>8. decoded = delivered BY <1>4, <1>6, <1>7, ConcatEmptySeq
<1>9. (\E x \in Seq(SessionEvents) : Waits(x))' BY <1>1, <1>3, <1>4, <1>8, QueueEmptied
<1>10. SessionTypes' BY <1>1, <1>3, <1>9 DEF SessionTypes, SessionEvents, Fields
<1>11. DropsCounted' BY <1>1, <1>3 DEF DropsCounted, CeilingExact
<1> QED BY <1>10, <1>11 DEF SessionInv

\* SessionInv is inductive.
LEMMA SessionStep == SessionInv /\ [SessionNext]_sessionVars => SessionInv'
<1> SUFFICES ASSUME SessionInv, [SessionNext]_sessionVars PROVE SessionInv' OBVIOUS
<1>0. SessionTypes BY DEF SessionInv
<1>1. ASSUME NEW f \in FramesOf, ForwardFrame(f) PROVE SessionInv' BY <1>1, ForwardKeeps
<1>2. CASE SocketClosed BY <1>2, ClosedKeeps
<1>3. CASE Deliver BY <1>3, DeliverKeeps
<1>4. CASE DeliverEnd \/ Pending \/ SendAudio
  <2>1. /\ UNCHANGED <<provider, decoded, delivered, evQueue, socket, drops, tries, ceilingHit>>
        /\ (consumer = "over" => consumer' = "over") /\ update' # "closed"
    BY <1>4 DEF DeliverEnd, Pending, SendAudio, Unlocked, link, resume
  <2> QED BY <2>1, QueueLeft
<1>5. CASE Notified
  <2>1. /\ UNCHANGED <<provider, decoded, delivered, evQueue, socket, drops, tries, ceilingHit>>
        /\ consumer # "over" /\ UNCHANGED <<conn, update>>
    BY <1>5 DEF Notified, link, resume
  <2> QED BY <1>0, <2>1, QueueLeft DEF SessionTypes
<1>6. CASE TryReconnect BY <1>6, ReconnectKeeps
<1>7. CASE UpdateInSession \/ UpdateClear
  <2>1. /\ UNCHANGED <<provider, decoded, delivered, evQueue, socket, drops, tries, ceilingHit>>
        /\ (consumer = "over" => consumer' = "over") /\ update' # "closed"
    BY <1>7 DEF UpdateInSession, UpdateClear, Unlocked, link, client
  <2> QED BY <2>1, QueueLeft
<1>8. CASE UpdateClose BY <1>8, CloseKeeps
<1>9. CASE UpdateOpen BY <1>9, OpenKeeps
<1>10. CASE UNCHANGED sessionVars
  <2>1. /\ UNCHANGED <<provider, decoded, delivered, evQueue, socket, drops, tries, ceilingHit>>
        /\ UNCHANGED <<conn, update, consumer>>
    BY <1>10 DEF sessionVars, link, resume, client
  <2> QED BY <1>0, <2>1, QueueLeft DEF SessionTypes
<1> QED BY <1>1, <1>2, <1>3, <1>4, <1>5, <1>6, <1>7, <1>8, <1>9, <1>10 DEF SessionNext

\* A session starts with nothing decoded, and without a drop.
LEMMA SessionStarts == SessionInit => SessionInv
<1> SUFFICES ASSUME SessionInit PROVE SessionInv OBVIOUS
<1>1. /\ evQueue = <<>> /\ decoded = <<>> /\ delivered = <<>> /\ update = "idle" /\ drops = 0 /\ tries = 0
      /\ ceilingHit = FALSE /\ provider \in {"gemini", "openai", "ultravox"} /\ consumer = "poll"
  BY DEF SessionInit, AzureRealtime, GrokRealtime, InworldRealtime
<1>2. <<>> \in Seq(SessionEvents) OBVIOUS
<1>3. <<>> \o <<>> = <<>> BY <1>2, ConcatEmptySeq
<1>4. Waits(<<>>) BY <1>1, <1>3 DEF Waits
<1>5. SessionTypes BY <1>1, <1>2, <1>4 DEF SessionTypes
<1>6. DropsCounted BY <1>1, SessionAssumption DEF DropsCounted, CeilingExact
<1> QED BY <1>5, <1>6 DEF SessionInv

\* SessionInv says that nothing is skipped.
LEMMA SessionSound == SessionInv => SessionWhole
<1> SUFFICES ASSUME SessionInv PROVE SessionWhole OBVIOUS
<1>1. PICK q \in Seq(SessionEvents) : Waits(q) BY DEF SessionInv, SessionTypes
<1>2. Unmarked(evQueue) = q BY <1>1, EventsUnmarked DEF Waits
<1> QED BY <1>1, <1>2 DEF Waits, SessionWhole, NothingSkipped, SessionInv, DropsCounted

\* gemini_live.rs, openai.rs, ultravox.rs: over however many sockets, the call gets every event
\* that the provider sent, in order, and a session that keeps dropping ends exactly at the
\* ceiling of reconnects.
THEOREM SessionSurvives == SessionSpec => []SessionWhole
<1>1. SessionInit => SessionInv BY SessionStarts
<1>2. SessionInv /\ [SessionNext]_sessionVars => SessionInv' BY SessionStep
<1>3. SessionInv => SessionWhole BY SessionSound
<1> QED BY <1>1, <1>2, <1>3, PTL DEF SessionSpec
=============================================================================
