------------------------ MODULE RealtimeCall_proofs ------------------------
(***************************************************************************)
(* Proofs about the speech-to-speech call, for any number of the           *)
(* provider's events, with and without a Notify: its report is true, and   *)
(* the call implements the safety part of CallContract.                    *)
(***************************************************************************)
EXTENDS RealtimeCall, SequenceFacts, TLAPS

Numbers == 1 .. MaxEvents
NormFrames ==
  {f \in [kind : {"line", "usage", "speech", "End"}, nr : 0 .. MaxEvents] : f.nr = 0 <=> f.kind = "End"}
SysFrames == {f \in [kind : System, nr : 0 .. MaxEvents] : f.kind = "call" => f.nr # 0}
Events == [kind : EventKinds, nr : Numbers]
Reports == [phase : {"none", "recording", "transcript", "complete", "done"},
            lines : SUBSET Numbers, disposition : BOOLEAN,
            uploads : SUBSET {"recording", "transcript"}]
Awaits == {"idle", "connected", "audio", "result", "reprompt", "relay", "move", "stay", "end",
           "keep", "send", "failed", "done"}

Without(q, kind) == \A k \in 1 .. Len(q) : q[k].kind # kind

\* The channels of the stages and the numbers that are in them.
ChannelTypes ==
  /\ sys \in [Stages -> Seq(SysFrames)] /\ norm \in [Stages -> Seq(NormFrames)]
  /\ events \in Seq(Events) /\ nr \in 0 .. MaxEvents
  /\ partial \subseteq Numbers /\ open \subseteq Numbers
  /\ pushed \subseteq Numbers /\ drained \subseteq Numbers

\* What the tasks are doing, and the two mutexes.
TaskTypes ==
  /\ pump \in {"off", "recv", "done"} /\ tlock \in {"pump", "tail"}
  /\ pc \in [Stages -> Awaits] /\ current \in 0 .. MaxEvents
  /\ reader \in {"off", "poll", "blocked", "wait", "broadcast", "done"}
  /\ slock \in {"free", "reader"} /\ (slock = "reader" <=> reader = "blocked")
  /\ tlock = "tail" => pc["tail"] = "send"

RecordTypes ==
  /\ asked \subseteq Parties /\ forwarded \in BOOLEAN
  /\ state \in [lines : SUBSET Numbers, disposition : BOOLEAN] /\ report \in Reports

\* Before the session is connected nothing has happened.
Untouched ==
  pump = "off" =>
    /\ reader = "off" /\ ~ forwarded /\ asked = {} /\ pushed = {} /\ tlock = "pump"
    /\ \A s \in Stages : sys[s] = <<>> /\ norm[s] = <<>> /\ pc[s] = "idle"

\* The call is closed down only after a request: the terminal frames are behind it.
Asked ==
  /\ forwarded => asked # {}
  /\ \A s \in Stages :
       /\ "cancel" \in asked \/ Without(sys[s], "Cancel")
       /\ forwarded \/ Without(norm[s], "End")
       /\ pc[s] \in {"failed", "done"} => forwarded
  /\ "cancel" \in asked => forwarded
  /\ report.phase # "none" <=> pc["tail"] = "done"

\* The brain leaves its disposition before it asks, and nobody's request counts after that.
Disposed ==
  /\ "brain" \in asked => state.disposition
  /\ DispositionReported

EndLast(q) == \A k \in 1 .. Len(q) : q[k].kind = "End" => k = Len(q)

\* The lines of a queue that are ahead of its first End.
LinesAhead(q) ==
  {q[k].nr : k \in {j \in 1 .. Len(q) : q[j].kind = "line" /\ \A i \in 1 .. j : q[i].kind # "End"}}

\* In a call nobody has cancelled the stages stop one after the other, each when its End has
\* come. The tail's End has nothing behind it; the brain's may have what the reader pushed
\* before the abort reached it.
StopsInOrder ==
  /\ pc["svc"] # "done" => Without(norm["brain"], "End") /\ pc["brain"] # "done"
  /\ pc["brain"] # "done" => Without(norm["tail"], "End") /\ pc["tail"] \notin {"done", "failed"}
  /\ EndLast(norm["tail"])
  /\ pc["tail"] \in {"done", "failed"} => norm["tail"] = <<>>

\* The lines the brain will still hand on.
BrainLines == IF pc["brain"] = "done" THEN {} ELSE LinesAhead(norm["brain"])

\* Every line the reader has pushed is on its way, reported, or was drained by a barge-in.
LinesKept ==
  /\ pushed \subseteq BrainLines \cup Lines(norm["tail"]) \cup state.lines \cup drained
  /\ LinesReported

CallInv ==
  /\ ChannelTypes /\ TaskTypes /\ RecordTypes
  /\ Untouched /\ Asked /\ Disposed
  /\ "cancel" \notin asked => StopsInOrder /\ LinesKept

-----------------------------------------------------------------------------
(* Queues.                                                                 *)

\* The lines of two queues, one behind the other, are the lines of both.
LEMMA LinesConcat ==
  ASSUME NEW S, NEW a \in Seq(S), NEW b \in Seq(S)
  PROVE  Lines(a \o b) = Lines(a) \cup Lines(b)
<1> DEFINE c == a \o b
<1>1. /\ c \in Seq(S) /\ Len(c) = Len(a) + Len(b)
      /\ \A i \in 1 .. Len(a) + Len(b) : c[i] = IF i <= Len(a) THEN a[i] ELSE b[i - Len(a)]
  BY ConcatProperties
<1>2. Len(a) \in Nat /\ Len(b) \in Nat
  BY LenProperties
<1> HIDE DEF c
<1>3. ASSUME NEW n \in Lines(c) PROVE n \in Lines(a) \cup Lines(b)
  <2>1. PICK k \in 1 .. Len(c) : c[k].kind = "line" /\ n = c[k].nr
    BY <1>3 DEF Lines
  <2>2. CASE k <= Len(a)
    <3>1. k \in 1 .. Len(a) /\ c[k] = a[k] BY <1>1, <1>2, <2>1, <2>2
    <3> QED BY <2>1, <3>1 DEF Lines
  <2>3. CASE k > Len(a)
    <3>1. k - Len(a) \in 1 .. Len(b) /\ c[k] = b[k - Len(a)] BY <1>1, <1>2, <2>1, <2>3
    <3> QED BY <2>1, <3>1 DEF Lines
  <2> QED BY <1>2, <2>2, <2>3
<1>4. ASSUME NEW n \in Lines(a) PROVE n \in Lines(c)
  <2>1. PICK k \in 1 .. Len(a) : a[k].kind = "line" /\ n = a[k].nr
    BY <1>4 DEF Lines
  <2>2. k \in 1 .. Len(c) /\ c[k] = a[k] BY <1>1, <1>2, <2>1
  <2> QED BY <2>1, <2>2 DEF Lines
<1>5. ASSUME NEW n \in Lines(b) PROVE n \in Lines(c)
  <2>1. PICK k \in 1 .. Len(b) : b[k].kind = "line" /\ n = b[k].nr
    BY <1>5 DEF Lines
  <2>2. Len(a) + k \in 1 .. Len(c) /\ Len(a) + k > Len(a) /\ (Len(a) + k) - Len(a) = k
    BY <1>1, <1>2, <2>1
  <2>3. c[Len(a) + k] = b[k] BY <1>1, <1>2, <2>2
  <2> QED BY <2>1, <2>2, <2>3 DEF Lines
<1> QED BY <1>3, <1>4, <1>5 DEF c

\* The lines of a queue of one frame.
LEMMA LinesOne ==
  ASSUME NEW f
  PROVE  Lines(<<f>>) = IF f.kind = "line" THEN {f.nr} ELSE {}
<1>1. Len(<<f>>) = 1 /\ <<f>>[1] = f OBVIOUS
<1>2. 1 .. 1 = {1} OBVIOUS
<1> QED BY <1>1, <1>2 DEF Lines

\* An empty queue has no lines and no End.
LEMMA NothingThere ==
  Lines(<<>>) = {} /\ EndLast(<<>>) /\ \A kind : Without(<<>>, kind)
<1>1. Len(<<>>) = 0 /\ 1 .. 0 = {} OBVIOUS
<1> QED BY <1>1 DEF Lines, Without, EndLast

\* A queue without an End takes one more push.
LEMMA EndConcat ==
  ASSUME NEW S, NEW a \in Seq(S), NEW b \in Seq(S), Without(a, "End")
  PROVE  /\ EndLast(b) => EndLast(a \o b)
         /\ Without(b, "End") => Without(a \o b, "End")
<1> DEFINE c == a \o b
<1>1. /\ c \in Seq(S) /\ Len(c) = Len(a) + Len(b)
      /\ \A i \in 1 .. Len(a) + Len(b) : c[i] = IF i <= Len(a) THEN a[i] ELSE b[i - Len(a)]
  BY ConcatProperties
<1>2. Len(a) \in Nat /\ Len(b) \in Nat
  BY LenProperties
<1> HIDE DEF c
<1>3. ASSUME NEW k \in 1 .. Len(c), c[k].kind = "End"
      PROVE  k > Len(a) /\ k - Len(a) \in 1 .. Len(b) /\ b[k - Len(a)].kind = "End"
  <2>1. CASE k <= Len(a)
    <3>1. k \in 1 .. Len(a) /\ c[k] = a[k] BY <1>1, <1>2, <2>1
    <3> QED BY <1>3, <3>1 DEF Without
  <2>2. CASE k > Len(a)
    BY <1>1, <1>2, <1>3, <2>2
  <2> QED BY <1>2, <2>1, <2>2
<1>4. ASSUME EndLast(b) PROVE EndLast(c)
  <2> SUFFICES ASSUME NEW k \in 1 .. Len(c), c[k].kind = "End" PROVE k = Len(c)
    BY DEF EndLast
  <2>1. k > Len(a) /\ k - Len(a) \in 1 .. Len(b) /\ b[k - Len(a)].kind = "End" BY <1>3
  <2>2. k - Len(a) = Len(b) BY <1>4, <2>1 DEF EndLast
  <2> QED BY <1>1, <1>2, <2>1, <2>2
<1>5. ASSUME Without(b, "End") PROVE Without(c, "End")
  BY <1>3, <1>5 DEF Without
<1> QED BY <1>4, <1>5 DEF c

\* A kind that neither of two queues holds is in neither part of the two together.
LEMMA WithoutConcat ==
  ASSUME NEW S, NEW a \in Seq(S), NEW b \in Seq(S), NEW kind,
         Without(a, kind), Without(b, kind)
  PROVE  Without(a \o b, kind)
<1> DEFINE c == a \o b
<1>1. /\ c \in Seq(S) /\ Len(c) = Len(a) + Len(b)
      /\ \A i \in 1 .. Len(a) + Len(b) : c[i] = IF i <= Len(a) THEN a[i] ELSE b[i - Len(a)]
  BY ConcatProperties
<1>2. Len(a) \in Nat /\ Len(b) \in Nat
  BY LenProperties
<1> HIDE DEF c
<1>3. ASSUME NEW k \in 1 .. Len(c) PROVE c[k].kind # kind
  <2>1. CASE k <= Len(a)
    <3>1. k \in 1 .. Len(a) /\ c[k] = a[k] BY <1>1, <1>2, <2>1
    <3> QED BY <3>1 DEF Without
  <2>2. CASE k > Len(a)
    <3>1. k - Len(a) \in 1 .. Len(b) /\ c[k] = b[k - Len(a)] BY <1>1, <1>2, <2>2
    <3> QED BY <3>1 DEF Without
  <2> QED BY <1>2, <2>1, <2>2
<1> QED BY <1>3 DEF Without, c

\* A kind that a queue does not hold is not in the rest of it, nor at its head.
LEMMA WithoutTail ==
  ASSUME NEW S, NEW a \in Seq(S), a # <<>>, NEW kind, Without(a, kind)
  PROVE  Without(Tail(a), kind) /\ Head(a).kind # kind
<1>1. /\ Head(a) = a[1] /\ Tail(a) \in Seq(S) /\ Len(Tail(a)) = Len(a) - 1
      /\ \A i \in 1 .. Len(Tail(a)) : Tail(a)[i] = a[i + 1]
  BY HeadTailProperties
<1>2. Len(a) \in Nat /\ Len(a) > 0 /\ 1 \in 1 .. Len(a)
  BY LenProperties, EmptySeq
<1>3. \A k \in 1 .. Len(Tail(a)) : k + 1 \in 1 .. Len(a)
  BY <1>1, <1>2
<1> QED BY <1>1, <1>2, <1>3 DEF Without

\* A queue of one frame.
LEMMA WithoutOne ==
  ASSUME NEW f, NEW kind
  PROVE  /\ f.kind # kind => Without(<<f>>, kind)
         /\ EndLast(<<f>>)
<1>1. Len(<<f>>) = 1 /\ <<f>>[1] = f OBVIOUS
<1>2. \A k \in 1 .. 1 : k = 1 OBVIOUS
<1> QED BY <1>1, <1>2 DEF Without, EndLast

\* Taking the head of a queue: its lines are the others', an End that is last stays last,
\* and behind an End there is nothing.
LEMMA QueueTail ==
  ASSUME NEW S, NEW a \in Seq(S), a # <<>>
  PROVE  /\ Lines(a) = Lines(<<Head(a)>>) \cup Lines(Tail(a))
         /\ Without(a, "End") => Without(Tail(a), "End") /\ Head(a).kind # "End"
         /\ EndLast(a) => EndLast(Tail(a))
         /\ EndLast(a) /\ Head(a).kind = "End" => Tail(a) = <<>>
         /\ EndLast(a) /\ Without(Tail(a), "End") /\ Head(a).kind # "End" => Without(a, "End")
<1>1. /\ Head(a) = a[1] /\ Tail(a) \in Seq(S) /\ Len(Tail(a)) = Len(a) - 1
      /\ \A i \in 1 .. Len(Tail(a)) : Tail(a)[i] = a[i + 1]
  BY HeadTailProperties
<1>2. Len(a) \in Nat /\ Len(a) > 0 /\ 1 \in 1 .. Len(a)
  BY LenProperties, EmptySeq
<1> DEFINE t == Tail(a)
<1>3. t \in Seq(S) /\ Len(t) = Len(a) - 1 /\ \A i \in 1 .. Len(t) : t[i] = a[i + 1]
  BY <1>1
<1> HIDE DEF t
<1>4. Lines(a) = Lines(<<Head(a)>>) \cup Lines(t)
  <2>1. ASSUME NEW n \in Lines(a) PROVE n \in Lines(<<a[1]>>) \cup Lines(t)
    <3>1. PICK k \in 1 .. Len(a) : a[k].kind = "line" /\ n = a[k].nr
      BY <2>1 DEF Lines
    <3>2. CASE k = 1 BY <3>1, <3>2, LinesOne
    <3>3. CASE k # 1
      <4>1. k - 1 \in 1 .. Len(t) /\ (k - 1) + 1 = k BY <1>2, <1>3, <3>1, <3>3
      <4>2. t[k - 1] = a[k] BY <1>3, <4>1
      <4> QED BY <3>1, <4>1, <4>2 DEF Lines
    <3> QED BY <3>2, <3>3
  <2>2. ASSUME NEW n \in Lines(<<a[1]>>) PROVE n \in Lines(a)
    <3>1. a[1].kind = "line" /\ n = a[1].nr BY <2>2, LinesOne
    <3> QED BY <1>2, <3>1 DEF Lines
  <2>3. ASSUME NEW n \in Lines(t) PROVE n \in Lines(a)
    <3>1. PICK k \in 1 .. Len(t) : t[k].kind = "line" /\ n = t[k].nr
      BY <2>3 DEF Lines
    <3>2. k + 1 \in 1 .. Len(a) /\ a[k + 1] = t[k] BY <1>2, <1>3, <3>1
    <3> QED BY <3>1, <3>2 DEF Lines
  <2> QED BY <1>1, <2>1, <2>2, <2>3
<1>5. \A k \in 1 .. Len(t) : k + 1 \in 1 .. Len(a) /\ a[k + 1] = t[k]
  BY <1>2, <1>3
<1>6. Without(a, "End") => Without(t, "End") /\ Head(a).kind # "End"
  BY <1>1, <1>2, <1>5 DEF Without
<1>7. EndLast(a) => EndLast(t)
  <2> SUFFICES ASSUME EndLast(a), NEW k \in 1 .. Len(t), t[k].kind = "End" PROVE k = Len(t)
    BY DEF EndLast
  <2>1. k + 1 = Len(a) BY <1>5 DEF EndLast
  <2> QED BY <1>2, <1>3, <2>1
<1>8. EndLast(a) /\ Head(a).kind = "End" => t = <<>>
  <2> SUFFICES ASSUME EndLast(a), Head(a).kind = "End" PROVE t = <<>>
    OBVIOUS
  <2>1. 1 = Len(a) BY <1>1, <1>2 DEF EndLast
  <2>2. Len(t) = 0 BY <1>3, <2>1
  <2> QED BY <1>3, <2>2, EmptySeq
<1>9. EndLast(a) /\ Without(t, "End") /\ Head(a).kind # "End" => Without(a, "End")
  <2> SUFFICES ASSUME Without(t, "End"), Head(a).kind # "End", NEW k \in 1 .. Len(a) PROVE a[k].kind # "End"
    BY DEF Without
  <2>1. CASE k = 1 BY <1>1, <2>1
  <2>2. CASE k # 1
    <3>1. k - 1 \in 1 .. Len(t) /\ (k - 1) + 1 = k BY <1>2, <1>3, <2>2
    <3>2. t[k - 1] = a[k] BY <1>3, <3>1
    <3> QED BY <3>1, <3>2 DEF Without
  <2> QED BY <2>1, <2>2
<1> QED BY <1>4, <1>6, <1>7, <1>8, <1>9 DEF t

\* Lines ahead of the first End are lines, and without an End all lines are.
LEMMA AheadAreLines ==
  ASSUME NEW a, Len(a) \in Nat
  PROVE  LinesAhead(a) \subseteq Lines(a) /\ (Without(a, "End") => LinesAhead(a) = Lines(a))
<1>1. LinesAhead(a) \subseteq Lines(a) BY DEF LinesAhead, Lines
<1>2. ASSUME Without(a, "End"), NEW n \in Lines(a) PROVE n \in LinesAhead(a)
  <2>1. PICK k \in 1 .. Len(a) : a[k].kind = "line" /\ n = a[k].nr
    BY <1>2 DEF Lines
  <2>2. \A i \in 1 .. k : i \in 1 .. Len(a) BY <2>1
  <2>3. \A i \in 1 .. k : a[i].kind # "End" BY <1>2, <2>2 DEF Without
  <2> QED BY <2>1, <2>3 DEF LinesAhead
<1> QED BY <1>1, <1>2

\* A push leaves the lines that are ahead where they are, and without an End adds its own.
LEMMA AheadConcat ==
  ASSUME NEW S, NEW a \in Seq(S), NEW b \in Seq(S)
  PROVE  /\ LinesAhead(a) \subseteq LinesAhead(a \o b)
         /\ Without(a, "End") /\ Without(b, "End") => Lines(b) \subseteq LinesAhead(a \o b)
<1> DEFINE c == a \o b
<1>1. /\ c \in Seq(S) /\ Len(c) = Len(a) + Len(b)
      /\ \A i \in 1 .. Len(a) + Len(b) : c[i] = IF i <= Len(a) THEN a[i] ELSE b[i - Len(a)]
  BY ConcatProperties
<1>2. Len(a) \in Nat /\ Len(b) \in Nat /\ Len(c) \in Nat
  BY <1>1, LenProperties
<1>3. ASSUME Without(a, "End"), Without(b, "End") PROVE Lines(b) \subseteq LinesAhead(c)
  <2>1. Without(c, "End") BY <1>3, WithoutConcat
  <2>2. Lines(c) = Lines(a) \cup Lines(b) BY LinesConcat
  <2> HIDE DEF c
  <2>3. LinesAhead(c) = Lines(c) BY <1>2, <2>1, AheadAreLines
  <2> QED BY <2>2, <2>3
<1> HIDE DEF c
<1>4. ASSUME NEW n \in LinesAhead(a) PROVE n \in LinesAhead(c)
  <2>1. PICK k \in 1 .. Len(a) :
          a[k].kind = "line" /\ n = a[k].nr /\ \A i \in 1 .. k : a[i].kind # "End"
    BY <1>4 DEF LinesAhead
  <2>2. k \in 1 .. Len(c) /\ \A i \in 1 .. k : i \in 1 .. Len(a) + Len(b) /\ i <= Len(a)
    BY <1>1, <1>2, <2>1
  <2>3. \A i \in 1 .. k : c[i] = a[i] BY <1>1, <2>2
  <2>4. k \in 1 .. k BY <2>1
  <2>5. c[k] = a[k] BY <2>3, <2>4
  <2>6. \A i \in 1 .. k : c[i].kind # "End" BY <2>1, <2>3
  <2> QED BY <2>1, <2>2, <2>5, <2>6 DEF LinesAhead
<1> QED BY <1>3, <1>4 DEF c

\* Taking the head of a queue: behind an End nothing is ahead of it.
LEMMA AheadTail ==
  ASSUME NEW S, NEW a \in Seq(S), a # <<>>
  PROVE  /\ Head(a).kind = "End" => LinesAhead(a) = {}
         /\ LinesAhead(a) \subseteq Lines(<<Head(a)>>) \cup LinesAhead(Tail(a))
<1>1. /\ Head(a) = a[1] /\ Tail(a) \in Seq(S) /\ Len(Tail(a)) = Len(a) - 1
      /\ \A i \in 1 .. Len(Tail(a)) : Tail(a)[i] = a[i + 1]
  BY HeadTailProperties
<1>2. Len(a) \in Nat /\ Len(a) > 0 BY LenProperties, EmptySeq
<1> DEFINE t == Tail(a)
<1>3. Len(t) = Len(a) - 1 /\ \A i \in 1 .. Len(t) : t[i] = a[i + 1] BY <1>1
<1> HIDE DEF t
<1>4. ASSUME NEW n \in LinesAhead(a)
      PROVE  Head(a).kind # "End" /\ n \in Lines(<<a[1]>>) \cup LinesAhead(t)
  <2>1. PICK k \in 1 .. Len(a) :
          a[k].kind = "line" /\ n = a[k].nr /\ \A i \in 1 .. k : a[i].kind # "End"
    BY <1>4 DEF LinesAhead
  <2>2. 1 \in 1 .. k BY <1>2, <2>1
  <2>3. Head(a).kind # "End" BY <1>1, <2>1, <2>2
  <2>4. CASE k = 1 BY <2>1, <2>3, <2>4, LinesOne
  <2>5. CASE k # 1
    <3>1. k - 1 \in 1 .. Len(t) /\ (k - 1) + 1 = k BY <1>2, <1>3, <2>1, <2>5
    <3>2. t[k - 1] = a[k] BY <1>3, <3>1
    <3>3. ASSUME NEW i \in 1 .. k - 1 PROVE t[i].kind # "End"
      <4>1. i \in 1 .. Len(t) /\ i + 1 \in 1 .. k BY <1>2, <1>3, <2>1, <3>1
      <4> QED BY <1>3, <2>1, <4>1
    <3> QED BY <2>1, <2>3, <3>1, <3>2, <3>3 DEF LinesAhead
  <2> QED BY <2>4, <2>5
<1> QED BY <1>1, <1>4 DEF t

-----------------------------------------------------------------------------
(* Channels.                                                               *)

SysChannels == [Stages -> Seq(SysFrames)]
NormChannels == [Stages -> Seq(NormFrames)]

\* The two kinds of frames are told apart by their class.
LEMMA Classes ==
  /\ \A f \in SysFrames : f.kind \in System /\ f.nr \in 0 .. MaxEvents
  /\ \A f \in NormFrames : /\ f.kind \notin System /\ f.nr \in 0 .. MaxEvents
                           /\ f.kind = "End" <=> f = End
                           /\ f.kind # "End" => f.nr \in Numbers
  /\ End \in NormFrames
<1> USE RealtimeAssumption DEF NormFrames, SysFrames, System, End, Frame, Numbers
<1>1. ASSUME NEW f \in NormFrames PROVE f.kind = "End" <=> f = End
  OBVIOUS
<1>2. ASSUME NEW f \in NormFrames, f.kind # "End" PROVE f.nr \in Numbers
  BY <1>1, <1>2
<1>3. End \in NormFrames
  OBVIOUS
<1> QED BY <1>1, <1>2, <1>3

\* A push of system frames goes into the system channel.
LEMMA SysPush ==
  ASSUME NEW sys1, NEW norm1, NEW s \in Stages, NEW fs \in Seq(SysFrames),
         sys1 \in SysChannels, Deliver(sys1, norm1, s, fs)
  PROVE  /\ norm' = norm1 /\ sys' \in SysChannels
         /\ \A t \in Stages :
              sys'[t] = IF t = s /\ pc[s] # "done" THEN sys1[t] \o fs ELSE sys1[t]
<1>1. SystemClass(fs)
  <2>1. \A k \in 1 .. Len(fs) : fs[k] \in SysFrames BY ElementOfSeq
  <2> QED BY <2>1, Classes DEF SystemClass
<1>2. norm' = norm1 /\ sys' = Put(sys1, s, fs) BY <1>1 DEF Deliver
<1>3. sys1 \in [Stages -> Seq(SysFrames)] BY DEF SysChannels
<1>4. sys1[s] \o fs \in Seq(SysFrames) BY <1>3, ConcatProperties
<1> QED BY <1>2, <1>3, <1>4 DEF Put, SysChannels

\* A push of normal frames goes into the normal channel.
LEMMA NormPush ==
  ASSUME NEW sys1, NEW norm1, NEW s \in Stages, NEW fs \in Seq(NormFrames), fs # <<>>,
         norm1 \in NormChannels, Deliver(sys1, norm1, s, fs)
  PROVE  /\ sys' = sys1 /\ norm' \in NormChannels
         /\ \A t \in Stages :
              norm'[t] = IF t = s /\ pc[s] # "done" THEN norm1[t] \o fs ELSE norm1[t]
<1>1. ~ SystemClass(fs)
  <2>1. Len(fs) \in Nat /\ Len(fs) > 0 BY LenProperties, EmptySeq
  <2>2. 1 \in 1 .. Len(fs) /\ fs[1] \in NormFrames BY <2>1, ElementOfSeq
  <2> QED BY <2>2, Classes DEF SystemClass
<1>2. sys' = sys1 /\ norm' = Put(norm1, s, fs) BY <1>1 DEF Deliver
<1>3. norm1 \in [Stages -> Seq(NormFrames)] BY DEF NormChannels
<1>4. norm1[s] \o fs \in Seq(NormFrames) BY <1>3, ConcatProperties
<1> QED BY <1>2, <1>3, <1>4 DEF Put, NormChannels

\* A stage takes the head of the system channel, or else of the normal one.
LEMMA Taken ==
  ASSUME NEW s \in Stages, sys \in SysChannels, norm \in NormChannels, Ready(s)
  PROVE  /\ pc[s] = "idle" /\ SysLeft(s) \in SysChannels /\ NormLeft(s) \in NormChannels
         /\ \/ /\ sys[s] # <<>> /\ Received(s) = Head(sys[s]) /\ Received(s) \in SysFrames
               /\ SysLeft(s) = [sys EXCEPT ![s] = Tail(sys[s])] /\ NormLeft(s) = norm
            \/ /\ norm[s] # <<>> /\ Received(s) = Head(norm[s]) /\ Received(s) \in NormFrames
               /\ NormLeft(s) = [norm EXCEPT ![s] = Tail(norm[s])] /\ SysLeft(s) = sys
<1> USE DEF SysChannels, NormChannels
<1>1. CASE sys[s] # <<>>
  <2>1. Head(sys[s]) \in SysFrames /\ Tail(sys[s]) \in Seq(SysFrames)
    BY <1>1, HeadTailProperties
  <2> QED BY <1>1, <2>1 DEF Ready, Received, SysLeft, NormLeft
<1>2. CASE sys[s] = <<>>
  <2>1. norm[s] # <<>> BY <1>2 DEF Ready
  <2>2. Head(norm[s]) \in NormFrames /\ Tail(norm[s]) \in Seq(NormFrames)
    BY <2>1, HeadTailProperties
  <2> QED BY <1>2, <2>1, <2>2 DEF Ready, Received, SysLeft, NormLeft
<1> QED BY <1>1, <1>2

-----------------------------------------------------------------------------
(* The steps that leave the normal channels alone.                         *)

\* What such a step may do to the channels.
SysOnly ==
  /\ norm' = norm /\ sys' \in SysChannels
  /\ \A s \in Stages : "cancel" \in asked' \/ Without(sys'[s], "Cancel")

Quiet ==
  \/ Connect \/ PumpStart \/ PumpAudio \/ PumpStop \/ CancelTask
  \/ \E kind \in EventKinds : ProviderEvent(kind)
  \/ ReaderPending \/ ReaderWake \/ ReaderBroadcast \/ ReaderDropped
  \/ SvcRecv \/ SvcSend \/ SvcReprompt
  \/ BrainCall \/ BrainAnswer \/ BrainEnd \/ TailSend \/ Finalize \/ Over

\* A push of system frames that are no Cancel, or behind the request for one.
LEMMA PushKeeps ==
  ASSUME ChannelTypes, Asked, asked \subseteq asked',
         NEW s \in Stages, NEW fs \in Seq(SysFrames), Push(s, fs),
         "cancel" \in asked' \/ Without(fs, "Cancel")
  PROVE  SysOnly
<1>1. sys \in SysChannels BY DEF ChannelTypes, SysChannels
<1>2. /\ norm' = norm /\ sys' \in SysChannels
      /\ \A t \in Stages :
           sys'[t] = IF t = s /\ pc[s] # "done" THEN sys[t] \o fs ELSE sys[t]
  BY <1>1, SysPush DEF Push
<1>3. ASSUME NEW t \in Stages, "cancel" \notin asked' PROVE Without(sys'[t], "Cancel")
  <2>1. Without(sys[t], "Cancel") /\ Without(fs, "Cancel") BY <1>3 DEF Asked
  <2>2. sys[t] \in Seq(SysFrames) BY <1>1 DEF SysChannels
  <2>3. Without(sys[t] \o fs, "Cancel") BY <2>1, <2>2, WithoutConcat
  <2> QED BY <1>2, <2>1, <2>3
<1> QED BY <1>2, <1>3 DEF SysOnly

\* One system frame more.
LEMMA PushOneKeeps ==
  ASSUME ChannelTypes, Asked, asked \subseteq asked',
         NEW s \in Stages, NEW f \in SysFrames, Push(s, <<f>>),
         "cancel" \in asked' \/ f.kind # "Cancel"
  PROVE  SysOnly
<1>1. <<f>> \in Seq(SysFrames) OBVIOUS
<1>2. "cancel" \in asked' \/ Without(<<f>>, "Cancel") BY WithoutOne
<1> QED BY <1>1, <1>2, PushKeeps

\* A frame of the system class that is taken.
LEMMA TakeKeeps ==
  ASSUME ChannelTypes, Asked, asked \subseteq asked',
         NEW s \in Stages, Ready(s), Received(s).kind \in System, Receive(s)
  PROVE  /\ SysOnly /\ Received(s) \in SysFrames /\ sys[s] # <<>>
         /\ sys' = [sys EXCEPT ![s] = Tail(sys[s])] /\ Received(s) = Head(sys[s])
<1>1. sys \in SysChannels /\ norm \in NormChannels
  BY DEF ChannelTypes, SysChannels, NormChannels
<1>2. /\ sys[s] # <<>> /\ Received(s) = Head(sys[s]) /\ Received(s) \in SysFrames
      /\ SysLeft(s) = [sys EXCEPT ![s] = Tail(sys[s])] /\ NormLeft(s) = norm
      /\ SysLeft(s) \in SysChannels
  BY <1>1, Taken, Classes
<1>3. norm' = norm /\ sys' = [sys EXCEPT ![s] = Tail(sys[s])] /\ sys' \in SysChannels
  BY <1>2 DEF Receive
<1>4. ASSUME NEW t \in Stages, "cancel" \notin asked' PROVE Without(sys'[t], "Cancel")
  <2>1. Without(sys[t], "Cancel") BY <1>4 DEF Asked
  <2>2. sys[t] \in Seq(SysFrames) BY <1>1 DEF SysChannels
  <2>3. CASE t = s
    <3>1. Without(Tail(sys[t]), "Cancel") BY <1>2, <2>1, <2>2, <2>3, WithoutTail
    <3>2. sys'[t] = Tail(sys[t]) BY <1>1, <1>3, <2>3 DEF SysChannels
    <3> QED BY <3>1, <3>2
  <2>4. CASE t # s
    BY <1>1, <1>3, <2>1, <2>4 DEF SysChannels
  <2> QED BY <2>3, <2>4
<1> QED BY <1>2, <1>3, <1>4 DEF SysOnly

\* The channels after a step that moves no normal frame.
LEMMA QuietChannels ==
  ASSUME CallInv, Quiet
  PROVE  SysOnly
<1> USE DEF Quiet
<1>1. ChannelTypes /\ Asked /\ TaskTypes BY DEF CallInv
<1>2. asked \subseteq asked'
  BY DEF Connect, PumpStart, PumpAudio, PumpStop, CancelTask, ProviderEvent, ReaderPending,
         ReaderWake, ReaderBroadcast, ReaderDropped, SvcRecv, SvcSend, SvcReprompt, BrainCall, BrainAnswer,
         BrainEnd, TailSend, Finalize, Upload, Over, Ask, endVars, netVars, vars
<1>3. ASSUME UNCHANGED <<sys, norm>> PROVE SysOnly
  BY <1>1, <1>2, <1>3 DEF SysOnly, ChannelTypes, SysChannels, Asked
<1>4. "svc" \in Stages /\ "brain" \in Stages /\ "tail" \in Stages BY DEF Stages
<1>5. \A kind \in System \ {"call"} : \A n \in 0 .. MaxEvents :
        Frame(kind, n) \in SysFrames /\ Frame(kind, n).kind = kind
  BY DEF Frame, SysFrames
<1>6. 0 \in 0 .. MaxEvents BY RealtimeAssumption
<1>7. CASE PumpStart
  <2>1. CASE forwarded BY <1>3, <1>7, <2>1 DEF PumpStart
  <2>2. CASE ~ forwarded
    <3>1. Push("svc", <<Frame("connected", 0)>>) BY <1>7, <2>2 DEF PumpStart
    <3>2. Frame("connected", 0) \in SysFrames /\ Frame("connected", 0).kind # "Cancel"
      BY <1>5, <1>6 DEF System
    <3> QED BY <1>1, <1>2, <1>4, <3>1, <3>2, PushOneKeeps
  <2> QED BY <2>1, <2>2
<1>8. CASE PumpAudio
  <2>1. UNCHANGED <<sys, norm>> \/ Push("svc", <<Frame("audio", 0)>>) BY <1>8 DEF PumpAudio
  <2>2. Frame("audio", 0) \in SysFrames /\ Frame("audio", 0).kind # "Cancel"
    BY <1>5, <1>6 DEF System
  <2> QED BY <1>1, <1>2, <1>3, <1>4, <2>1, <2>2, PushOneKeeps
<1>9. CASE CancelTask
  <2>1. Push("svc", <<Frame("Cancel", 0)>>) /\ "cancel" \in asked'
    BY <1>9 DEF CancelTask, Ask
  <2>2. Frame("Cancel", 0) \in SysFrames BY <1>5, <1>6 DEF System
  <2> QED BY <1>1, <1>2, <1>4, <2>1, <2>2, PushOneKeeps
<1>10. CASE ReaderBroadcast
  <2>1. Push("brain", <<Frame("Interruption", 0)>>) BY <1>10 DEF ReaderBroadcast
  <2>2. Frame("Interruption", 0) \in SysFrames /\ Frame("Interruption", 0).kind # "Cancel"
    BY <1>5, <1>6 DEF System
  <2> QED BY <1>1, <1>2, <1>4, <2>1, <2>2, PushOneKeeps
<1>11. CASE BrainAnswer
  <2> DEFINE m == IF pc["brain"] = "move" THEN <<Frame("reprompt", current)>> ELSE <<>>
             r == Frame("result", current)
  <2>1. Push("svc", m \o <<r>>) BY <1>11 DEF BrainAnswer
  <2>2. /\ Frame("reprompt", current) \in SysFrames /\ Frame("reprompt", current).kind # "Cancel"
        /\ r \in SysFrames /\ r.kind # "Cancel"
    BY <1>1, <1>5 DEF System, TaskTypes
  <2>3. m \in Seq(SysFrames) /\ Without(m, "Cancel")
    <3>1. <<Frame("reprompt", current)>> \in Seq(SysFrames) /\ <<>> \in Seq(SysFrames)
      BY <2>2
    <3> QED BY <2>2, <3>1, WithoutOne, NothingThere
  <2> HIDE DEF m, r
  <2>4. <<r>> \in Seq(SysFrames) /\ Without(<<r>>, "Cancel") BY <2>2, WithoutOne
  <2>5. m \o <<r>> \in Seq(SysFrames) BY <2>3, <2>4, ConcatProperties
  <2>6. Without(m \o <<r>>, "Cancel") BY <2>3, <2>4, WithoutConcat
  <2> QED BY <1>1, <1>2, <1>4, <2>1, <2>5, <2>6, PushKeeps
<1>12. CASE SvcRecv
  <2>1. Ready("svc") /\ Received("svc").kind \in System /\ Receive("svc")
    BY <1>12 DEF SvcRecv, System
  <2> QED BY <1>1, <1>2, <1>4, <2>1, TakeKeeps
<1>13. CASE BrainCall
  <2>1. Ready("brain") /\ Received("brain").kind \in System /\ Receive("brain")
    BY <1>13 DEF BrainCall, System
  <2> QED BY <1>1, <1>2, <1>4, <2>1, TakeKeeps
<1> QED
  BY <1>3, <1>7, <1>8, <1>9, <1>10, <1>11, <1>12, <1>13
  DEF Connect, PumpStop, ProviderEvent, ReaderPending, ReaderWake, ReaderDropped, SvcSend, SvcReprompt,
      BrainEnd, TailSend, Finalize, Upload, Over, vars

\* A step that moves no normal frame keeps the invariant.
LEMMA QuietKeeps ==
  ASSUME CallInv, Quiet
  PROVE  CallInv'
<1>1. ChannelTypes /\ TaskTypes /\ RecordTypes /\ Untouched /\ Asked /\ Disposed
  BY DEF CallInv
<1>2. "cancel" \notin asked => StopsInOrder /\ LinesKept
  BY DEF CallInv
<1>3. SysOnly
  BY QuietChannels
<1>4. pushed' = pushed /\ drained' = drained /\ partial' \subseteq partial /\ state'.lines = state.lines
  BY <1>1 DEF Quiet, Connect, PumpStart, PumpAudio, PumpStop, CancelTask, ProviderEvent,
              ReaderPending, ReaderWake, ReaderBroadcast, ReaderDropped, SvcRecv, SvcSend, SvcReprompt, BrainCall,
              BrainAnswer, BrainEnd, TailSend, Finalize, Upload, Over, vars, readVars, doneVars,
              RecordTypes
<1>5. asked \subseteq asked' /\ (forwarded => forwarded' /\ asked' = asked)
  BY DEF Quiet, Connect, PumpStart, PumpAudio, PumpStop, CancelTask, ProviderEvent, ReaderPending,
         ReaderWake, ReaderBroadcast, ReaderDropped, SvcRecv, SvcSend, SvcReprompt, BrainCall, BrainAnswer,
         BrainEnd, TailSend, Finalize, Upload, Over, Ask, endVars, netVars, vars
<1>6. ChannelTypes'
  <2>1. sys' \in [Stages -> Seq(SysFrames)] /\ norm' \in [Stages -> Seq(NormFrames)]
    BY <1>1, <1>3 DEF SysOnly, SysChannels, ChannelTypes
  <2>2. open' \subseteq Numbers
    BY <1>1 DEF Quiet, Connect, PumpStart, PumpAudio, PumpStop, CancelTask, ProviderEvent,
              ReaderPending, ReaderWake, ReaderBroadcast, ReaderDropped, SvcRecv, SvcSend, SvcReprompt, BrainCall,
              BrainAnswer, BrainEnd, TailSend, Finalize, Upload, Over, vars, brainVars,
              ChannelTypes
  <2>3. events' \in Seq(Events) /\ nr' \in 0 .. MaxEvents
    <3>1. CASE \E kind \in EventKinds : ProviderEvent(kind)
      <4>1. PICK kind \in EventKinds : ProviderEvent(kind) BY <3>1
      <4>2. nr' = nr + 1 /\ nr < MaxEvents /\ events' = Append(events, Frame(kind, nr'))
        BY <4>1 DEF ProviderEvent
      <4>3. nr' \in Numbers BY <1>1, <4>2, RealtimeAssumption DEF Numbers, ChannelTypes
      <4>4. Frame(kind, nr') \in Events BY <4>3 DEF Events, Frame
      <4>5. events' \in Seq(Events) BY <1>1, <4>2, <4>4, AppendProperties DEF ChannelTypes
      <4> QED BY <4>3, <4>5 DEF Numbers
    <3>2. CASE SvcReprompt
      <4>1. <<>> \in Seq(Events) OBVIOUS
      <4> QED BY <1>1, <3>2, <4>1 DEF SvcReprompt, ChannelTypes
    <3> QED
      BY <1>1, <3>1, <3>2
      DEF Quiet, Connect, PumpStart, PumpAudio, PumpStop, CancelTask,
              ReaderPending, ReaderWake, ReaderBroadcast, ReaderDropped, SvcRecv, SvcSend, BrainCall,
              BrainAnswer, BrainEnd, TailSend, Finalize, Upload, Over, vars, sessVars, ChannelTypes
  <2> QED BY <1>1, <1>4, <2>1, <2>2, <2>3 DEF ChannelTypes
<1>7. TaskTypes'
  <2>1. CASE BrainCall
    <3>1. current' \in 0 .. MaxEvents
      <4>1. sys \in SysChannels /\ norm \in NormChannels
        BY <1>1 DEF ChannelTypes, SysChannels, NormChannels
      <4>2. Received("brain").nr \in 0 .. MaxEvents
        BY <2>1, <4>1, Taken, Classes DEF BrainCall, Stages
      <4> QED BY <2>1, <4>2 DEF BrainCall
    <3>2. pc' \in [Stages -> Awaits] /\ pc'["tail"] = pc["tail"]
      BY <1>1, <2>1 DEF BrainCall, Goto, TaskTypes, Stages, Awaits
    <3> QED BY <1>1, <2>1, <3>1, <3>2 DEF BrainCall, TaskTypes, netVars, sessVars, readVars
  <2>2. CASE SvcRecv
    BY <1>1, <2>2 DEF SvcRecv, Goto, TaskTypes, Stages, Awaits, Spawn, netVars, sessVars, brainVars
  <2>3. CASE SvcSend \/ SvcReprompt
    BY <1>1, <2>3 DEF SvcSend, SvcReprompt, Goto, TaskTypes, Stages, Awaits, netVars, sessVars,
                      readVars, brainVars
  <2>4. CASE BrainAnswer \/ BrainEnd
    BY <1>1, <2>4 DEF BrainAnswer, BrainEnd, Goto, TaskTypes, Stages, Awaits, netVars, sessVars,
                      readVars, brainVars
  <2>5. CASE TailSend
    BY <1>1, <2>5 DEF TailSend, Goto, TaskTypes, Stages, Awaits, netVars, sessVars,
                      readVars, brainVars
  <2>6. CASE Connect \/ PumpStart \/ PumpAudio \/ PumpStop \/ CancelTask
    BY <1>1, <2>6 DEF Connect, PumpStart, PumpAudio, PumpStop, CancelTask, Pumped, TaskTypes,
                      netVars, sessVars, readVars, brainVars
  <2>7. CASE (\E kind \in EventKinds : ProviderEvent(kind)) \/ ReaderPending \/ ReaderWake
             \/ ReaderBroadcast \/ ReaderDropped \/ Finalize \/ Over
    BY <1>1, <2>7 DEF ProviderEvent, ReaderPending, ReaderWake, ReaderBroadcast, ReaderDropped, Finalize, Upload,
                      Over, TaskTypes, netVars, sessVars, readVars, brainVars, vars
  <2> QED BY <2>1, <2>2, <2>3, <2>4, <2>5, <2>6, <2>7 DEF Quiet
<1>8. RecordTypes'
  <2>1. asked' \subseteq Parties /\ forwarded' \in BOOLEAN
    BY <1>1 DEF Quiet, Connect, PumpStart, PumpAudio, PumpStop, CancelTask, ProviderEvent,
              ReaderPending, ReaderWake, ReaderBroadcast, ReaderDropped, SvcRecv, SvcSend, SvcReprompt, BrainCall,
              BrainAnswer, BrainEnd, TailSend, Finalize, Upload, Over, vars, endVars, Ask,
              RecordTypes, Parties
  <2>2. CASE BrainEnd
    BY <1>1, <2>1, <2>2 DEF BrainEnd, RecordTypes
  <2>3. CASE Finalize
    <3>1. ASSUME NEW kind \in {"recording", "transcript"},
                 NEW next \in {"transcript", "complete"}, Upload(kind, next)
          PROVE  report' \in Reports
      <4>1. report \in Reports BY <1>1 DEF RecordTypes
      <4>2. report.uploads \cup {kind} \in SUBSET {"recording", "transcript"} BY <4>1 DEF Reports
      <4>3. CASE report' = [report EXCEPT !.phase = next, !.uploads = report.uploads \cup {kind}]
        BY <4>1, <4>2, <4>3 DEF Reports
      <4>4. CASE report' = [report EXCEPT !.phase = next]
        BY <4>1, <4>4 DEF Reports
      <4> QED BY <3>1, <4>3, <4>4 DEF Upload
    <3>2. report' \in Reports
      BY <1>1, <2>3, <3>1 DEF Finalize, RecordTypes, Reports
    <3>3. UNCHANGED state BY <2>3 DEF Finalize, Upload
    <3> QED BY <1>1, <2>1, <3>2, <3>3 DEF RecordTypes
  <2> QED
    BY <1>1, <2>1, <2>2, <2>3
    DEF Quiet, Connect, PumpStart, PumpAudio, PumpStop, CancelTask, ProviderEvent,
              ReaderPending, ReaderWake, ReaderBroadcast, ReaderDropped, SvcRecv, SvcSend, SvcReprompt, BrainCall,
              BrainAnswer, TailSend, Over, vars, doneVars, RecordTypes
<1>9. Untouched'
  <2> SUFFICES ASSUME pump' = "off"
               PROVE  /\ reader' = "off" /\ ~ forwarded' /\ asked' = {} /\ pushed' = {}
                      /\ tlock' = "pump"
                      /\ \A s \in Stages : sys'[s] = <<>> /\ norm'[s] = <<>> /\ pc'[s] = "idle"
    BY DEF Untouched
  <2>1. pump = "off"
    BY DEF Quiet, Connect, PumpStart, PumpAudio, PumpStop, CancelTask, ProviderEvent,
           ReaderPending, ReaderWake, ReaderBroadcast, ReaderDropped, SvcRecv, SvcSend, SvcReprompt, BrainCall,
           BrainAnswer, BrainEnd, TailSend, Finalize, Upload, Over, Pumped, vars, netVars
  <2>2. /\ reader = "off" /\ ~ forwarded /\ asked = {} /\ pushed = {} /\ tlock = "pump"
        /\ \A s \in Stages : sys[s] = <<>> /\ norm[s] = <<>> /\ pc[s] = "idle"
    BY <1>1, <2>1 DEF Untouched
  <2>3. (\E kind \in EventKinds : ProviderEvent(kind)) \/ Finalize \/ Over
    BY <2>1, <2>2
    DEF Quiet, Connect, PumpStart, PumpAudio, PumpStop, CancelTask, Pumped,
           ReaderPending, ReaderWake, ReaderBroadcast, ReaderDropped, SvcRecv, SvcSend, SvcReprompt, BrainCall,
           BrainAnswer, BrainEnd, TailSend, Ready, Stages
  <2>4. UNCHANGED <<reader, endVars, pushed, tlock, sys, norm, pc>>
    BY <2>3 DEF ProviderEvent, Finalize, Upload, Over, vars, netVars, readVars
  <2> QED BY <2>2, <2>4 DEF endVars
<1>10. \A s \in Stages : /\ pc'[s] = "done" <=> pc[s] = "done"
                         /\ pc'[s] = "failed" <=> pc[s] = "failed"
  <2>1. CASE UNCHANGED pc BY <2>1
  <2>2. CASE SvcRecv BY <1>1, <2>2 DEF SvcRecv, Goto, TaskTypes, Stages, Ready
  <2>3. CASE SvcSend \/ SvcReprompt BY <1>1, <2>3 DEF SvcSend, SvcReprompt, Goto, TaskTypes, Stages
  <2>4. CASE BrainCall BY <1>1, <2>4 DEF BrainCall, Goto, TaskTypes, Stages, Ready
  <2>5. CASE BrainAnswer \/ BrainEnd BY <1>1, <2>5 DEF BrainAnswer, BrainEnd, Goto, TaskTypes, Stages
  <2>6. CASE TailSend BY <1>1, <2>6 DEF TailSend, Goto, TaskTypes, Stages
  <2> QED
    BY <2>1, <2>2, <2>3, <2>4, <2>5, <2>6
    DEF Quiet, Connect, PumpStart, PumpAudio, PumpStop, CancelTask, ProviderEvent,
        ReaderPending, ReaderWake, ReaderBroadcast, ReaderDropped, Finalize, Upload, Over, vars
<1>11. report'.phase # "none" <=> report.phase # "none"
  <2>1. CASE Finalize
    BY <1>1, <2>1 DEF Finalize, Upload, RecordTypes, Reports
  <2> QED
    BY <2>1
    DEF Quiet, Connect, PumpStart, PumpAudio, PumpStop, CancelTask, ProviderEvent, BrainEnd,
              ReaderPending, ReaderWake, ReaderBroadcast, ReaderDropped, SvcRecv, SvcSend, SvcReprompt, BrainCall,
              BrainAnswer, TailSend, Over, vars, doneVars
<1>12. /\ forwarded' => asked' # {}
       /\ "cancel" \in asked' => forwarded'
  BY <1>1, <1>5
  DEF Asked, Quiet, Connect, PumpStart, PumpAudio, PumpStop, CancelTask, ProviderEvent, BrainEnd,
              ReaderPending, ReaderWake, ReaderBroadcast, ReaderDropped, SvcRecv, SvcSend, SvcReprompt, BrainCall,
              BrainAnswer, TailSend, Finalize, Upload, Over, vars, endVars, Ask
<1>13. Asked'
  <2>1. ASSUME NEW s \in Stages
        PROVE  /\ "cancel" \in asked' \/ Without(sys'[s], "Cancel")
               /\ forwarded' \/ Without(norm'[s], "End")
               /\ pc'[s] \in {"failed", "done"} => forwarded'
    <3>1. "cancel" \in asked' \/ Without(sys'[s], "Cancel") BY <1>3 DEF SysOnly
    <3>2. forwarded' \/ Without(norm'[s], "End") BY <1>1, <1>3, <1>5 DEF Asked, SysOnly
    <3>3. pc[s] \in {"failed", "done"} => forwarded' BY <1>1, <1>5 DEF Asked
    <3>4. pc'[s] \in {"failed", "done"} => pc[s] \in {"failed", "done"} BY <1>10
    <3> QED BY <3>1, <3>2, <3>3, <3>4
  <2>2. report'.phase # "none" <=> pc'["tail"] = "done"
    <3>1. "tail" \in Stages BY DEF Stages
    <3>2. pc'["tail"] = "done" <=> pc["tail"] = "done" BY <1>10, <3>1
    <3>3. report.phase # "none" <=> pc["tail"] = "done" BY <1>1 DEF Asked
    <3> QED BY <1>11, <3>2, <3>3
  <2> QED BY <1>12, <2>1, <2>2 DEF Asked
<1>14. Disposed'
  <2>1. CASE BrainEnd
    <3>1. state'.disposition BY <1>1, <2>1 DEF BrainEnd, RecordTypes
    <3>2. report.phase # "none" => asked' = asked /\ UNCHANGED report
      BY <1>1, <1>5, <2>1 DEF BrainEnd, Asked, Stages
    <3>3. UNCHANGED report BY <2>1 DEF BrainEnd
    <3> QED BY <1>1, <3>1, <3>2, <3>3 DEF Disposed, DispositionReported
  <2>2. CASE ~ BrainEnd
    <3>1. UNCHANGED state /\ ("brain" \in asked' => "brain" \in asked)
      BY <2>2
      DEF Quiet, Connect, PumpStart, PumpAudio, PumpStop, CancelTask, ProviderEvent,
              ReaderPending, ReaderWake, ReaderBroadcast, ReaderDropped, SvcRecv, SvcSend, SvcReprompt, BrainCall,
              BrainAnswer, TailSend, Finalize, Upload, Over, vars, endVars, doneVars, Ask
    <3>2. report'.disposition = report.disposition
      <4>1. CASE Finalize BY <1>1, <4>1 DEF Finalize, Upload, RecordTypes, Reports
      <4> QED
        BY <2>2, <4>1
        DEF Quiet, Connect, PumpStart, PumpAudio, PumpStop, CancelTask, ProviderEvent,
              ReaderPending, ReaderWake, ReaderBroadcast, ReaderDropped, SvcRecv, SvcSend, SvcReprompt, BrainCall,
              BrainAnswer, TailSend, Over, vars, doneVars
    <3> QED BY <1>1, <1>11, <3>1, <3>2 DEF Disposed, DispositionReported
  <2> QED BY <2>1, <2>2
<1>15. ASSUME "cancel" \notin asked' PROVE StopsInOrder'
  <2>1. StopsInOrder /\ norm' = norm BY <1>2, <1>3, <1>5, <1>15 DEF SysOnly
  <2>3. "svc" \in Stages /\ "brain" \in Stages /\ "tail" \in Stages BY DEF Stages
  <2>4. /\ pc'["svc"] = "done" <=> pc["svc"] = "done"
        /\ pc'["brain"] = "done" <=> pc["brain"] = "done"
        /\ pc'["tail"] = "done" <=> pc["tail"] = "done"
        /\ pc'["tail"] = "failed" <=> pc["tail"] = "failed"
    BY <1>10, <2>3
  <2> QED BY <2>1, <2>4 DEF StopsInOrder
<1>16. ASSUME "cancel" \notin asked' PROVE LinesKept'
  <2>1. LinesKept /\ norm' = norm BY <1>2, <1>3, <1>5, <1>16 DEF SysOnly
  <2>2. report'.lines = report.lines
    <3>1. CASE Finalize BY <1>1, <3>1 DEF Finalize, Upload, RecordTypes, Reports
    <3> QED
        BY <3>1
        DEF Quiet, Connect, PumpStart, PumpAudio, PumpStop, CancelTask, ProviderEvent,
              ReaderPending, ReaderWake, ReaderBroadcast, ReaderDropped, SvcRecv, SvcSend, SvcReprompt, BrainCall,
              BrainAnswer, BrainEnd, TailSend, Over, vars, doneVars
  <2>3. LinesReported' BY <1>4, <1>5, <1>11, <2>1, <2>2 DEF LinesKept, LinesReported
  <2>4. "brain" \in Stages BY DEF Stages
  <2>5. BrainLines' = BrainLines BY <1>10, <2>1, <2>4 DEF BrainLines
  <2> QED BY <1>4, <2>1, <2>3, <2>5 DEF LinesKept
<1> QED BY <1>6, <1>7, <1>8, <1>9, <1>13, <1>14, <1>15, <1>16 DEF CallInv

-----------------------------------------------------------------------------
(* The steps that move normal frames or stop a stage.                      *)

\* A failed connect closes a call in which nothing has happened.
LEMMA ConnectFailsKeeps ==
  ASSUME CallInv, ConnectFails
  PROVE  CallInv'
<1>1. ChannelTypes /\ TaskTypes /\ RecordTypes /\ Untouched /\ Asked /\ Disposed
  BY DEF CallInv
<1>2. /\ reader = "off" /\ ~ forwarded /\ asked = {} /\ pushed = {} /\ tlock = "pump"
      /\ \A s \in Stages : sys[s] = <<>> /\ norm[s] = <<>> /\ pc[s] = "idle"
  BY <1>1 DEF ConnectFails, Untouched
<1>3. pc' = [s \in Stages |-> IF s = "tail" THEN "failed" ELSE "done"]
  BY DEF ConnectFails
<1>4. /\ UNCHANGED <<tlock, sys, norm, reader, slock, events, nr, partial, open, current>>
      /\ UNCHANGED <<pushed, drained, state, report>>
      /\ asked' = {"session"} /\ forwarded' = TRUE /\ pump' = "done"
  BY <1>2 DEF ConnectFails, Ask, sessVars, readVars, brainVars, doneVars
<1>5. ChannelTypes' BY <1>1, <1>4 DEF ChannelTypes
<1>6. TaskTypes' BY <1>1, <1>2, <1>3, <1>4 DEF TaskTypes, Stages, Awaits
<1>7. RecordTypes' BY <1>1, <1>4 DEF RecordTypes, Parties
<1>8. Untouched' BY <1>4 DEF Untouched
<1>9. report.phase = "none" BY <1>1, <1>2 DEF Asked, Stages
<1>10. Asked'
  <2>1. \A s \in Stages : Without(sys'[s], "Cancel")
    BY <1>2, <1>4, NothingThere
  <2>2. pc'["tail"] = "failed" BY <1>3 DEF Stages
  <2> QED BY <1>4, <1>9, <2>1, <2>2 DEF Asked
<1>11. Disposed' BY <1>4, <1>9 DEF Disposed, DispositionReported
<1>12. StopsInOrder'
  <2>1. norm'["brain"] = <<>> /\ norm'["tail"] = <<>> BY <1>2, <1>4 DEF Stages
  <2>2. pc'["svc"] = "done" /\ pc'["brain"] = "done" BY <1>3 DEF Stages
  <2> QED BY <2>1, <2>2, NothingThere DEF StopsInOrder
<1>13. LinesKept' BY <1>2, <1>4, <1>9 DEF LinesKept, LinesReported
<1> QED BY <1>5, <1>6, <1>7, <1>8, <1>10, <1>11, <1>12, <1>13 DEF CallInv

\* The first End leaves the head.
LEMMA HeadEndKeeps ==
  ASSUME CallInv, HeadEnd
  PROVE  CallInv'
<1>1. ChannelTypes /\ TaskTypes /\ RecordTypes /\ Untouched /\ Asked /\ Disposed
  BY DEF CallInv
<1>2. norm \in NormChannels /\ "svc" \in Stages /\ End \in NormFrames
  BY <1>1, Classes DEF ChannelTypes, NormChannels, Stages
<1>3. <<End>> \in Seq(NormFrames) /\ <<End>> # <<>>
  BY <1>2
<1>4. /\ sys' = sys /\ norm' \in NormChannels
      /\ norm'["brain"] = norm["brain"] /\ norm'["tail"] = norm["tail"]
  <2>1. Deliver(sys, norm, "svc", <<End>>) BY DEF HeadEnd, Push
  <2>2. /\ sys' = sys /\ norm' \in NormChannels
        /\ \A t \in Stages :
             norm'[t] = IF t = "svc" /\ pc["svc"] # "done" THEN norm[t] \o <<End>> ELSE norm[t]
    BY <1>2, <1>3, <2>1, NormPush
  <2> QED BY <2>2 DEF Stages
<1>5. /\ UNCHANGED <<pump, tlock, pc, reader, slock, events, nr, partial, open, current>>
      /\ UNCHANGED <<pushed, drained, state, report, asked>>
      /\ forwarded' = TRUE /\ asked # {}
  BY DEF HeadEnd, netVars, sessVars, readVars, brainVars, doneVars
<1>6. pump # "off" BY <1>1, <1>5 DEF Untouched
<1>7. ChannelTypes' BY <1>1, <1>4, <1>5 DEF ChannelTypes, NormChannels
<1>8. TaskTypes' BY <1>1, <1>5 DEF TaskTypes
<1>9. RecordTypes' BY <1>1, <1>5 DEF RecordTypes
<1>10. Untouched' BY <1>5, <1>6 DEF Untouched
<1>11. Asked' BY <1>1, <1>4, <1>5 DEF Asked
<1>12. Disposed' BY <1>1, <1>5 DEF Disposed, DispositionReported
<1>13. StopsInOrder => StopsInOrder' BY <1>4, <1>5 DEF StopsInOrder
<1>14. LinesKept => LinesKept' BY <1>4, <1>5 DEF LinesKept, LinesReported, BrainLines
<1>15. "cancel" \notin asked' => StopsInOrder' /\ LinesKept'
  BY <1>5, <1>13, <1>14 DEF CallInv
<1> QED BY <1>7, <1>8, <1>9, <1>10, <1>11, <1>12, <1>15 DEF CallInv

\* flush_bot gives the one line of the deltas so far, if there are any.
LEMMA FlushIs ==
  ASSUME partial \subseteq Numbers
  PROVE  Flush = <<>> \/ \E n \in Numbers : Flush = <<Frame("line", n)>>
<1>1. CASE partial = {} BY <1>1 DEF Flush
<1>2. CASE partial # {}
  <2> DEFINE S == {MaxEvents - n : n \in partial}
  <2>1. S \in SUBSET Nat /\ S # {} BY <1>2, RealtimeAssumption DEF Numbers
  <2> HIDE DEF S
  <2>2. PICK x \in S : \A y \in S : x <= y BY <2>1, NatLeast
  <2> USE DEF S
  <2>3. PICK m \in partial : x = MaxEvents - m OBVIOUS
  <2>4. ASSUME NEW n \in partial PROVE n <= m
    <3>1. MaxEvents - m <= MaxEvents - n BY <2>2, <2>3
    <3>2. n \in Int /\ m \in Int /\ MaxEvents \in Int BY RealtimeAssumption DEF Numbers
    <3> QED BY <3>1, <3>2
  <2>5. \E n \in partial : \A k \in partial : k <= n BY <2>4
  <2>6. (CHOOSE n \in partial : \A k \in partial : k <= n) \in partial BY <2>5
  <2> QED BY <1>2, <2>6 DEF Flush
<1> QED BY <1>1, <1>2

\* What an event sends down is system frames without a line, or normal frames without an End.
LEMMA EmittedIs ==
  ASSUME partial \subseteq Numbers,
         NEW e \in [kind : EventKinds, nr : 0 .. MaxEvents], e.kind # "Closed" => e.nr \in Numbers
  PROVE  \/ /\ Emitted(e) \in Seq(SysFrames) /\ Without(Emitted(e), "Cancel")
            /\ Lines(Emitted(e)) = {}
         \/ /\ Emitted(e) \in Seq(NormFrames) /\ Emitted(e) # <<>> /\ Without(Emitted(e), "End")
            /\ Lines(Emitted(e)) \subseteq Numbers
<1> DEFINE Good(fs) ==
      \/ fs \in Seq(SysFrames) /\ Without(fs, "Cancel") /\ Lines(fs) = {}
      \/ /\ fs \in Seq(NormFrames) /\ fs # <<>> /\ Without(fs, "End")
         /\ Lines(fs) \subseteq Numbers
<1>1. Good(<<>>)
  <2>1. <<>> \in Seq(SysFrames) OBVIOUS
  <2> QED BY <2>1, NothingThere
<1>2. ASSUME NEW f \in NormFrames, f.kind # "End" PROVE Good(<<f>>) /\ <<f>> \in Seq(NormFrames)
  <2>1. <<f>> \in Seq(NormFrames) /\ <<f>> # <<>> OBVIOUS
  <2>2. f.nr \in Numbers BY <1>2, Classes
  <2>3. Without(<<f>>, "End") /\ Lines(<<f>>) \subseteq Numbers BY <1>2, <2>2, WithoutOne, LinesOne
  <2> QED BY <2>1, <2>3
<1>3. ASSUME NEW n \in Numbers, NEW kind \in {"line", "usage", "speech"}
      PROVE  Frame(kind, n) \in NormFrames /\ Frame(kind, n).kind # "End"
  BY RealtimeAssumption DEF Frame, NormFrames, Numbers
<1>4. Good(Flush) /\ (Flush = <<>> \/ (Flush \in Seq(NormFrames) /\ Flush # <<>>))
  <2>1. CASE Flush = <<>>
    <3> HIDE DEF Good
    <3>1. Good(Flush) BY <1>1, <2>1
    <3> QED BY <2>1, <3>1
  <2>2. ASSUME NEW n \in Numbers, Flush = <<Frame("line", n)>>
        PROVE  Good(Flush) /\ Flush \in Seq(NormFrames) /\ Flush # <<>>
    BY <1>2, <1>3, <2>2
  <2> QED BY <2>1, <2>2, FlushIs
<1>5. CASE e.kind = "user"
  <2>1. Emitted(e) = <<Frame("line", e.nr)>> BY <1>5 DEF Emitted
  <2>2. e.nr \in Numbers BY <1>5
  <2> QED BY <1>2, <1>3, <2>1, <2>2
<1>6. CASE e.kind \in {"speech", "usage"}
  <2>1. e.nr \in Numbers /\ e = Frame(e.kind, e.nr) BY <1>6 DEF Frame
  <2>2. e \in NormFrames /\ e.kind # "End" BY <1>3, <1>6, <2>1
  <2>3. Good(<<e>>) /\ <<e>> \in Seq(NormFrames) BY <1>2, <2>2
  <2>4. CASE e.kind = "speech"
    <3>1. Emitted(e) = <<e>> BY <2>4 DEF Emitted
    <3> QED BY <2>3, <3>1
  <2>5. CASE e.kind = "usage"
    <3>1. Emitted(e) = Flush \o <<e>> BY <2>5 DEF Emitted
    <3>2. CASE Flush = <<>>
      <4>1. Flush \o <<e>> = <<e>> BY <2>3, <3>2, ConcatEmptySeq
      <4> QED BY <2>3, <3>1, <4>1
    <3>3. CASE Flush \in Seq(NormFrames) /\ Flush # <<>>
      <4>1. Without(Flush, "End") /\ Lines(Flush) \subseteq Numbers
        <5>1. ~ (Flush \in Seq(SysFrames))
          <6>1. Len(Flush) \in Nat /\ Len(Flush) > 0 BY <3>3, LenProperties, EmptySeq
          <6>2. 1 \in 1 .. Len(Flush) /\ Flush[1] \in NormFrames BY <3>3, <6>1, ElementOfSeq
          <6> QED BY <6>2, Classes, ElementOfSeq
        <5> QED BY <1>4, <5>1
      <4>2. <<e>> \in Seq(NormFrames) /\ Without(<<e>>, "End") /\ Lines(<<e>>) \subseteq Numbers
        BY <2>1, <2>2, <2>3, WithoutOne, LinesOne
      <4>3. Flush \o <<e>> \in Seq(NormFrames) /\ Len(Flush \o <<e>>) = Len(Flush) + Len(<<e>>)
        BY <3>3, <4>2, ConcatProperties
      <4>4. Flush \o <<e>> # <<>>
        <5>1. Len(Flush) \in Nat /\ Len(<<e>>) = 1 /\ Len(<<>>) = 0 BY <3>3, LenProperties
        <5> QED BY <4>3, <5>1
      <4>5. Without(Flush \o <<e>>, "End") BY <3>3, <4>1, <4>2, WithoutConcat
      <4>6. Lines(Flush \o <<e>>) = Lines(Flush) \cup Lines(<<e>>)
        BY <3>3, <4>2, LinesConcat
      <4>7. Lines(Flush \o <<e>>) \subseteq Numbers BY <4>1, <4>2, <4>6
      <4> QED BY <3>1, <4>3, <4>4, <4>5, <4>7
    <3> QED BY <1>4, <3>2, <3>3
  <2> QED BY <1>6, <2>4, <2>5
<1>7. CASE e.kind = "call"
  <2>1. Emitted(e) = <<e>> BY <1>7 DEF Emitted
  <2>2. e \in SysFrames BY <1>7, RealtimeAssumption DEF SysFrames, System, Numbers
  <2>3. <<e>> \in Seq(SysFrames) BY <2>2
  <2>4. Without(<<e>>, "Cancel") BY <1>7, WithoutOne
  <2>5. Lines(<<e>>) = {} BY <1>7, LinesOne
  <2> QED BY <2>1, <2>3, <2>4, <2>5
<1>8. CASE e.kind \in {"Interrupted", "Closed"}
  <2>1. Emitted(e) = Flush BY <1>8 DEF Emitted
  <2> QED BY <1>4, <2>1
<1>9. CASE e.kind = "bot"
  <2>1. Emitted(e) = <<>> BY <1>9 DEF Emitted
  <2> QED BY <1>1, <2>1
<1> QED BY <1>5, <1>6, <1>7, <1>8, <1>9 DEF EventKinds

\* An event of the provider: its lines go into the brain's channel, before any End unless
\* the service has stopped.
LEMMA ReaderEventKeeps ==
  ASSUME CallInv, ReaderEvent
  PROVE  CallInv'
<1>1. ChannelTypes /\ TaskTypes /\ RecordTypes /\ Untouched /\ Asked /\ Disposed
  BY DEF CallInv
<1> DEFINE e == IF events # <<>> THEN Head(events) ELSE Frame("Closed", nr)
           fs == Emitted(e)
<1>2. HandleEvent(e) /\ reader \in {"poll", "blocked"}
  BY DEF ReaderEvent
<1>3. e \in [kind : EventKinds, nr : 0 .. MaxEvents] /\ (e.kind # "Closed" => e.nr \in Numbers)
  <2>1. CASE events # <<>>
    <3>1. Head(events) \in Events BY <1>1, <2>1, HeadTailProperties DEF ChannelTypes
    <3>2. e = Head(events) BY <2>1
    <3>3. \A x \in Events : x \in [kind : EventKinds, nr : 0 .. MaxEvents] /\ x.nr \in Numbers
      BY RealtimeAssumption DEF Events, Numbers
    <3> HIDE DEF e
    <3> QED BY <3>1, <3>2, <3>3
  <2>2. CASE events = <<>>
    BY <1>1, <2>2 DEF Frame, EventKinds, ChannelTypes
  <2> QED BY <2>1, <2>2
<1>4. /\ events' \in Seq(Events) /\ nr' = nr /\ slock' = "free"
      /\ UNCHANGED <<pump, tlock, forwarded, pc, current, drained, state, report>>
  <2>1. CASE events # <<>>
    <3>1. Tail(events) \in Seq(Events) BY <1>1, <2>1, HeadTailProperties DEF ChannelTypes
    <3> QED BY <2>1, <3>1 DEF ReaderEvent, netVars, doneVars
  <2>2. CASE events = <<>> BY <1>1, <2>2 DEF ReaderEvent, netVars, doneVars, ChannelTypes
  <2> QED BY <2>1, <2>2
<1> HIDE DEF e
<1>5. \/ fs \in Seq(SysFrames) /\ Without(fs, "Cancel") /\ Lines(fs) = {}
      \/ /\ fs \in Seq(NormFrames) /\ fs # <<>> /\ Without(fs, "End")
         /\ Lines(fs) \subseteq Numbers
  BY <1>1, <1>3, EmittedIs DEF ChannelTypes
<1> HIDE DEF fs
<1>6. Push("brain", fs) /\ pushed' = IF Stopped THEN pushed ELSE pushed \cup Lines(fs)
  BY <1>2 DEF HandleEvent, fs
<1>7. /\ asked \subseteq asked' /\ asked' \subseteq asked \cup {"session"}
      /\ forwarded => asked' = asked
  BY <1>2 DEF HandleEvent, Ask
<1>8. reader' \in {"poll", "broadcast", "done"}
  BY <1>2 DEF HandleEvent
<1>9. open' \subseteq Numbers /\ partial' \subseteq Numbers
  BY <1>1, <1>2, <1>3 DEF HandleEvent, ChannelTypes
<1>10. pump # "off" BY <1>1, <1>2 DEF Untouched
<1>11. sys \in SysChannels /\ norm \in NormChannels /\ "brain" \in Stages
  BY <1>1 DEF ChannelTypes, SysChannels, NormChannels, Stages
<1>12. TaskTypes' BY <1>1, <1>4, <1>8 DEF TaskTypes
<1>13. RecordTypes' BY <1>1, <1>4, <1>7 DEF RecordTypes, Parties
<1>14. Untouched' BY <1>4, <1>10 DEF Untouched
<1>15. Disposed'
  <2>1. "brain" \in asked' => "brain" \in asked BY <1>7
  <2> QED BY <1>1, <1>4, <2>1 DEF Disposed, DispositionReported
<1>16. "cancel" \in asked' => "cancel" \in asked BY <1>7
<1>17. ASSUME "cancel" \notin asked' PROVE StopsInOrder /\ LinesKept
  BY <1>7, <1>17 DEF CallInv
<1>18. ASSUME "cancel" \notin asked', ~ Stopped PROVE report.phase = "none" /\ pc["brain"] # "done"
  BY <1>1, <1>17, <1>18 DEF StopsInOrder, Asked, Stopped
<1>19. CASE fs \in Seq(SysFrames) /\ Without(fs, "Cancel") /\ Lines(fs) = {}
  <2>1. SysOnly BY <1>1, <1>6, <1>7, <1>11, <1>19, PushKeeps
  <2>2. pushed' = pushed BY <1>6, <1>19
  <2>3. ChannelTypes'
    BY <1>1, <1>4, <1>9, <2>1, <2>2 DEF ChannelTypes, SysOnly, SysChannels
  <2>4. Asked'
    <3>1. ASSUME NEW s \in Stages
          PROVE  /\ "cancel" \in asked' \/ Without(sys'[s], "Cancel")
                 /\ forwarded' \/ Without(norm'[s], "End")
                 /\ pc'[s] \in {"failed", "done"} => forwarded'
      BY <1>1, <1>4, <2>1 DEF Asked, SysOnly
    <3>2. forwarded' => asked' # {} BY <1>1, <1>4, <1>7 DEF Asked
    <3> QED BY <1>1, <1>4, <1>16, <3>1, <3>2 DEF Asked
  <2>5. ASSUME "cancel" \notin asked' PROVE StopsInOrder' /\ LinesKept'
    <3>1. StopsInOrder /\ LinesKept /\ "cancel" \notin asked BY <1>7, <1>17, <2>5
    <3>2. StopsInOrder' BY <1>4, <2>1, <3>1 DEF StopsInOrder, SysOnly
    <3>3. LinesKept'
      BY <1>4, <2>1, <2>2, <3>1 DEF LinesKept, LinesReported, BrainLines, SysOnly
    <3> QED BY <3>2, <3>3
  <2> QED BY <1>12, <1>13, <1>14, <1>15, <2>3, <2>4, <2>5 DEF CallInv
<1>20. CASE /\ fs \in Seq(NormFrames) /\ fs # <<>> /\ Without(fs, "End")
            /\ Lines(fs) \subseteq Numbers
  <2>1. /\ sys' = sys /\ norm' \in NormChannels
        /\ \A t \in Stages :
             norm'[t] = IF t = "brain" /\ pc["brain"] # "done" THEN norm[t] \o fs ELSE norm[t]
    BY <1>6, <1>11, <1>20, NormPush DEF Push
  <2>2. ChannelTypes'
    BY <1>1, <1>4, <1>6, <1>9, <1>20, <2>1 DEF ChannelTypes, NormChannels
  <2>3. \A s \in Stages : forwarded \/ Without(norm'[s], "End")
    <3> SUFFICES ASSUME NEW s \in Stages, ~ forwarded PROVE Without(norm'[s], "End")
      OBVIOUS
    <3>1. Without(norm[s], "End") /\ norm[s] \in Seq(NormFrames)
      BY <1>1 DEF Asked, ChannelTypes
    <3>2. Without(norm[s] \o fs, "End") BY <1>20, <3>1, WithoutConcat
    <3> QED BY <2>1, <3>1, <3>2
  <2>4. Asked'
    <3>1. ASSUME NEW s \in Stages
          PROVE  /\ "cancel" \in asked' \/ Without(sys'[s], "Cancel")
                 /\ forwarded' \/ Without(norm'[s], "End")
                 /\ pc'[s] \in {"failed", "done"} => forwarded'
      BY <1>1, <1>4, <1>7, <2>1, <2>3 DEF Asked
    <3>2. forwarded' => asked' # {} BY <1>1, <1>4, <1>7 DEF Asked
    <3> QED BY <1>1, <1>4, <1>16, <3>1, <3>2 DEF Asked
  <2>5. ASSUME "cancel" \notin asked' PROVE StopsInOrder' /\ LinesKept'
    <3>1. StopsInOrder /\ LinesKept /\ "cancel" \notin asked BY <1>7, <1>17, <2>5
    <3>2. norm'["tail"] = norm["tail"] /\ norm["brain"] \in Seq(NormFrames)
      BY <1>1, <2>1 DEF Stages, ChannelTypes
    <3>3. CASE Stopped
      <4>1. pushed' = pushed /\ pc["svc"] = "done" BY <1>6, <3>3 DEF Stopped
      <4>2. norm'["brain"] = norm["brain"] \/ norm'["brain"] = norm["brain"] \o fs
        BY <1>11, <2>1
      <4>3. LinesAhead(norm["brain"]) \subseteq LinesAhead(norm'["brain"])
        BY <1>20, <3>2, <4>2, AheadConcat
      <4>4. StopsInOrder' BY <1>4, <3>1, <3>2, <4>1 DEF StopsInOrder
      <4>5. BrainLines \subseteq BrainLines' BY <1>4, <4>3 DEF BrainLines
      <4>6. LinesKept' BY <1>4, <3>1, <3>2, <4>1, <4>5 DEF LinesKept, LinesReported
      <4> QED BY <4>4, <4>6
    <3>4. CASE ~ Stopped
      <4>1. report.phase = "none" /\ pc["brain"] # "done" /\ pc["svc"] # "done"
        BY <1>18, <2>5, <3>4 DEF Stopped
      <4>2. norm'["brain"] = norm["brain"] \o fs BY <1>11, <2>1, <4>1
      <4>3. Without(norm["brain"], "End") BY <3>1, <4>1 DEF StopsInOrder
      <4>4. Without(norm'["brain"], "End") BY <1>20, <3>2, <4>2, <4>3, WithoutConcat
      <4>5. StopsInOrder' BY <1>4, <3>1, <3>2, <4>1, <4>4 DEF StopsInOrder
      <4>6. LinesAhead(norm["brain"]) \cup Lines(fs) \subseteq LinesAhead(norm'["brain"])
        BY <1>20, <3>2, <4>2, <4>3, AheadConcat
      <4>7. BrainLines \cup Lines(fs) \subseteq BrainLines' BY <1>4, <4>1, <4>6 DEF BrainLines
      <4>8. LinesReported' BY <1>4, <4>1 DEF LinesReported
      <4>9. pushed' = pushed \cup Lines(fs) BY <1>6, <3>4
      <4>10. LinesKept' BY <1>4, <3>1, <3>2, <4>7, <4>8, <4>9 DEF LinesKept
      <4> QED BY <4>5, <4>10
    <3> QED BY <3>3, <3>4
  <2> QED BY <1>12, <1>13, <1>14, <1>15, <2>2, <2>4, <2>5 DEF CallInv
<1> QED BY <1>5, <1>19, <1>20

\* A stage hands on what it takes: a system frame, which is a Cancel only behind the request
\* for one, or the head of its normal channel, which is an End only behind the head's.
LEMMA HandOn ==
  ASSUME ChannelTypes, Asked, NEW s \in Stages, NEW t \in Stages, s # t,
         Ready(s), ReceiveAndPush(s, t, <<Received(s)>>)
  PROVE  \/ /\ Received(s) \in SysFrames /\ norm' = norm /\ sys' \in SysChannels
            /\ "cancel" \notin asked =>
                 Received(s).kind # "Cancel" /\ \A u \in Stages : Without(sys'[u], "Cancel")
         \/ /\ Received(s) \in NormFrames /\ sys' = sys /\ norm' \in NormChannels
            /\ norm[s] # <<>> /\ Received(s) = Head(norm[s]) /\ norm'[s] = Tail(norm[s])
            /\ norm'[t] = IF pc[t] = "done" THEN norm[t] ELSE norm[t] \o <<Received(s)>>
            /\ \A u \in Stages \ {s, t} : norm'[u] = norm[u]
            /\ ~ forwarded =>
                 Received(s).kind # "End" /\ \A u \in Stages : Without(norm'[u], "End")
<1>1. sys \in SysChannels /\ norm \in NormChannels
  BY DEF ChannelTypes, SysChannels, NormChannels
<1> DEFINE f == Received(s)
<1>2. Deliver(SysLeft(s), NormLeft(s), t, <<f>>) BY DEF ReceiveAndPush
<1>3. CASE /\ sys[s] # <<>> /\ f = Head(sys[s]) /\ f \in SysFrames
           /\ SysLeft(s) = [sys EXCEPT ![s] = Tail(sys[s])] /\ NormLeft(s) = norm
           /\ SysLeft(s) \in SysChannels
  <2> HIDE DEF f
  <2> DEFINE left == SysLeft(s)
  <2>1. <<f>> \in Seq(SysFrames) /\ left \in SysChannels BY <1>3
  <2>2. Deliver(left, norm, t, <<f>>) BY <1>2, <1>3
  <2>3. left = [sys EXCEPT ![s] = Tail(sys[s])] BY <1>3
  <2> HIDE DEF left
  <2>4. /\ norm' = norm /\ sys' \in SysChannels
        /\ \A u \in Stages :
             sys'[u] = IF u = t /\ pc[t] # "done" THEN left[u] \o <<f>> ELSE left[u]
    BY <2>1, <2>2, SysPush
  <2>5. ASSUME "cancel" \notin asked
        PROVE  f.kind # "Cancel" /\ \A u \in Stages : Without(sys'[u], "Cancel")
    <3>1. \A u \in Stages : Without(sys[u], "Cancel") /\ sys[u] \in Seq(SysFrames)
      BY <1>1, <2>5 DEF Asked, SysChannels
    <3>2. Without(Tail(sys[s]), "Cancel") /\ f.kind # "Cancel"
      BY <1>3, <3>1, WithoutTail
    <3>3. \A u \in Stages : left[u] = IF u = s THEN Tail(sys[s]) ELSE sys[u]
      BY <1>1, <2>3 DEF SysChannels
    <3>4. \A u \in Stages : Without(left[u], "Cancel") /\ left[u] \in Seq(SysFrames)
      BY <2>1, <3>1, <3>2, <3>3 DEF SysChannels
    <3>5. Without(<<f>>, "Cancel") BY <3>2, WithoutOne
    <3>6. \A u \in Stages : Without(left[u] \o <<f>>, "Cancel")
      BY <2>1, <3>4, <3>5, WithoutConcat
    <3> QED BY <2>4, <3>2, <3>4, <3>6
  <2> QED BY <1>3, <2>4, <2>5 DEF f
<1>4. CASE /\ norm[s] # <<>> /\ f = Head(norm[s]) /\ f \in NormFrames
           /\ NormLeft(s) = [norm EXCEPT ![s] = Tail(norm[s])] /\ SysLeft(s) = sys
           /\ NormLeft(s) \in NormChannels
  <2> HIDE DEF f
  <2> DEFINE left == NormLeft(s)
  <2>1. <<f>> \in Seq(NormFrames) /\ <<f>> # <<>> /\ left \in NormChannels BY <1>4
  <2>2. Deliver(sys, left, t, <<f>>) BY <1>2, <1>4
  <2>3. left = [norm EXCEPT ![s] = Tail(norm[s])] BY <1>4
  <2> HIDE DEF left
  <2>4. /\ sys' = sys /\ norm' \in NormChannels
        /\ \A u \in Stages :
             norm'[u] = IF u = t /\ pc[t] # "done" THEN left[u] \o <<f>> ELSE left[u]
    BY <2>1, <2>2, NormPush
  <2>5. \A u \in Stages : left[u] = IF u = s THEN Tail(norm[s]) ELSE norm[u]
    BY <1>1, <2>3 DEF NormChannels
  <2>6. ASSUME ~ forwarded
        PROVE  f.kind # "End" /\ \A u \in Stages : Without(norm'[u], "End")
    <3>1. \A u \in Stages : Without(norm[u], "End") /\ norm[u] \in Seq(NormFrames)
      BY <1>1, <2>6 DEF Asked, NormChannels
    <3>2. Without(Tail(norm[s]), "End") /\ f.kind # "End"
      BY <1>4, <3>1, WithoutTail
    <3>4. \A u \in Stages : Without(left[u], "End") /\ left[u] \in Seq(NormFrames)
      BY <2>1, <2>5, <3>1, <3>2 DEF NormChannels
    <3>5. Without(<<f>>, "End") BY <3>2, WithoutOne
    <3>6. \A u \in Stages : Without(left[u] \o <<f>>, "End")
      BY <2>1, <3>4, <3>5, WithoutConcat
    <3> QED BY <2>4, <3>2, <3>4, <3>6
  <2>7. norm'[s] = Tail(norm[s]) BY <2>4, <2>5
  <2>8. norm'[t] = IF pc[t] = "done" THEN norm[t] ELSE norm[t] \o <<f>> BY <2>4, <2>5
  <2>9. \A u \in Stages \ {s, t} : norm'[u] = norm[u] BY <2>4, <2>5
  <2> QED BY <1>4, <2>4, <2>6, <2>7, <2>8, <2>9 DEF f
<1> QED BY <1>1, <1>3, <1>4, Taken

\* The service stops: the lines in the brain's channel are ahead of the terminal frame.
LEMMA SvcStopKeeps ==
  ASSUME CallInv, SvcStop
  PROVE  CallInv'
<1>1. ChannelTypes /\ TaskTypes /\ RecordTypes /\ Untouched /\ Asked /\ Disposed
  BY DEF CallInv
<1>2. /\ Ready("svc") /\ Received("svc").kind \in {"End", "Cancel"}
      /\ ReceiveAndPush("svc", "brain", <<Received("svc")>>)
      /\ "svc" \in Stages /\ "brain" \in Stages /\ "svc" # "brain"
  BY DEF SvcStop, Stages
<1>3. /\ UNCHANGED <<pump, tlock, asked, forwarded, events, nr, open, current>>
      /\ UNCHANGED <<pushed, drained, state, report>>
      /\ UNCHANGED <<reader, slock, partial>>
      /\ pc' = [pc EXCEPT !["svc"] = "done"]
  BY DEF SvcStop, Goto, netVars, endVars, brainVars, doneVars, sessVars, readVars
<1>4. pc'["svc"] = "done" /\ pc'["brain"] = pc["brain"] /\ pc'["tail"] = pc["tail"]
  BY <1>1, <1>3 DEF TaskTypes, Stages
<1>5. pump # "off" BY <1>1, <1>2 DEF Untouched, Ready
<1>6. TaskTypes' BY <1>1, <1>3, <1>4 DEF TaskTypes, Awaits, Stages
<1>7. RecordTypes' BY <1>1, <1>3 DEF RecordTypes
<1>8. Untouched' BY <1>3, <1>5 DEF Untouched
<1>9. Disposed' BY <1>1, <1>3 DEF Disposed, DispositionReported
<1> DEFINE f == Received("svc")
<1>10. CASE /\ f \in SysFrames /\ norm' = norm /\ sys' \in SysChannels
            /\ "cancel" \notin asked =>
                 f.kind # "Cancel" /\ \A u \in Stages : Without(sys'[u], "Cancel")
  <2>1. "cancel" \in asked /\ forwarded
    <3>1. f.kind = "Cancel" BY <1>2, <1>10, Classes DEF System
    <3> QED BY <1>1, <1>10, <3>1 DEF Asked
  <2>2. ChannelTypes' BY <1>1, <1>3, <1>10 DEF ChannelTypes, SysChannels
  <2>3. Asked' BY <1>1, <1>3, <1>4, <2>1 DEF Asked
  <2> QED BY <1>3, <1>6, <1>7, <1>8, <1>9, <2>1, <2>2, <2>3 DEF CallInv
<1>11. CASE /\ f \in NormFrames /\ sys' = sys /\ norm' \in NormChannels
            /\ norm["svc"] # <<>> /\ f = Head(norm["svc"]) /\ norm'["svc"] = Tail(norm["svc"])
            /\ norm'["brain"] = IF pc["brain"] = "done" THEN norm["brain"]
                                ELSE norm["brain"] \o <<f>>
            /\ \A u \in Stages \ {"svc", "brain"} : norm'[u] = norm[u]
            /\ ~ forwarded => f.kind # "End" /\ \A u \in Stages : Without(norm'[u], "End")
  <2>1. f.kind = "End" /\ forwarded
    <3>1. f.kind = "End" BY <1>2, <1>11, Classes DEF System
    <3> QED BY <1>11, <3>1
  <2>2. ChannelTypes' BY <1>1, <1>3, <1>11 DEF ChannelTypes, NormChannels
  <2>3. Asked' BY <1>1, <1>3, <1>4, <1>11, <2>1 DEF Asked
  <2>4. norm'["tail"] = norm["tail"] BY <1>11 DEF Stages
  <2>5. ASSUME "cancel" \notin asked' PROVE StopsInOrder' /\ LinesKept'
    <3>1. StopsInOrder /\ LinesKept BY <1>3, <2>5 DEF CallInv
    <3>2. Without(norm["brain"], "End") /\ pc["brain"] # "done"
      BY <1>2, <3>1 DEF StopsInOrder, Ready
    <3>3. norm["brain"] \in Seq(NormFrames) /\ <<f>> \in Seq(NormFrames)
      BY <1>1, <1>11 DEF ChannelTypes, Stages
    <3>4. norm'["brain"] = norm["brain"] \o <<f>> BY <1>11, <3>2
    <3> HIDE DEF f
    <3>6. StopsInOrder' BY <1>3, <1>4, <2>4, <3>1, <3>2 DEF StopsInOrder
    <3>7. BrainLines \subseteq BrainLines'
      <4>1. LinesAhead(norm["brain"]) \subseteq LinesAhead(norm'["brain"])
        BY <3>3, <3>4, AheadConcat
      <4> QED BY <1>4, <4>1 DEF BrainLines
    <3>8. LinesKept' BY <1>3, <2>4, <3>1, <3>7 DEF LinesKept, LinesReported
    <3> QED BY <3>6, <3>8
  <2> QED BY <1>6, <1>7, <1>8, <1>9, <2>2, <2>3, <2>5 DEF CallInv
<1> QED BY <1>1, <1>2, <1>10, <1>11, HandOn

\* The brain hands on a line, a usage or a piece of speech.
LEMMA BrainForwardKeeps ==
  ASSUME CallInv, BrainForward
  PROVE  CallInv'
<1>1. ChannelTypes /\ TaskTypes /\ RecordTypes /\ Untouched /\ Asked /\ Disposed
  BY DEF CallInv
<1> DEFINE f == Received("brain")
<1>2. /\ Ready("brain") /\ f.kind \in {"line", "usage", "speech"}
      /\ ReceiveAndPush("brain", "tail", <<f>>)
      /\ "tail" \in Stages /\ "brain" \in Stages /\ "brain" # "tail"
  BY DEF BrainForward, Stages
<1>3. /\ UNCHANGED <<pump, tlock, asked, forwarded, pc, reader, slock, events, nr, partial>>
      /\ UNCHANGED <<open, current, pushed, drained, state, report>>
  BY DEF BrainForward, netVars, endVars, sessVars, readVars, brainVars, doneVars
<1>4. /\ f \in NormFrames /\ sys' = sys /\ norm' \in NormChannels
      /\ norm["brain"] # <<>> /\ f = Head(norm["brain"]) /\ norm'["brain"] = Tail(norm["brain"])
      /\ norm'["tail"] = IF pc["tail"] = "done" THEN norm["tail"] ELSE norm["tail"] \o <<f>>
      /\ ~ forwarded => f.kind # "End" /\ \A u \in Stages : Without(norm'[u], "End")
  <2>1. f \notin SysFrames BY <1>2, Classes DEF System
  <2> QED BY <1>1, <1>2, <2>1, HandOn
<1> HIDE DEF f
<1>5. pump # "off" BY <1>1, <1>2 DEF Untouched, Ready
<1>6. ChannelTypes' BY <1>1, <1>3, <1>4 DEF ChannelTypes, NormChannels
<1>7. TaskTypes' /\ RecordTypes' BY <1>1, <1>3 DEF TaskTypes, RecordTypes
<1>8. Untouched' BY <1>3, <1>5 DEF Untouched
<1>9. Asked' BY <1>1, <1>3, <1>4 DEF Asked
<1>10. Disposed' BY <1>1, <1>3 DEF Disposed, DispositionReported
<1>11. ASSUME "cancel" \notin asked' PROVE StopsInOrder' /\ LinesKept'
  <2>1. StopsInOrder /\ LinesKept BY <1>3, <1>11 DEF CallInv
  <2>2. pc["brain"] = "idle" BY <1>2 DEF Ready
  <2>3. Without(norm["tail"], "End") /\ pc["tail"] \notin {"done", "failed"}
    BY <2>1, <2>2 DEF StopsInOrder
  <2>4. /\ norm["brain"] \in Seq(NormFrames) /\ norm["tail"] \in Seq(NormFrames)
        /\ <<f>> \in Seq(NormFrames)
    BY <1>1, <1>4 DEF ChannelTypes, Stages
  <2>5. norm'["tail"] = norm["tail"] \o <<f>> BY <1>4, <2>3
  <2>6. Without(norm'["tail"], "End")
    <3>1. f.kind # "End" BY <1>2
    <3>2. Without(<<f>>, "End") BY <3>1, WithoutOne
    <3> QED BY <2>3, <2>4, <2>5, <3>2, WithoutConcat
  <2>7. EndLast(norm'["tail"]) BY <2>6 DEF EndLast, Without
  <2>8. Without(norm["brain"], "End") => Without(norm'["brain"], "End")
    BY <1>4, <2>4, QueueTail
  <2>9. StopsInOrder' BY <1>3, <2>1, <2>2, <2>3, <2>6, <2>7, <2>8 DEF StopsInOrder
  <2>10. BrainLines \subseteq Lines(<<f>>) \cup BrainLines'
    <3>1. LinesAhead(norm["brain"]) \subseteq Lines(<<f>>) \cup LinesAhead(norm'["brain"])
      BY <1>4, <2>4, AheadTail
    <3> QED BY <1>3, <2>2, <3>1 DEF BrainLines
  <2>11. Lines(norm'["tail"]) = Lines(norm["tail"]) \cup Lines(<<f>>)
    BY <2>4, <2>5, LinesConcat
  <2>12. LinesKept' BY <1>3, <2>1, <2>10, <2>11 DEF LinesKept, LinesReported
  <2> QED BY <2>9, <2>12
<1> QED BY <1>6, <1>7, <1>8, <1>9, <1>10, <1>11 DEF CallInv

\* The brain stops: no line is ahead of its End, and the terminal frame is the last for the tail.
LEMMA BrainStopKeeps ==
  ASSUME CallInv, BrainStop
  PROVE  CallInv'
<1>1. ChannelTypes /\ TaskTypes /\ RecordTypes /\ Untouched /\ Asked /\ Disposed
  BY DEF CallInv
<1> DEFINE f == Received("brain")
<1>2. /\ Ready("brain") /\ f.kind \in {"End", "Cancel"}
      /\ ReceiveAndPush("brain", "tail", <<f>>)
      /\ "tail" \in Stages /\ "brain" \in Stages /\ "brain" # "tail"
  BY DEF BrainStop, Stages
<1>3. /\ UNCHANGED <<pump, tlock, asked, forwarded, reader, slock, events, nr, partial>>
      /\ UNCHANGED <<open, current, pushed, drained, state, report>>
      /\ pc' = [pc EXCEPT !["brain"] = "done"]
  BY DEF BrainStop, Goto, netVars, endVars, sessVars, readVars, brainVars, doneVars
<1>4. pc'["brain"] = "done" /\ pc'["svc"] = pc["svc"] /\ pc'["tail"] = pc["tail"]
  BY <1>1, <1>3 DEF TaskTypes, Stages
<1>5. pump # "off" BY <1>1, <1>2 DEF Untouched, Ready
<1>6. TaskTypes' BY <1>1, <1>3, <1>4 DEF TaskTypes, Awaits, Stages
<1>7. RecordTypes' BY <1>1, <1>3 DEF RecordTypes
<1>8. Untouched' BY <1>3, <1>5 DEF Untouched
<1>9. Disposed' BY <1>1, <1>3 DEF Disposed, DispositionReported
<1>10. CASE /\ f \in SysFrames /\ norm' = norm /\ sys' \in SysChannels
            /\ "cancel" \notin asked =>
                 f.kind # "Cancel" /\ \A u \in Stages : Without(sys'[u], "Cancel")
  <2>1. "cancel" \in asked /\ forwarded
    <3>1. f.kind = "Cancel" BY <1>2, <1>10, Classes DEF System
    <3> QED BY <1>1, <1>10, <3>1 DEF Asked
  <2>2. ChannelTypes' BY <1>1, <1>3, <1>10 DEF ChannelTypes, SysChannels
  <2>3. Asked' BY <1>1, <1>3, <1>4, <2>1 DEF Asked
  <2> QED BY <1>3, <1>6, <1>7, <1>8, <1>9, <2>1, <2>2, <2>3 DEF CallInv
<1>11. CASE /\ f \in NormFrames /\ sys' = sys /\ norm' \in NormChannels
            /\ norm["brain"] # <<>> /\ f = Head(norm["brain"])
            /\ norm'["brain"] = Tail(norm["brain"])
            /\ norm'["tail"] = IF pc["tail"] = "done" THEN norm["tail"]
                               ELSE norm["tail"] \o <<f>>
            /\ ~ forwarded => f.kind # "End" /\ \A u \in Stages : Without(norm'[u], "End")
  <2>1. f.kind = "End" /\ forwarded
    <3>1. f.kind = "End" BY <1>2, <1>11, Classes DEF System
    <3> QED BY <1>11, <3>1
  <2> HIDE DEF f
  <2>2. ChannelTypes' BY <1>1, <1>3, <1>11 DEF ChannelTypes, NormChannels
  <2>3. Asked' BY <1>1, <1>3, <1>4, <1>11, <2>1 DEF Asked
  <2>5. ASSUME "cancel" \notin asked' PROVE StopsInOrder' /\ LinesKept'
    <3>1. StopsInOrder /\ LinesKept BY <1>3, <2>5 DEF CallInv
    <3>2. Without(norm["tail"], "End") /\ pc["tail"] \notin {"done", "failed"}
      BY <1>2, <3>1 DEF StopsInOrder, Ready
    <3>3. /\ norm["brain"] \in Seq(NormFrames) /\ norm["tail"] \in Seq(NormFrames)
          /\ <<f>> \in Seq(NormFrames)
      BY <1>1, <1>11 DEF ChannelTypes, Stages
    <3>4. norm'["tail"] = norm["tail"] \o <<f>> BY <1>11, <3>2
    <3>5. EndLast(norm'["tail"]) BY <3>2, <3>3, <3>4, EndConcat, WithoutOne
    <3>6. LinesAhead(norm["brain"]) = {} /\ ~ Without(norm["brain"], "End")
      BY <1>11, <2>1, <3>3, QueueTail, AheadTail
    <3>7. pc["svc"] = "done" BY <3>1, <3>6 DEF StopsInOrder
    <3>8. StopsInOrder' BY <1>3, <1>4, <3>1, <3>2, <3>5, <3>7 DEF StopsInOrder
    <3>9. BrainLines = {} BY <3>6 DEF BrainLines
    <3>10. Lines(norm'["tail"]) = Lines(norm["tail"]) \cup Lines(<<f>>)
      BY <3>3, <3>4, LinesConcat
    <3>11. LinesKept' BY <1>3, <3>1, <3>9, <3>10 DEF LinesKept, LinesReported
    <3> QED BY <3>8, <3>11
  <2> QED BY <1>6, <1>7, <1>8, <1>9, <2>2, <2>3, <2>5 DEF CallInv
<1> QED BY <1>1, <1>2, <1>10, <1>11, HandOn

\* What a barge-in leaves in a channel is its End.
LEMMA KeptIs ==
  ASSUME NEW s \in Stages, norm \in NormChannels
  PROVE  \/ Kept(s) = <<>> /\ Without(norm[s], "End")
         \/ Kept(s) = <<End>> /\ ~ Without(norm[s], "End")
<1>1. \A k \in 1 .. Len(norm[s]) : norm[s][k] \in NormFrames
  BY ElementOfSeq DEF NormChannels
<1>2. \A k \in 1 .. Len(norm[s]) : norm[s][k] = End <=> norm[s][k].kind = "End"
  BY <1>1, Classes
<1> QED BY <1>2 DEF Kept, Without

\* A barge-in at the brain.
LEMMA BrainInterruptionKeeps ==
  ASSUME CallInv, BrainInterruption
  PROVE  CallInv'
<1>1. ChannelTypes /\ TaskTypes /\ RecordTypes /\ Untouched /\ Asked /\ Disposed
  BY DEF CallInv
<1> DEFINE f == Received("brain")
<1>2. Ready("brain") /\ f.kind = "Interruption" /\ "brain" \in Stages /\ "tail" \in Stages
  BY DEF BrainInterruption, Stages
<1>3. sys \in SysChannels /\ norm \in NormChannels
  BY <1>1 DEF ChannelTypes, SysChannels, NormChannels
<1>4. sys["brain"] # <<>> /\ f = Head(sys["brain"]) /\ f \in SysFrames /\ pc["brain"] = "idle"
  BY <1>2, <1>3, Taken, Classes DEF System
<1>5. /\ UNCHANGED <<pump, tlock, asked, forwarded, reader, slock, events, nr, partial>>
      /\ UNCHANGED <<open, current, pushed, state, report>>
      /\ drained' = drained \cup Lines(norm["brain"])
  BY DEF BrainInterruption, Drained, netVars, endVars, sessVars, readVars, brainVars
<1>6. sys' = [sys EXCEPT !["brain"] = Tail(sys["brain"]),
                         !["tail"] = IF pc["tail"] = "done" THEN sys["tail"]
                                     ELSE Append(sys["tail"], f)]
  BY DEF BrainInterruption
<1> HIDE DEF f
<1>7. Tail(sys["brain"]) \in Seq(SysFrames) /\ Append(sys["tail"], f) \in Seq(SysFrames)
  BY <1>2, <1>3, <1>4, HeadTailProperties, AppendProperties DEF SysChannels
<1>8. /\ sys' \in SysChannels
      /\ sys'["brain"] = Tail(sys["brain"]) /\ sys'["svc"] = sys["svc"]
      /\ sys'["tail"] = sys["tail"] \/ sys'["tail"] = Append(sys["tail"], f)
  BY <1>2, <1>3, <1>6, <1>7 DEF SysChannels, Stages
<1>9. \A s \in Stages : "cancel" \in asked \/ Without(sys'[s], "Cancel")
  <2> SUFFICES ASSUME "cancel" \notin asked, NEW s \in Stages PROVE Without(sys'[s], "Cancel")
    OBVIOUS
  <2>1. \A t \in Stages : Without(sys[t], "Cancel") /\ sys[t] \in Seq(SysFrames)
    BY <1>1, <1>3 DEF Asked, SysChannels
  <2>2. Without(Tail(sys["brain"]), "Cancel") BY <1>2, <1>4, <2>1, WithoutTail
  <2>3. Append(sys["tail"], f) = sys["tail"] \o <<f>> BY <1>2, <1>4, <2>1, AppendIsConcat
  <2>4. Without(sys["tail"] \o <<f>>, "Cancel")
    <3>1. <<f>> \in Seq(SysFrames) /\ Without(<<f>>, "Cancel") BY <1>2, <1>4, WithoutOne DEF f
    <3> QED BY <1>2, <2>1, <3>1, WithoutConcat
  <2> QED BY <1>8, <2>1, <2>2, <2>3, <2>4 DEF Stages
<1>10. drained' \subseteq Numbers
  <2>1. \A k \in 1 .. Len(norm["brain"]) : norm["brain"][k] \in NormFrames
    BY <1>2, <1>3, ElementOfSeq DEF NormChannels
  <2>2. Lines(norm["brain"]) \subseteq Numbers BY <2>1, Classes DEF Lines
  <2> QED BY <1>1, <1>5, <2>2 DEF ChannelTypes
<1>11. pump # "off" BY <1>1, <1>2 DEF Untouched, Ready
<1>12. RecordTypes' BY <1>1, <1>5 DEF RecordTypes
<1>13. Untouched' BY <1>5, <1>11 DEF Untouched
<1>14. Disposed' BY <1>1, <1>5 DEF Disposed, DispositionReported
<1>15. Lines(<<>>) = {} /\ EndLast(<<>>) /\ Without(<<>>, "End") BY NothingThere
<1>16. LinesAhead(norm["brain"]) \subseteq Lines(norm["brain"])
  <2>1. norm["brain"] \in Seq(NormFrames) BY <1>2, <1>3 DEF NormChannels
  <2>2. Len(norm["brain"]) \in Nat BY <2>1, LenProperties
  <2> QED BY <2>2, AheadAreLines
<1>17. CASE Kept("brain") = <<>> /\ Without(norm["brain"], "End")
  <2>1. norm' = [norm EXCEPT !["brain"] = <<>>] /\ UNCHANGED pc
    BY <1>17 DEF BrainInterruption
  <2>2. <<>> \in Seq(NormFrames) OBVIOUS
  <2>3. /\ norm' \in NormChannels /\ norm'["brain"] = <<>>
        /\ norm'["tail"] = norm["tail"] /\ norm'["svc"] = norm["svc"]
    BY <1>3, <2>1, <2>2 DEF NormChannels, Stages
  <2>4. ChannelTypes' BY <1>1, <1>5, <1>8, <1>10, <2>3 DEF ChannelTypes, SysChannels, NormChannels
  <2>5. TaskTypes' BY <1>1, <1>5, <2>1 DEF TaskTypes
  <2>6. \A s \in Stages : forwarded \/ Without(norm'[s], "End")
    BY <1>1, <1>15, <2>3 DEF Asked, Stages
  <2>7. Asked' BY <1>1, <1>5, <1>9, <2>1, <2>6 DEF Asked
  <2>8. ASSUME "cancel" \notin asked' PROVE StopsInOrder' /\ LinesKept'
    <3>1. StopsInOrder /\ LinesKept BY <1>5, <2>8 DEF CallInv
    <3>2. StopsInOrder' BY <1>5, <1>15, <2>1, <2>3, <3>1 DEF StopsInOrder
    <3>3. BrainLines \subseteq drained' BY <1>5, <1>16 DEF BrainLines
    <3>4. LinesKept' BY <1>5, <2>3, <3>1, <3>3 DEF LinesKept, LinesReported
    <3> QED BY <3>2, <3>4
  <2> QED BY <1>12, <1>13, <1>14, <2>4, <2>5, <2>7, <2>8 DEF CallInv
<1>18. CASE Kept("brain") = <<End>> /\ ~ Without(norm["brain"], "End")
  <2> DEFINE left == [norm EXCEPT !["brain"] = <<>>]
  <2>1. norm' = Put(left, "tail", <<End>>) /\ pc' = [pc EXCEPT !["brain"] = "done"]
    <3>1. <<End>> # <<>> OBVIOUS
    <3> QED BY <1>18, <3>1 DEF BrainInterruption, Goto
  <2>2. <<>> \in Seq(NormFrames) /\ <<End>> \in Seq(NormFrames) BY Classes
  <2>3. /\ left \in NormChannels /\ left["brain"] = <<>>
        /\ left["tail"] = norm["tail"] /\ left["svc"] = norm["svc"]
    BY <1>3, <2>2 DEF NormChannels, Stages
  <2> HIDE DEF left
  <2>4. left["tail"] \o <<End>> \in Seq(NormFrames)
    BY <1>2, <2>2, <2>3, ConcatProperties DEF NormChannels
  <2>5. /\ norm' \in NormChannels /\ norm'["brain"] = <<>> /\ norm'["svc"] = norm["svc"]
        /\ norm'["tail"] = IF pc["tail"] = "done" THEN norm["tail"] ELSE norm["tail"] \o <<End>>
    BY <2>1, <2>3, <2>4 DEF NormChannels, Stages, Put
  <2>6. pc'["brain"] = "done" /\ pc'["svc"] = pc["svc"] /\ pc'["tail"] = pc["tail"]
    BY <1>1, <2>1 DEF TaskTypes, Stages
  <2>7. forwarded BY <1>1, <1>2, <1>18 DEF Asked
  <2>8. ChannelTypes' BY <1>1, <1>5, <1>8, <1>10, <2>5 DEF ChannelTypes, SysChannels, NormChannels
  <2>9. TaskTypes' BY <1>1, <1>5, <2>1, <2>6 DEF TaskTypes, Awaits, Stages
  <2>10. Asked' BY <1>1, <1>5, <1>9, <2>6, <2>7 DEF Asked
  <2>11. ASSUME "cancel" \notin asked' PROVE StopsInOrder' /\ LinesKept'
    <3>1. StopsInOrder /\ LinesKept BY <1>5, <2>11 DEF CallInv
    <3>2. Without(norm["tail"], "End") /\ pc["tail"] \notin {"done", "failed"}
      BY <1>4, <3>1 DEF StopsInOrder
    <3>3. norm["tail"] \in Seq(NormFrames) BY <1>2, <1>3 DEF NormChannels
    <3>4. norm'["tail"] = norm["tail"] \o <<End>> BY <2>5, <3>2
    <3>5. EndLast(norm'["tail"]) BY <2>2, <3>2, <3>3, <3>4, EndConcat, WithoutOne
    <3>6. pc["svc"] = "done" BY <1>18, <3>1 DEF StopsInOrder
    <3>7. StopsInOrder' BY <1>5, <1>15, <2>5, <2>6, <3>1, <3>2, <3>5, <3>6 DEF StopsInOrder
    <3>8. Lines(norm'["tail"]) = Lines(norm["tail"]) \cup Lines(<<End>>)
      BY <2>2, <3>3, <3>4, LinesConcat
    <3>9. BrainLines \subseteq drained' BY <1>5, <1>16 DEF BrainLines
    <3>10. LinesKept' BY <1>5, <3>1, <3>8, <3>9 DEF LinesKept, LinesReported
    <3> QED BY <3>7, <3>10
  <2> QED BY <1>12, <1>13, <1>14, <2>8, <2>9, <2>10, <2>11 DEF CallInv
<1> QED BY <1>2, <1>3, <1>17, <1>18, KeptIs

\* A normal frame that is taken.
LEMMA TakeNormal ==
  ASSUME ChannelTypes, Asked, NEW s \in Stages, Ready(s), Received(s).kind \notin System, Receive(s)
  PROVE  /\ Received(s) \in NormFrames /\ sys' = sys /\ norm' \in NormChannels
         /\ norm[s] # <<>> /\ Received(s) = Head(norm[s])
         /\ norm' = [norm EXCEPT ![s] = Tail(norm[s])]
         /\ ~ forwarded =>
              Received(s).kind # "End" /\ \A u \in Stages : Without(norm'[u], "End")
<1>1. sys \in SysChannels /\ norm \in NormChannels
  BY DEF ChannelTypes, SysChannels, NormChannels
<1>2. /\ norm[s] # <<>> /\ Received(s) = Head(norm[s]) /\ Received(s) \in NormFrames
      /\ NormLeft(s) = [norm EXCEPT ![s] = Tail(norm[s])] /\ SysLeft(s) = sys
      /\ NormLeft(s) \in NormChannels
  BY <1>1, Taken, Classes
<1>3. sys' = sys /\ norm' = [norm EXCEPT ![s] = Tail(norm[s])] /\ norm' \in NormChannels
  BY <1>2 DEF Receive
<1>4. ASSUME ~ forwarded
      PROVE  Received(s).kind # "End" /\ \A u \in Stages : Without(norm'[u], "End")
  <2>1. \A u \in Stages : Without(norm[u], "End") /\ norm[u] \in Seq(NormFrames)
    BY <1>1, <1>4 DEF Asked, NormChannels
  <2>2. Without(Tail(norm[s]), "End") /\ Received(s).kind # "End"
    BY <1>2, <2>1, WithoutTail
  <2>3. \A u \in Stages : norm'[u] = IF u = s THEN Tail(norm[s]) ELSE norm[u]
    BY <1>1, <1>3 DEF NormChannels
  <2> QED BY <2>1, <2>2, <2>3
<1> QED BY <1>2, <1>3, <1>4

\* The tail takes a line into the transcript, or has speech to send.
LEMMA TailRecvKeeps ==
  ASSUME CallInv, TailRecv
  PROVE  CallInv'
<1>1. ChannelTypes /\ TaskTypes /\ RecordTypes /\ Untouched /\ Asked /\ Disposed
  BY DEF CallInv
<1> DEFINE f == Received("tail")
<1>2. Ready("tail") /\ f.kind \in {"line", "usage", "speech"} /\ Receive("tail") /\ "tail" \in Stages
  BY DEF TailRecv, Stages
<1>3. /\ UNCHANGED <<pump, tlock, asked, forwarded, reader, slock, events, nr, partial>>
      /\ UNCHANGED <<open, current, pushed, drained, report>>
      /\ state' = IF f.kind = "line" THEN [state EXCEPT !.lines = state.lines \cup {f.nr}] ELSE state
      /\ pc' = [pc EXCEPT !["tail"] = IF f.kind = "speech" THEN "send" ELSE "idle"]
  BY DEF TailRecv, Goto, netVars, endVars, sessVars, readVars, brainVars
<1>4. /\ f \in NormFrames /\ sys' = sys /\ norm' \in NormChannels
      /\ norm["tail"] # <<>> /\ f = Head(norm["tail"])
      /\ norm' = [norm EXCEPT !["tail"] = Tail(norm["tail"])]
      /\ ~ forwarded => \A u \in Stages : Without(norm'[u], "End")
  <2>1. f.kind \notin System BY <1>2 DEF System
  <2> QED BY <1>1, <1>2, <2>1, TakeNormal
<1> HIDE DEF f
<1>5. norm'["tail"] = Tail(norm["tail"]) /\ norm'["brain"] = norm["brain"]
  BY <1>1, <1>4 DEF ChannelTypes, Stages
<1>6. /\ pc["tail"] = "idle" /\ pc'["svc"] = pc["svc"] /\ pc'["brain"] = pc["brain"]
      /\ pc'["tail"] \in {"send", "idle"}
  BY <1>1, <1>2, <1>3 DEF TaskTypes, Stages, Ready
<1>7. f.nr \in Numbers BY <1>2, <1>4, Classes
<1>8. /\ state' \in [lines : SUBSET Numbers, disposition : BOOLEAN]
      /\ state'.disposition = state.disposition
      /\ state'.lines = IF f.kind = "line" THEN state.lines \cup {f.nr} ELSE state.lines
  BY <1>1, <1>3, <1>7 DEF RecordTypes
<1>9. pump # "off" BY <1>1, <1>2 DEF Untouched, Ready
<1>10. ChannelTypes' BY <1>1, <1>3, <1>4 DEF ChannelTypes, NormChannels
<1>11. TaskTypes' BY <1>1, <1>3, <1>6 DEF TaskTypes, Awaits, Stages
<1>12. RecordTypes' BY <1>1, <1>3, <1>8 DEF RecordTypes
<1>13. Untouched' BY <1>3, <1>9 DEF Untouched
<1>14. Asked'
  <2>1. ASSUME NEW s \in Stages
        PROVE  /\ "cancel" \in asked' \/ Without(sys'[s], "Cancel")
               /\ forwarded' \/ Without(norm'[s], "End")
               /\ pc'[s] \in {"failed", "done"} => forwarded'
    BY <1>1, <1>3, <1>4, <1>6 DEF Asked, Stages
  <2>2. report'.phase # "none" <=> pc'["tail"] = "done" BY <1>1, <1>3, <1>6 DEF Asked
  <2> QED BY <1>1, <1>3, <2>1, <2>2 DEF Asked
<1>15. Disposed' BY <1>1, <1>3, <1>8 DEF Disposed, DispositionReported
<1>16. ASSUME "cancel" \notin asked' PROVE StopsInOrder' /\ LinesKept'
  <2>1. StopsInOrder /\ LinesKept BY <1>3, <1>16 DEF CallInv
  <2>2. norm["tail"] \in Seq(NormFrames) BY <1>1 DEF ChannelTypes, Stages
  <2>3. /\ EndLast(norm'["tail"])
        /\ Without(norm["tail"], "End") => Without(norm'["tail"], "End")
    BY <1>4, <1>5, <2>1, <2>2, QueueTail DEF StopsInOrder
  <2>4. StopsInOrder' BY <1>3, <1>5, <1>6, <2>1, <2>3 DEF StopsInOrder
  <2>5. Lines(norm["tail"]) = Lines(<<f>>) \cup Lines(norm'["tail"])
    BY <1>4, <1>5, <2>2, QueueTail
  <2>6. Lines(<<f>>) \cup state.lines = state'.lines BY <1>8, LinesOne
  <2>7. LinesReported' BY <1>3, <2>1 DEF LinesKept, LinesReported
  <2>8. BrainLines' = BrainLines BY <1>5, <1>6 DEF BrainLines
  <2>9. LinesKept' BY <1>3, <1>5, <2>1, <2>5, <2>6, <2>7, <2>8 DEF LinesKept
  <2> QED BY <2>4, <2>9
<1> QED BY <1>10, <1>11, <1>12, <1>13, <1>14, <1>15, <1>16 DEF CallInv

\* A barge-in at the tail.
LEMMA TailInterruptionKeeps ==
  ASSUME CallInv, TailInterruption
  PROVE  CallInv'
<1>1. ChannelTypes /\ TaskTypes /\ RecordTypes /\ Untouched /\ Asked /\ Disposed
  BY DEF CallInv
<1>2. Ready("tail") /\ Received("tail").kind = "Interruption" /\ "tail" \in Stages
  BY DEF TailInterruption, Stages
<1>3. sys \in SysChannels /\ norm \in NormChannels
  BY <1>1 DEF ChannelTypes, SysChannels, NormChannels
<1>4. sys["tail"] # <<>> /\ pc["tail"] = "idle"
  BY <1>2, <1>3, Taken, Classes DEF System
<1>5. /\ UNCHANGED <<pump, tlock, asked, forwarded, reader, slock, events, nr, partial>>
      /\ UNCHANGED <<open, current, pushed, state, report>>
      /\ drained' = drained \cup Lines(norm["tail"])
      /\ pc' = [pc EXCEPT !["tail"] = "send"]
      /\ sys' = [sys EXCEPT !["tail"] = Tail(sys["tail"])]
      /\ norm' = [norm EXCEPT !["tail"] = Kept("tail")]
  BY DEF TailInterruption, Drained, Goto, netVars, endVars, sessVars, readVars, brainVars
<1>6. Tail(sys["tail"]) \in Seq(SysFrames)
  BY <1>2, <1>3, <1>4, HeadTailProperties DEF SysChannels
<1>7. /\ sys' \in SysChannels
      /\ \A s \in Stages : sys'[s] = IF s = "tail" THEN Tail(sys["tail"]) ELSE sys[s]
  BY <1>2, <1>3, <1>5, <1>6 DEF SysChannels
<1>8. \A s \in Stages : "cancel" \in asked \/ Without(sys'[s], "Cancel")
  <2> SUFFICES ASSUME "cancel" \notin asked, NEW s \in Stages PROVE Without(sys'[s], "Cancel")
    OBVIOUS
  <2>1. \A t \in Stages : Without(sys[t], "Cancel") /\ sys[t] \in Seq(SysFrames)
    BY <1>1, <1>3 DEF Asked, SysChannels
  <2>2. Without(Tail(sys["tail"]), "Cancel") BY <1>2, <1>4, <2>1, WithoutTail
  <2> QED BY <1>7, <2>1, <2>2
<1>9. /\ Kept("tail") \in Seq(NormFrames) /\ EndLast(Kept("tail"))
      /\ Without(norm["tail"], "End") => Without(Kept("tail"), "End")
  <2>1. <<>> \in Seq(NormFrames) /\ <<End>> \in Seq(NormFrames) BY Classes
  <2> QED BY <1>2, <1>3, <2>1, KeptIs, NothingThere, WithoutOne
<1>10. /\ norm' \in NormChannels /\ norm'["tail"] = Kept("tail")
       /\ norm'["brain"] = norm["brain"] /\ norm'["svc"] = norm["svc"]
  BY <1>3, <1>5, <1>9 DEF NormChannels, Stages
<1>11. pc'["tail"] = "send" /\ pc'["svc"] = pc["svc"] /\ pc'["brain"] = pc["brain"]
  BY <1>1, <1>5 DEF TaskTypes, Stages
<1>12. drained' \subseteq Numbers
  <2>1. \A k \in 1 .. Len(norm["tail"]) : norm["tail"][k] \in NormFrames
    BY <1>2, <1>3, ElementOfSeq DEF NormChannels
  <2>2. Lines(norm["tail"]) \subseteq Numbers BY <2>1, Classes DEF Lines
  <2> QED BY <1>1, <1>5, <2>2 DEF ChannelTypes
<1>13. pump # "off" BY <1>1, <1>2 DEF Untouched, Ready
<1>14. ChannelTypes'
  BY <1>1, <1>5, <1>7, <1>10, <1>12 DEF ChannelTypes, SysChannels, NormChannels
<1>15. TaskTypes' BY <1>1, <1>5, <1>11 DEF TaskTypes, Awaits, Stages
<1>16. RecordTypes' BY <1>1, <1>5 DEF RecordTypes
<1>17. Untouched' BY <1>5, <1>13 DEF Untouched
<1>18. Asked'
  <2>1. ASSUME NEW s \in Stages
        PROVE  /\ forwarded' \/ Without(norm'[s], "End")
               /\ pc'[s] \in {"failed", "done"} => forwarded'
    BY <1>1, <1>5, <1>9, <1>10, <1>11 DEF Asked, Stages
  <2>2. report'.phase # "none" <=> pc'["tail"] = "done" BY <1>1, <1>4, <1>5, <1>11 DEF Asked
  <2> QED BY <1>1, <1>5, <1>8, <2>1, <2>2 DEF Asked
<1>19. Disposed' BY <1>1, <1>5 DEF Disposed, DispositionReported
<1>20. ASSUME "cancel" \notin asked' PROVE StopsInOrder' /\ LinesKept'
  <2>1. StopsInOrder /\ LinesKept BY <1>5, <1>20 DEF CallInv
  <2>2. StopsInOrder' BY <1>5, <1>9, <1>10, <1>11, <2>1 DEF StopsInOrder
  <2>3. BrainLines' = BrainLines BY <1>10, <1>11 DEF BrainLines
  <2>4. LinesKept' BY <1>5, <1>10, <2>1, <2>3 DEF LinesKept, LinesReported
  <2> QED BY <2>2, <2>4
<1> QED BY <1>14, <1>15, <1>16, <1>17, <1>18, <1>19, <1>20 DEF CallInv

\* Finalize takes its snapshot: what was pushed is in the transcript by then, or drained.
LEMMA TailStopKeeps ==
  ASSUME CallInv, TailStop
  PROVE  CallInv'
<1>1. ChannelTypes /\ TaskTypes /\ RecordTypes /\ Untouched /\ Asked /\ Disposed
  BY DEF CallInv
<1>2. /\ UNCHANGED <<pump, tlock, asked, forwarded, reader, slock, events, nr, partial>>
      /\ UNCHANGED <<open, current, pushed, drained, state>>
      /\ pc' = [pc EXCEPT !["tail"] = "done"]
      /\ report' = [phase |-> "recording", lines |-> state.lines,
                    disposition |-> state.disposition, uploads |-> {}]
      /\ "tail" \in Stages
  BY DEF TailStop, Goto, netVars, endVars, sessVars, readVars, brainVars, Stages
<1>3. pc'["tail"] = "done" /\ pc'["svc"] = pc["svc"] /\ pc'["brain"] = pc["brain"]
  BY <1>1, <1>2 DEF TaskTypes, Stages
<1>4. /\ report' \in Reports /\ report'.phase = "recording" /\ report'.lines = state.lines
      /\ report'.disposition = state.disposition
  BY <1>1, <1>2 DEF RecordTypes, Reports
<1>5. pc["tail"] \in {"idle", "failed"} BY DEF TailStop, Ready
<1>6. pump # "off" BY <1>1, <1>2 DEF TailStop, Untouched, Ready
<1>7. TaskTypes' BY <1>1, <1>2, <1>3, <1>5 DEF TaskTypes, Awaits, Stages
<1>8. RecordTypes' BY <1>1, <1>2, <1>4 DEF RecordTypes
<1>9. Untouched' BY <1>2, <1>6 DEF Untouched
<1>10. Disposed' BY <1>1, <1>2, <1>4 DEF Disposed, DispositionReported
<1>11. ASSUME forwarded, sys' \in SysChannels, norm' \in NormChannels,
              \A s \in Stages : "cancel" \in asked \/ Without(sys'[s], "Cancel"),
              "cancel" \notin asked =>
                 pc["brain"] = "done" /\ norm'["tail"] = <<>> /\ Lines(norm["tail"]) = {}
       PROVE  CallInv'
  <2>1. ChannelTypes' BY <1>1, <1>2, <1>11 DEF ChannelTypes, SysChannels, NormChannels
  <2>2. Asked'
    <3>1. report'.phase # "none" <=> pc'["tail"] = "done" BY <1>3, <1>4
    <3>2. forwarded' /\ asked' # {} BY <1>1, <1>2, <1>11 DEF Asked
    <3>3. \A s \in Stages : "cancel" \in asked' \/ Without(sys'[s], "Cancel") BY <1>2, <1>11
    <3> QED BY <3>1, <3>2, <3>3 DEF Asked
  <2>3. ASSUME "cancel" \notin asked' PROVE StopsInOrder' /\ LinesKept'
    <3>1. StopsInOrder /\ LinesKept BY <1>2, <2>3 DEF CallInv
    <3>2. pc["brain"] = "done" /\ norm'["tail"] = <<>> /\ Lines(norm["tail"]) = {}
      BY <1>2, <1>11, <2>3
    <3>3. StopsInOrder' BY <1>2, <1>3, <3>1, <3>2, NothingThere DEF StopsInOrder
    <3>4. pushed \subseteq state.lines \cup drained BY <3>1, <3>2 DEF LinesKept, BrainLines
    <3>5. LinesKept' BY <1>2, <1>4, <3>4 DEF LinesKept, LinesReported
    <3> QED BY <3>3, <3>5
  <2> QED BY <1>7, <1>8, <1>9, <1>10, <2>1, <2>2, <2>3 DEF CallInv
<1>12. "cancel" \notin asked => StopsInOrder BY DEF CallInv
<1>13. sys \in SysChannels /\ norm \in NormChannels
  BY <1>1 DEF ChannelTypes, SysChannels, NormChannels
<1>14. CASE pc["tail"] = "failed" /\ UNCHANGED <<sys, norm>>
  <2>1. forwarded BY <1>1, <1>2, <1>14 DEF Asked
  <2>2. "cancel" \notin asked => pc["brain"] = "done" /\ norm["tail"] = <<>>
    BY <1>12, <1>14 DEF StopsInOrder
  <2>3. \A s \in Stages : "cancel" \in asked \/ Without(sys'[s], "Cancel")
    BY <1>1, <1>14 DEF Asked
  <2> QED BY <1>11, <1>13, <1>14, <2>1, <2>2, <2>3, NothingThere
<1>15. CASE Ready("tail") /\ Received("tail").kind = "Cancel" /\ Receive("tail")
  <2>1. /\ SysOnly /\ sys["tail"] # <<>> /\ Received("tail") = Head(sys["tail"])
    BY <1>1, <1>2, <1>15, TakeKeeps DEF System
  <2>2. "cancel" \in asked
    <3>1. sys["tail"] \in Seq(SysFrames) BY <1>2, <1>13 DEF SysChannels
    <3>2. ~ Without(sys["tail"], "Cancel") BY <1>15, <2>1, <3>1, WithoutTail
    <3> QED BY <1>1, <1>2, <3>2 DEF Asked
  <2>3. forwarded BY <1>1, <2>2 DEF Asked
  <2> QED BY <1>11, <1>13, <2>1, <2>2, <2>3 DEF SysOnly
<1>16. CASE Ready("tail") /\ Received("tail").kind = "End" /\ Receive("tail")
  <2>1. /\ sys' = sys /\ norm' \in NormChannels
        /\ norm["tail"] # <<>> /\ Received("tail") = Head(norm["tail"])
        /\ norm' = [norm EXCEPT !["tail"] = Tail(norm["tail"])] /\ forwarded
    BY <1>1, <1>2, <1>16, TakeNormal DEF System
  <2>2. norm["tail"] \in Seq(NormFrames) BY <1>2, <1>13 DEF NormChannels
  <2>3. norm'["tail"] = Tail(norm["tail"]) /\ norm'["brain"] = norm["brain"]
    BY <1>13, <2>1 DEF NormChannels, Stages
  <2>4. ASSUME "cancel" \notin asked
        PROVE  pc["brain"] = "done" /\ norm'["tail"] = <<>> /\ Lines(norm["tail"]) = {}
    <3>1. EndLast(norm["tail"]) BY <1>12, <2>4 DEF StopsInOrder
    <3>2. /\ ~ Without(norm["tail"], "End") /\ Tail(norm["tail"]) = <<>>
          /\ Lines(norm["tail"]) = Lines(<<Head(norm["tail"])>>) \cup Lines(Tail(norm["tail"]))
      BY <1>16, <2>1, <2>2, <3>1, QueueTail
    <3>3. Lines(<<Head(norm["tail"])>>) = {} BY <1>16, <2>1, LinesOne
    <3>4. pc["brain"] = "done" BY <1>12, <2>4, <3>2 DEF StopsInOrder
    <3> QED BY <2>3, <3>2, <3>3, <3>4, NothingThere
  <2>5. \A s \in Stages : "cancel" \in asked \/ Without(sys'[s], "Cancel")
    BY <1>1, <2>1 DEF Asked
  <2> QED BY <1>11, <1>13, <2>1, <2>4, <2>5
<1> QED BY <1>14, <1>15, <1>16 DEF TailStop

-----------------------------------------------------------------------------
(* The theorems.                                                           *)

\* Before anything has happened the invariant holds.
LEMMA CallInvInit == Init => CallInv
<1> SUFFICES ASSUME Init PROVE CallInv
  OBVIOUS
<1>1. <<>> \in Seq(SysFrames) /\ <<>> \in Seq(NormFrames) /\ <<>> \in Seq(Events)
  OBVIOUS
<1>2. \A s \in Stages : sys[s] = <<>> /\ norm[s] = <<>> /\ pc[s] = "idle"
  BY DEF Init
<1>3. "svc" \in Stages /\ "brain" \in Stages /\ "tail" \in Stages
  BY DEF Stages
<1>4. ChannelTypes BY <1>1, RealtimeAssumption DEF Init, ChannelTypes, Numbers
<1>5. TaskTypes BY <1>2, <1>3, RealtimeAssumption DEF Init, TaskTypes, Awaits
<1>6. RecordTypes BY DEF Init, RecordTypes, NoReport, Reports
<1>7. Untouched BY <1>2 DEF Init, Untouched
<1>8. Asked BY <1>2, <1>3, NothingThere DEF Init, Asked, NoReport
<1>9. Disposed /\ LinesKept
  BY DEF Init, Disposed, DispositionReported, LinesKept, LinesReported, NoReport
<1>10. StopsInOrder BY <1>2, <1>3, NothingThere DEF Init, StopsInOrder
<1> QED BY <1>4, <1>5, <1>6, <1>7, <1>8, <1>9, <1>10 DEF CallInv

\* Every step keeps the invariant.
LEMMA CallInvStep == CallInv /\ [Next]_vars => CallInv'
<1> SUFFICES ASSUME CallInv, [Next]_vars PROVE CallInv'
  OBVIOUS
<1>1. CASE UNCHANGED vars
  BY <1>1 DEF vars, netVars, endVars, sessVars, readVars, brainVars, doneVars, CallInv,
              ChannelTypes, TaskTypes, RecordTypes, Untouched, Asked, Disposed,
              DispositionReported, StopsInOrder, LinesKept, LinesReported, BrainLines
<1>2. CASE Quiet BY <1>2, QuietKeeps
<1>3. CASE ConnectFails BY <1>3, ConnectFailsKeeps
<1>4. CASE HeadEnd BY <1>4, HeadEndKeeps
<1>5. CASE ReaderEvent BY <1>5, ReaderEventKeeps
<1>6. CASE SvcStop BY <1>6, SvcStopKeeps
<1>7. CASE BrainForward BY <1>7, BrainForwardKeeps
<1>8. CASE BrainStop BY <1>8, BrainStopKeeps
<1>9. CASE BrainInterruption BY <1>9, BrainInterruptionKeeps
<1>10. CASE TailRecv BY <1>10, TailRecvKeeps
<1>11. CASE TailInterruption BY <1>11, TailInterruptionKeeps
<1>12. CASE TailStop BY <1>12, TailStopKeeps
<1> QED
  BY <1>1, <1>2, <1>3, <1>4, <1>5, <1>6, <1>7, <1>8, <1>9, <1>10, <1>11, <1>12 DEF Next, Quiet

\* The report of a call is true for any number of events and however the tasks interleave:
\* it has every line that was pushed before the service stopped and no barge-in drained,
\* unless the call was cancelled,
\* and the disposition of a brain that has ended it (FinalizeProcessor::stop).
THEOREM ReportTrue == Spec => []ReportWhole
<1>1. CallInv => ReportWhole
  <2> SUFFICES ASSUME CallInv PROVE ReportWhole
    OBVIOUS
  <2>1. ChannelTypes /\ TaskTypes /\ RecordTypes /\ Asked /\ Disposed
    BY DEF CallInv
  <2>2. ASSUME NEW s \in Stages, NEW k \in 1 .. Len(norm[s]) PROVE norm[s][k].kind \notin System
    <3>1. norm[s] \in Seq(NormFrames) BY <2>1 DEF ChannelTypes
    <3>2. norm[s][k] \in NormFrames BY <3>1, ElementOfSeq
    <3> QED BY <3>2, Classes
  <2>3. RealtimeTypeOK
    BY <2>1, <2>2 DEF RealtimeTypeOK, ChannelTypes, TaskTypes, RecordTypes, Numbers
  <2>4. LinesReported BY DEF CallInv, LinesKept, LinesReported
  <2>5. DispositionReported BY <2>1 DEF Disposed
  <2> QED BY <2>3, <2>4, <2>5 DEF ReportWhole
<1> QED BY <1>1, CallInvInit, CallInvStep, PTL DEF Spec

\* The call implements the safety part of its contract: nobody's request is forgotten, the
\* report begins once, only after a request, and is completed once (FinalizeProcessor).
THEOREM CallKeepsContract == Spec => Call!Spec
<1> DEFINE Phase == CASE report.phase = "none" -> "live" [] report.phase = "done" -> "completed"
                      [] OTHER -> "reporting"
<1>1. Init => Call!Init
  BY DEF Init, NoReport, Call!Init
<1>2. CallInv /\ CallInv' /\ [Next]_vars => [Call!Next]_<<asked, Phase>>
  <2> SUFFICES ASSUME CallInv, CallInv', [Next]_vars PROVE Call!Next \/ UNCHANGED <<asked, Phase>>
    OBVIOUS
  <2>1. ASSUME NEW p \in Parties, Ask(p), UNCHANGED report
        PROVE  Call!Next \/ UNCHANGED <<asked, Phase>>
    BY <2>1 DEF Ask, Call!Next, Call!Want
  <2>2. ASSUME UNCHANGED <<asked, report>> PROVE UNCHANGED <<asked, Phase>>
    BY <2>2
  <2>3. CASE TailStop
    <3>1. /\ asked' = asked /\ report'.phase = "recording" /\ pc["tail"] \in {"idle", "failed"}
          /\ report' = [phase |-> "recording", lines |-> state.lines,
                        disposition |-> state.disposition, uploads |-> {}]
      BY <2>3 DEF TailStop, endVars, Ready
    <3>2. report.phase = "none" BY <3>1 DEF CallInv, Asked
    <3>3. asked' # {}
      <4>1. Asked' BY DEF CallInv
      <4>2. pc'["tail"] = "done" BY <3>1, <4>1 DEF Asked
      <4> QED BY <4>1, <4>2 DEF Asked, Stages
    <3>4. Phase = "live" /\ Phase' = "reporting" BY <3>1, <3>2
    <3> QED BY <3>1, <3>3, <3>4 DEF Call!Next, Call!Report
  <2>4. CASE Finalize
    <3>1. asked' = asked BY <2>4 DEF Finalize, Upload, endVars
    <3>2. \/ report.phase = "recording" /\ report'.phase = "transcript"
          \/ report.phase = "transcript" /\ report'.phase = "complete"
          \/ report.phase = "complete" /\ report'.phase = "done"
      BY <2>4 DEF Finalize, Upload, CallInv, RecordTypes, Reports
    <3>3. CASE report.phase = "complete" /\ report'.phase = "done"
      <4>1. Phase = "reporting" /\ Phase' = "completed" BY <3>3
      <4> QED BY <3>1, <4>1 DEF Call!Next, Call!Complete
    <3>4. CASE ~ (report.phase = "complete" /\ report'.phase = "done")
      BY <3>1, <3>2, <3>4
    <3> QED BY <3>3, <3>4
  <2>5. CASE ConnectFails \/ PumpStop \/ CancelTask \/ BrainEnd \/ ReaderEvent \/ SvcSend
    <3>1. UNCHANGED report
      BY <2>5 DEF ConnectFails, PumpStop, CancelTask, BrainEnd, ReaderEvent, SvcSend, doneVars
    <3>2. UNCHANGED asked \/ \E p \in Parties : Ask(p)
      BY <2>5 DEF ConnectFails, PumpStop, CancelTask, BrainEnd, ReaderEvent, HandleEvent, SvcSend,
                  Parties
    <3> QED BY <2>1, <2>2, <3>1, <3>2
  <2>6. CASE Connect \/ PumpStart \/ PumpAudio \/ HeadEnd
             \/ (\E kind \in EventKinds : ProviderEvent(kind))
             \/ ReaderPending \/ ReaderWake \/ ReaderBroadcast \/ ReaderDropped
    BY <2>2, <2>6 DEF Connect, PumpStart, PumpAudio, HeadEnd, ProviderEvent, ReaderPending,
                      ReaderWake, ReaderBroadcast, ReaderDropped, endVars, doneVars
  <2>7. CASE SvcRecv \/ SvcReprompt \/ SvcStop \/ BrainCall \/ BrainAnswer \/ BrainForward
             \/ BrainStop \/ BrainInterruption
    BY <2>2, <2>7 DEF SvcRecv, SvcReprompt, SvcStop, BrainCall, BrainAnswer, BrainForward,
                      BrainStop, BrainInterruption, endVars, doneVars
  <2>8. CASE TailRecv \/ TailInterruption \/ TailSend \/ UNCHANGED vars
    BY <2>2, <2>8 DEF TailRecv, TailInterruption, TailSend, vars, endVars, doneVars
  <2> QED BY <2>3, <2>4, <2>5, <2>6, <2>7, <2>8 DEF Next, Over
<1> QED BY <1>1, <1>2, CallInvInit, CallInvStep, PTL DEF Spec, Call!Spec
=============================================================================
