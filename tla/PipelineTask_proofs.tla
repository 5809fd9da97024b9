------------------------ MODULE PipelineTask_proofs ------------------------
(***************************************************************************)
(* Proofs about PipelineTask: run() implements the chain of ProcessorChain *)
(* that it drives, what is proved of every chain holds of every task, and  *)
(* a task that is stopped when done drains.                                *)
(***************************************************************************)
EXTENDS PipelineTask, ProcessorChain_proofs, FiniteSetTheorems

TaskTypes ==
  /\ TaskTypeOK
  /\ queue \in Seq(Kinds) /\ token \in BOOLEAN /\ tapRead \in Nat
  /\ phase = "sending" => sending \in Queued \cup {"Cancel"}
  /\ \A k \in 1 .. Len(queue) : queue[k] \in Queued \cup {"Cancel"}

\* The Sink shows Start only when it has started, and run() sends nothing but Cancel before
\* it has read that, or after the token has fired.
Handshake ==
  /\ \A k \in 1 .. Len(tap) : tap[k] = "Start" => started[Last]
  /\ phase = "sending" => started[Last]
  /\ phase = "pumping" => started[Last] \/ token

TaskInv == TypeOK /\ StartInv /\ TaskTypes /\ Handshake

\* A frame to the head is a step of the chain, if the handshake allows it.
LEMMA HeadStep ==
  ASSUME NEW kind \in Injected, ToHead(kind), started[Last] \/ kind = "Cancel"
  PROVE  Inject(kind) /\ Next
BY DEF ToHead, Inject, Next

\* What run() does is a step of the chain or leaves the chain alone.
LEMMA TaskStep ==
  ASSUME TaskInv, [TaskNext]_allVars
  PROVE  [Next]_vars
<1>1. ASSUME NEW i \in Stages, Stage(i) PROVE Next
  BY <1>1 DEF Stage, Next
<1>2. CASE ReadStart \/ StartCancelled \/ PumpQueue \/ Join \/ FireToken \/ IdleTimeout
  BY <1>2 DEF ReadStart, StartCancelled, PumpQueue, Join, FireToken, IdleTimeout
<1>3. CASE PumpCancel
  BY <1>3, HeadStep, TaskAssumption DEF PumpCancel
<1>4. CASE PumpSend
  <2>1. ToHead(sending) /\ sending \in Injected /\ started[Last]
    BY <1>4, TaskAssumption DEF PumpSend, TaskInv, TaskTypes, Handshake
  <2> QED BY <2>1, HeadStep
<1>5. CASE PumpTap
  <2>1. ToHead("Cancel") \/ UNCHANGED vars
    BY <1>5 DEF PumpTap
  <2> QED BY <2>1, HeadStep, TaskAssumption
<1>6. ASSUME NEW kind \in Queued, QueueFrame(kind) PROVE UNCHANGED vars
  BY <1>6 DEF QueueFrame
<1>7. CASE HeartbeatTick
  <2>1. ToHead("Heartbeat") /\ started[Last]
    BY <1>7 DEF HeartbeatTick, Pumping, TaskInv, Handshake
  <2> QED BY <2>1, HeadStep, TaskAssumption
<1>8. CASE UNCHANGED allVars
  BY <1>8 DEF allVars
<1> QED BY <1>1, <1>2, <1>3, <1>4, <1>5, <1>6, <1>7, <1>8 DEF TaskNext

\* The chain's own invariants hold along the steps of the task.
LEMMA ChainKept ==
  ASSUME TypeOK, StartInv, [Next]_vars
  PROVE  TypeOK' /\ StartInv'
<1>1. ASSUME NEW i \in Stages, StageStep(i), UNCHANGED injects PROVE TypeOK' /\ StartInv'
  BY <1>1, TypeStage, StartStage
<1>2. ASSUME NEW kind \in Injected, Inject(kind) PROVE TypeOK' /\ StartInv'
  BY <1>2, TypeInject, StartInject
<1>3. CASE UNCHANGED vars
  BY <1>3 DEF vars, chainVars, TypeOK, ChannelsOK, StartInv, Carried
<1> QED BY <1>1, <1>2, <1>3 DEF Next

\* The tap only grows, by one frame at a time, and Start is in it only when the Sink started.
LEMMA TapStep ==
  ASSUME TypeOK, StartInv, [Next]_vars
  PROVE  /\ \/ tap' = tap
            \/ \E kind \in Kinds : tap' = Append(tap, kind) /\ (kind = "Start" => started'[Last])
         /\ started[Last] => started'[Last]
<1>0. started \in [Stages -> BOOLEAN] /\ Last \in Stages \ Bridges
  BY ChainAssumption DEF TypeOK, Stages
<1>1. ASSUME NEW i \in Stages, StageStep(i)
      PROVE  /\ \/ tap' = tap
                \/ \E kind \in Kinds : tap' = Append(tap, kind) /\ (kind = "Start" => started'[Last])
             /\ started[Last] => started'[Last]
  <2>1. CASE RecvStart(i)
    BY <1>0, <2>1 DEF RecvStart, Tap, Kinds, System
  <2>2. CASE StopStep(i)
    <3>1. Head(cont[i]) \in Range(cont[i]) /\ Head(cont[i]).env \in Envelope
      BY <2>2, TodoFacts DEF StopStep
    <3>2. i = Last /\ Head(cont[i]).env.kind = "Start" => started[Last]
      BY <1>0, <3>1 DEF StartInv
    <3>3. Head(cont[i]).env.kind \in Kinds
      BY <3>1 DEF Envelope
    <3> QED BY <2>2, <3>2, <3>3 DEF StopStep, Tap
  <2>3. CASE i = Last /\ SinkProcess
    <3>1. Received(Last).kind \in Kinds
      BY <2>3, ReceivedOps DEF SinkProcess, ToProcessFrame, Envelope
    <3> QED BY <2>3, <3>1 DEF SinkProcess, ToProcessFrame, Tap, hookVars
  <2>4. CASE ~ RecvStart(i) /\ ~ StopStep(i) /\ ~ (i = Last /\ SinkProcess)
    <3>1. tap' = tap /\ started' = started
      BY <1>1, <2>4 DEF StageStep, RecvInterruption, RecvTerminal, UserProcess, BridgeForward,
         PushStep, DrainStep, DrainDone, ExitStep, SourceProcess, BargeIn, hookVars
    <3> QED BY <3>1
  <2> QED BY <2>1, <2>2, <2>3, <2>4
<1>2. ASSUME NEW kind \in Injected, Inject(kind) PROVE tap' = tap /\ started' = started
  BY <1>2 DEF Inject, hookVars
<1>3. CASE UNCHANGED vars
  BY <1>3 DEF vars, chainVars
<1> QED BY <1>1, <1>2, <1>3 DEF Next

\* What is known of the tap stays known of it.
LEMMA TapKept ==
  ASSUME TypeOK, StartInv, [Next]_vars, \A k \in 1 .. Len(tap) : tap[k] = "Start" => started[Last]
  PROVE  /\ tap \in Seq(Kinds) /\ Len(tap) \in Nat /\ Len(tap') \in Nat /\ Len(tap) <= Len(tap')
         /\ \A k \in 1 .. Len(tap') : tap'[k] = "Start" => started'[Last]
<1>1. tap \in Seq(Kinds) /\ Len(tap) \in Nat
  BY LenProperties DEF TypeOK
<1>2. CASE tap' = tap
  BY <1>1, <1>2, TapStep
<1>3. ASSUME NEW kind \in Kinds, tap' = Append(tap, kind), kind = "Start" => started'[Last]
      PROVE  /\ Len(tap') \in Nat /\ Len(tap) <= Len(tap')
             /\ \A k \in 1 .. Len(tap') : tap'[k] = "Start" => started'[Last]
  <2>1. /\ Len(tap') = Len(tap) + 1 /\ tap'[Len(tap) + 1] = kind
        /\ \A k \in 1 .. Len(tap) : tap'[k] = tap[k]
    BY <1>1, <1>3
  <2>2. ASSUME NEW k \in 1 .. Len(tap'), tap'[k] = "Start" PROVE started'[Last]
    <3>1. k \in 1 .. Len(tap) \/ k = Len(tap) + 1
      BY <1>1, <2>1
    <3> QED BY <1>3, <2>1, <2>2, <3>1, TapStep
  <2> QED BY <1>1, <2>1, <2>2
<1> QED BY <1>1, <1>2, <1>3, TapStep

\* A step of run() keeps the invariant.
LEMMA TaskInvStep ==
  ASSUME TaskInv, [TaskNext]_allVars
  PROVE  TaskInv'
<1>0. TypeOK /\ StartInv /\ TaskTypes /\ Handshake /\ [Next]_vars
  BY TaskStep DEF TaskInv
<1>1. TypeOK' /\ StartInv'
  BY <1>0, ChainKept
<1>2. /\ tap \in Seq(Kinds) /\ Len(tap) \in Nat /\ Len(tap') \in Nat /\ Len(tap) <= Len(tap')
      /\ \A k \in 1 .. Len(tap') : tap'[k] = "Start" => started'[Last]
      /\ started[Last] => started'[Last]
  BY <1>0, TapKept, TapStep DEF Handshake
<1>3. /\ phase \in {"starting", "pumping", "sending", "joining", "done"}
      /\ (sending = None) <=> (phase # "sending")
      /\ tapRead \in 0 .. Len(tap) /\ tapRead \in Nat
      /\ reason \in {None, "End", "Stop", "Cancel"}
      /\ queue \in Seq(Kinds) /\ token \in BOOLEAN
      /\ phase = "sending" => sending \in Queued \cup {"Cancel"}
      /\ \A k \in 1 .. Len(queue) : queue[k] \in Queued \cup {"Cancel"}
      /\ phase = "sending" => started[Last]
      /\ phase = "pumping" => started[Last] \/ token
  BY <1>0 DEF TaskTypes, TaskTypeOK, Handshake
<1>4. tapRead \in 0 .. Len(tap')
  BY <1>2, <1>3
<1>5. "Cancel" \in Kinds /\ Queued \subseteq Kinds /\ None \notin Queued \cup {"Cancel"} /\ None = "none"
  BY TaskAssumption DEF Kinds, System, Control, Data, None
<1>6. TaskInv' <=> (TypeOK' /\ StartInv' /\ TaskTypes' /\ Handshake')
  BY DEF TaskInv
<1> USE <1>1, <1>2, <1>3, <1>4, <1>6 DEF TaskTypes, TaskTypeOK, Handshake
<1>7. CASE UNCHANGED taskVars
  BY <1>7 DEF taskVars
<1>8. ASSUME NEW i \in Stages, Stage(i) PROVE TaskInv'
  BY <1>7, <1>8 DEF Stage
<1>9. CASE HeartbeatTick \/ UNCHANGED allVars
  BY <1>7, <1>9 DEF HeartbeatTick, allVars
<1>10. CASE ReadStart
  <2>1. tapRead + 1 \in 1 .. Len(tap) /\ tapRead' = tapRead + 1 /\ phase' \in {"starting", "pumping"}
    BY <1>10 DEF ReadStart
  <2>2. phase' = "pumping" => started[Last]
    BY <1>0, <1>10, <2>1 DEF ReadStart
  <2>3. UNCHANGED <<tap, queue, sending, token, reason>> /\ phase = "starting"
    BY <1>10 DEF ReadStart, vars, chainVars
  <2>4. tapRead' \in 0 .. Len(tap') /\ tapRead' \in Nat
    BY <2>1, <2>3
  <2> QED BY <2>1, <2>2, <2>3, <2>4
<1>11. CASE StartCancelled
  BY <1>11 DEF StartCancelled
<1>12. CASE PumpCancel
  BY <1>12 DEF PumpCancel
<1>13. CASE PumpQueue
  <2>1. /\ sending' = Head(queue) /\ queue' = Tail(queue) /\ queue # <<>> /\ phase' = "sending"
        /\ UNCHANGED <<tap, token, tapRead, reason>> /\ started[Last]
    BY <1>13 DEF PumpQueue, vars, chainVars
  <2>2. /\ Tail(queue) \in Seq(Kinds) /\ Len(queue) \in Nat /\ Len(queue) > 0 /\ Head(queue) = queue[1]
        /\ Len(Tail(queue)) = Len(queue) - 1
        /\ \A k \in 1 .. Len(Tail(queue)) : Tail(queue)[k] = queue[k + 1]
    BY <2>1, HeadTailProperties, LenProperties, EmptySeq
  <2>3. sending' \in Queued \cup {"Cancel"} /\ sending' # None
    BY <1>5, <2>1, <2>2
  <2>4. \A k \in 1 .. Len(Tail(queue)) : Tail(queue)[k] \in Queued \cup {"Cancel"}
    <3>1. \A k \in 1 .. Len(Tail(queue)) : k + 1 \in 1 .. Len(queue)
      BY <2>2
    <3> QED BY <2>2, <3>1
  <2> QED BY <2>1, <2>2, <2>3, <2>4
<1>14. CASE PumpSend
  BY <1>14 DEF PumpSend
<1>15. CASE PumpTap
  <2>1. /\ tapRead + 1 \in 1 .. Len(tap) /\ tapRead' = tapRead + 1 /\ phase = "pumping"
        /\ UNCHANGED <<queue, sending, token>>
    BY <1>15 DEF PumpTap
  <2>2. tapRead' \in 0 .. Len(tap') /\ tapRead' \in Nat
    BY <2>1
  <2>3. \/ UNCHANGED <<reason, phase>>
        \/ phase' = "joining" /\ reason' \in {"End", "Stop", "Cancel"}
    BY <1>15 DEF PumpTap, Terminal
  <2> QED BY <2>1, <2>2, <2>3
<1>16. CASE Join
  BY <1>16 DEF Join
<1>17. ASSUME NEW c \in Queued \cup {"Cancel"}, queue' = Append(queue, c),
              UNCHANGED <<vars, phase, sending, token, tapRead, reason>>
       PROVE  TaskInv'
  <2>1. /\ Append(queue, c) \in Seq(Kinds) /\ Len(queue) \in Nat /\ Len(Append(queue, c)) = Len(queue) + 1
        /\ \A k \in 1 .. Len(queue) : Append(queue, c)[k] = queue[k]
        /\ Append(queue, c)[Len(queue) + 1] = c
    BY <1>5
  <2>2. \A k \in 1 .. Len(queue') : queue'[k] \in Queued \cup {"Cancel"}
    <3> SUFFICES ASSUME NEW k \in 1 .. Len(queue') PROVE queue'[k] \in Queued \cup {"Cancel"}
      OBVIOUS
    <3>1. k \in 1 .. Len(queue) \/ k = Len(queue) + 1
      BY <1>17, <2>1
    <3> QED BY <1>17, <2>1, <3>1
  <2> QED BY <1>17, <2>1, <2>2
<1>18. ASSUME NEW kind \in Queued, QueueFrame(kind) PROVE TaskInv'
  BY <1>17, <1>18 DEF QueueFrame
<1>19. CASE FireToken
  BY <1>19 DEF FireToken
<1>20. CASE IdleTimeout
  BY <1>17, <1>20 DEF IdleTimeout
<1> QED BY <1>8, <1>9, <1>10, <1>11, <1>12, <1>13, <1>14, <1>15, <1>16, <1>18, <1>19, <1>20
        DEF TaskNext

\* The invariant holds when run() begins.
LEMMA TaskInvInit == TaskInit => TaskInv
<1> SUFFICES ASSUME TaskInit PROVE TaskInv
  OBVIOUS
<1>1. TypeOK /\ StartInv
  BY TypeInit, StartInit DEF TaskInit
<1>2. <<>> \in Seq(Kinds) /\ Len(<<>>) = 0 /\ 1 .. 0 = {}
  OBVIOUS
<1>3. tap = <<>> /\ queue = <<>> /\ phase = "starting" /\ sending = None /\ reason = None
      /\ tapRead = 0 /\ token = FALSE
  BY DEF TaskInit, Init
<1>4. TaskTypes
  <2>1. tapRead \in 0 .. Len(tap) /\ tapRead \in Nat BY <1>2, <1>3
  <2>2. token \in BOOLEAN BY <1>3
  <2>3. queue \in Seq(Kinds) /\ \A k \in 1 .. Len(queue) : queue[k] \in Queued \cup {"Cancel"}
    BY <1>2, <1>3
  <2> QED BY <1>3, <2>1, <2>2, <2>3 DEF TaskTypes, TaskTypeOK
<1>5. Handshake
  BY <1>2, <1>3 DEF Handshake
<1> QED BY <1>1, <1>4, <1>5 DEF TaskInv

\* run() implements the chain: whatever embedders, watchers and the token do, the stages see a
\* behaviour that ProcessorChain allows. In particular no frame but Cancel goes to the head
\* before Start has reached the Sink.
THEOREM TaskImplementsChain == TaskSpec => ChainSpec
<1>1. TaskInit => Init
  BY DEF TaskInit
<1>2. TaskSpec => []TaskInv
  BY TaskInvInit, TaskInvStep, PTL DEF TaskSpec
<1> QED BY <1>1, <1>2, TaskStep, PTL DEF TaskSpec, ChainSpec, Spec

\* The pump holds a frame exactly while it sends one, reads no further than the tap, and gives
\* on_finished a reason that a terminal frame can have.
THEOREM PumpTyped == TaskSpec => []TaskTypeOK
<1>1. TaskInv => TaskTypeOK
  BY DEF TaskInv, TaskTypes
<1> QED BY <1>1, TaskInvInit, TaskInvStep, PTL DEF TaskSpec

\* What is proved of every chain holds of every task, whoever stops it.
THEOREM TaskKeepsChain ==
  ASSUME FlatAssumption
  PROVE  TaskSpec => [](TypeOK /\ NoStaleText /\ TerminalNotLost /\ HooksInOrder)
<1>1. "Stop" \notin Injected
  BY DEF FlatAssumption
<1>2. Spec => []NoStaleText BY BargeInSilences
<1>3. Spec => []TerminalNotLost BY EndArrives
<1>4. Spec => []HooksInOrder BY <1>1, HooksRun
<1> QED BY <1>2, <1>3, <1>4, TypeCorrect, TaskImplementsChain, PTL DEF ChainSpec

-----------------------------------------------------------------------------
(* Counting texts.                                                         *)

One(x) == IF x = "Text" THEN 1 ELSE 0

\* The texts of a sequence can be counted.
LEMMA CountType ==
  ASSUME NEW s, NEW n \in Nat
  PROVE  IsFiniteSet({k \in 1 .. n : s[k] = "Text"}) /\ TextsIn(s, n) \in Nat
<1>1. IsFiniteSet(1 .. n) BY FS_Interval
<1>2. IsFiniteSet({k \in 1 .. n : s[k] = "Text"}) BY <1>1, FS_Subset
<1> QED BY <1>2, FS_CardinalityType DEF TextsIn

\* There is none in no frames,
LEMMA CountNone ==
  ASSUME NEW s
  PROVE  TextsIn(s, 0) = 0
<1>1. {k \in 1 .. 0 : s[k] = "Text"} = {} OBVIOUS
<1> QED BY <1>1, FS_EmptySet DEF TextsIn

\* one more if the next frame is one,
LEMMA CountNext ==
  ASSUME NEW s, NEW n \in Nat
  PROVE  TextsIn(s, n + 1) = TextsIn(s, n) + One(s[n + 1])
<1>1. PICK S : S = {k \in 1 .. n : s[k] = "Text"} OBVIOUS
<1>2. PICK T : T = {k \in 1 .. (n + 1) : s[k] = "Text"} OBVIOUS
<1>3. IsFiniteSet(S) /\ Cardinality(S) \in Nat BY <1>1, CountType, FS_CardinalityType
<1>4. TextsIn(s, n) = Cardinality(S) /\ TextsIn(s, n + 1) = Cardinality(T) BY <1>1, <1>2 DEF TextsIn
<1>5. CASE s[n + 1] = "Text"
  <2>1. T = S \cup {n + 1} /\ n + 1 \notin S BY <1>1, <1>2, <1>5
  <2>2. Cardinality(T) = Cardinality(S) + 1 BY <1>3, <2>1, FS_AddElement
  <2> QED BY <1>4, <1>5, <2>2 DEF One
<1>6. CASE s[n + 1] # "Text"
  <2>1. T = S BY <1>1, <1>2, <1>6
  <2> QED BY <1>3, <1>4, <1>6, <2>1 DEF One
<1> QED BY <1>5, <1>6

\* as many where the frames are the same,
LEMMA CountSame ==
  ASSUME NEW s, NEW t, NEW n \in Nat, \A k \in 1 .. n : s[k] = t[k]
  PROVE  TextsIn(s, n) = TextsIn(t, n)
<1>1. {k \in 1 .. n : s[k] = "Text"} = {k \in 1 .. n : t[k] = "Text"} OBVIOUS
<1> QED BY <1>1 DEF TextsIn

\* and no fewer in more of them.
LEMMA CountMore ==
  ASSUME NEW s, NEW n \in Nat, NEW m \in Nat, n <= m
  PROVE  TextsIn(s, n) <= TextsIn(s, m)
<1>1. PICK S : S = {k \in 1 .. n : s[k] = "Text"} OBVIOUS
<1>2. PICK T : T = {k \in 1 .. m : s[k] = "Text"} OBVIOUS
<1>3. IsFiniteSet(T) BY <1>2, CountType
<1>4. S \subseteq T BY <1>1, <1>2
<1>5. Cardinality(S) <= Cardinality(T) BY <1>3, <1>4, FS_Subset
<1> QED BY <1>1, <1>2, <1>5 DEF TextsIn

\* A frame at the end counts with the others,
LEMMA CountAppend ==
  ASSUME NEW S, NEW s \in Seq(S), NEW x \in S
  PROVE  /\ TextsIn(Append(s, x), Len(s) + 1) = TextsIn(s, Len(s)) + One(x)
         /\ \A k \in 0 .. Len(s) : TextsIn(Append(s, x), k) = TextsIn(s, k)
<1>1. PICK t : t = Append(s, x) OBVIOUS
<1>2. Len(s) \in Nat /\ t[Len(s) + 1] = x /\ \A k \in 1 .. Len(s) : t[k] = s[k]
  BY <1>1, AppendProperties, LenProperties
<1>3. ASSUME NEW k \in 0 .. Len(s) PROVE TextsIn(t, k) = TextsIn(s, k)
  <2>1. k \in Nat /\ \A j \in 1 .. k : t[j] = s[j] BY <1>2
  <2> QED BY <2>1, CountSame
<1>4. TextsIn(t, Len(s) + 1) = TextsIn(t, Len(s)) + One(x) BY <1>2, CountNext
<1>5. Len(s) \in 0 .. Len(s) BY <1>2
<1> QED BY <1>1, <1>3, <1>4, <1>5

\* and so does the first.
LEMMA CountTail ==
  ASSUME NEW S, NEW s \in Seq(S), s # <<>>
  PROVE  \A k \in 0 .. (Len(s) - 1) : TextsIn(s, k + 1) = One(Head(s)) + TextsIn(Tail(s), k)
<1>1. PICK t : t = Tail(s) OBVIOUS
<1>2. /\ Len(s) \in Nat /\ Len(t) = Len(s) - 1 /\ Head(s) = s[1]
      /\ \A k \in 1 .. Len(t) : t[k] = s[k + 1]
  BY <1>1, TailAt
<1>3. PICK T : T = {k \in Nat : k <= Len(s) - 1 => TextsIn(s, k + 1) = One(Head(s)) + TextsIn(t, k)} OBVIOUS
<1>4. 0 \in T
  <2>1. TextsIn(s, 0 + 1) = TextsIn(s, 0) + One(s[0 + 1]) BY CountNext
  <2>2. TextsIn(s, 0) = 0 /\ TextsIn(t, 0) = 0 BY CountNone
  <2>3. One(Head(s)) \in Nat BY DEF One
  <2> QED BY <1>2, <1>3, <2>1, <2>2, <2>3
<1>5. ASSUME NEW k \in Nat, k \in T PROVE k + 1 \in T
  <2> SUFFICES ASSUME k + 1 <= Len(s) - 1 PROVE TextsIn(s, (k + 1) + 1) = One(Head(s)) + TextsIn(t, k + 1)
    BY <1>3
  <2>1. TextsIn(s, k + 1) = One(Head(s)) + TextsIn(t, k) BY <1>2, <1>3, <1>5
  <2>2. TextsIn(s, (k + 1) + 1) = TextsIn(s, k + 1) + One(s[(k + 1) + 1]) BY CountNext
  <2>3. TextsIn(t, k + 1) = TextsIn(t, k) + One(t[k + 1]) BY CountNext
  <2>4. t[k + 1] = s[(k + 1) + 1] BY <1>2
  <2>5. TextsIn(t, k) \in Nat BY CountType
  <2>6. \A x : One(x) \in Nat BY DEF One
  <2>7. PICK w : w = One(s[(k + 1) + 1]) OBVIOUS
  <2>8. PICK h : h = One(Head(s)) OBVIOUS
  <2>9. w \in Nat /\ h \in Nat BY <2>6, <2>7, <2>8
  <2>10. TextsIn(s, (k + 1) + 1) = (h + TextsIn(t, k)) + w /\ TextsIn(t, k + 1) = TextsIn(t, k) + w
    BY <2>1, <2>2, <2>3, <2>4, <2>7, <2>8
  <2> QED BY <2>5, <2>8, <2>9, <2>10
<1>6. Nat \subseteq T BY <1>4, <1>5, SetInduction
<1>7. ASSUME NEW k \in 0 .. (Len(s) - 1) PROVE TextsIn(s, k + 1) = One(Head(s)) + TextsIn(t, k)
  BY <1>2, <1>3, <1>6
<1> QED BY <1>1, <1>7

-----------------------------------------------------------------------------
(* The stream of a quiet task.                                             *)

\* Nobody has interrupted, failed or asked for the end.
Quiet == gens = 0 /\ errors = 0 /\ requests = 0
Plain(e) == e.dir = "down" /\ e.kind # "Interruption"

\* What can be left to do of frame e, and whether its push is, for a frame of the normal class.
Lists(e) ==
  {<<>>, <<Push(e)>>, <<Exit(e)>>, <<Push(e), Exit(e)>>} \cup
  (IF Terminal(e.kind) THEN {<<StopHook(e), Push(e)>>, <<StopHook(e), Push(e), Exit(e)>>} ELSE {})
Owes(s) == \E k \in 1 .. Len(s) : s[k].op = "push" /\ s[k].env.kind \notin System

\* The normal frames that were sent to the head are st, of which stage i has taken n: what it
\* does is about the last of these, and what waits in its channel are the next.
Handled(i, st, n) ==
  \E e \in Envelope :
    /\ cont[i] \in Lists(e) /\ Plain(e)
    /\ cont[i] # <<>> /\ e.kind \notin System => n \in 1 .. Len(st) /\ st[n] = e.kind
Follows(i, st, n) ==
  live[i] => n + Len(norm[i]) <= Len(st) /\ \A k \in 1 .. Len(norm[i]) : norm[i][k].kind = st[n + k]

\* Each stage goes on where the next one has got to.
Linked(a) ==
  \A i \in 0 .. (Last - 1) : live[i] /\ live[i + 1] =>
    a[i + 1] + Len(norm[i + 1]) = IF Owes(cont[i]) THEN a[i] - 1 ELSE a[i]

StreamInv(st, a) ==
  /\ st \in Seq(Control \cup Data) /\ a \in [Stages -> Nat]
  /\ \A i \in Stages :
       /\ a[i] <= Len(st) /\ Handled(i, st, a[i]) /\ Follows(i, st, a[i])
       /\ \A e \in Range(sys[i]) \cup Range(norm[i]) : Plain(e)
  /\ live[0] => a[0] + Len(norm[0]) = Len(st)
  /\ Linked(a)
  /\ TextsIn(tap, Len(tap)) = TextsIn(st, a[Last])
  /\ Shown({"End"}) => \E p \in 1 .. a[Last] : st[p] = "End"

\* The kinds of the classes.
LEMMA ClassFacts ==
  /\ \A kind \in System : kind \notin Control \cup Data /\ kind # "End" /\ kind # "Text" /\ kind # "Stop"
  /\ \A kind \in Kinds : kind \notin System => kind \in Control \cup Data
  /\ \A kind \in Control \cup Data : kind \notin System /\ kind \in Kinds
  /\ \A kind : Terminal(kind) => kind # "Text" /\ kind # "Start"
  /\ Terminal("End")
BY DEF System, Control, Data, Kinds, Terminal

\* The lists, operation by operation.
LEMMA ListFacts ==
  ASSUME NEW e \in Envelope, NEW s \in Lists(e), s # <<>>
  PROVE  /\ Head(s).env = e /\ Tail(s) \in Lists(e) /\ Head(s).op \in {"push", "stop", "exit"}
         /\ Head(s).op = "push" => (Owes(s) <=> e.kind \notin System) /\ ~ Owes(Tail(s))
         /\ Head(s).op = "stop" => Terminal(e.kind) /\ (Owes(Tail(s)) <=> Owes(s))
<1> USE DEF Owes, Push, Exit, StopHook
<1>1. CASE s = <<Push(e)>>
  <2>1. Head(s) = Push(e) /\ Tail(s) = <<>> BY <1>1
  <2> QED BY <1>1, <2>1 DEF Lists
<1>2. CASE s = <<Exit(e)>>
  <2>1. Head(s) = Exit(e) /\ Tail(s) = <<>> BY <1>2
  <2> QED BY <1>2, <2>1 DEF Lists
<1>3. CASE s = <<Push(e), Exit(e)>>
  <2>1. Head(s) = Push(e) /\ Tail(s) = <<Exit(e)>> BY <1>3
  <2>2. Tail(s) \in Lists(e) BY <2>1 DEF Lists
  <2>3. Owes(s) <=> e.kind \notin System BY <1>3
  <2>4. ~ Owes(<<Exit(e)>>) OBVIOUS
  <2>5. Push(e).env = e /\ Push(e).op = "push" OBVIOUS
  <2> HIDE DEF Owes, Push, Exit
  <2> QED BY <2>1, <2>2, <2>3, <2>4, <2>5
<1>4. CASE Terminal(e.kind) /\ s = <<StopHook(e), Push(e)>>
  <2>1. Head(s) = StopHook(e) /\ Tail(s) = <<Push(e)>> BY <1>4
  <2>2. Tail(s) \in Lists(e) BY <2>1 DEF Lists
  <2>3. Owes(s) <=> e.kind \notin System BY <1>4
  <2>4. Owes(<<Push(e)>>) <=> e.kind \notin System OBVIOUS
  <2> QED BY <1>4, <2>1, <2>2, <2>3, <2>4
<1>5. CASE Terminal(e.kind) /\ s = <<StopHook(e), Push(e), Exit(e)>>
  <2>1. Head(s) = StopHook(e) /\ Tail(s) = <<Push(e), Exit(e)>> BY <1>5
  <2>2. Tail(s) \in Lists(e) BY <2>1 DEF Lists
  <2>3. Owes(s) <=> e.kind \notin System BY <1>5
  <2>4. Owes(<<Push(e), Exit(e)>>) <=> e.kind \notin System OBVIOUS
  <2> QED BY <1>5, <2>1, <2>2, <2>3, <2>4
<1> QED BY <1>1, <1>2, <1>3, <1>4, <1>5 DEF Lists

\* What a handler sets up.
LEMMA ListsSetUp ==
  ASSUME NEW e \in Envelope
  PROVE  /\ <<Push(e)>> \in Lists(e) /\ <<Push(e)>> # <<>> /\ (Owes(<<Push(e)>>) <=> e.kind \notin System)
         /\ <<Push(e), Exit(e)>> \in Lists(e) /\ <<Push(e), Exit(e)>> # <<>>
         /\ (Owes(<<Push(e), Exit(e)>>) <=> e.kind \notin System)
         /\ Terminal(e.kind) =>
              /\ TerminalOps(e) \in Lists(e) /\ TerminalOps(e) # <<>>
              /\ (Owes(TerminalOps(e)) <=> e.kind \notin System)
         /\ <<>> \in Lists(e) /\ ~ Owes(<<>>)
<1> USE DEF Owes, Push, Exit, StopHook
<1>1. Owes(<<Push(e)>>) <=> e.kind \notin System OBVIOUS
<1>2. Owes(<<Push(e), Exit(e)>>) <=> e.kind \notin System OBVIOUS
<1>3. Owes(<<StopHook(e), Push(e)>>) <=> e.kind \notin System OBVIOUS
<1>4. Owes(<<StopHook(e), Push(e), Exit(e)>>) <=> e.kind \notin System OBVIOUS
<1>5. ~ Owes(<<>>) OBVIOUS
<1>6. TerminalOps(e) \in {<<StopHook(e), Push(e)>>, <<StopHook(e), Push(e), Exit(e)>>} BY DEF TerminalOps
<1>7. <<StopHook(e), Push(e)>> # <<>> /\ <<StopHook(e), Push(e), Exit(e)>> # <<>> OBVIOUS
<1>8. <<Push(e)>> # <<>> /\ <<Push(e), Exit(e)>> # <<>> OBVIOUS
<1>9. Terminal(e.kind) => TerminalOps(e) \in Lists(e) BY <1>6 DEF Lists
<1>10. <<Push(e)>> \in Lists(e) /\ <<Push(e), Exit(e)>> \in Lists(e) /\ <<>> \in Lists(e) BY DEF Lists
<1> HIDE DEF Owes, Push, Exit, StopHook
<1> QED BY <1>1, <1>2, <1>3, <1>4, <1>5, <1>6, <1>7, <1>8, <1>9, <1>10

\* The counters do not go back.
LEMMA QuietBack ==
  ASSUME TypeOK, NEW i \in Stages, StageStep(i), Quiet'
  PROVE  Quiet
<1>1. gens \in Nat /\ requests \in Nat /\ errors \in Nat
  BY ChainAssumption DEF TypeOK
<1>2. /\ gens' = gens \/ gens' = gens + 1
      /\ requests' = requests \/ requests' = requests + 1
      /\ errors' = errors \/ errors' = errors + 1
  BY DEF StageStep, RecvStart, RecvInterruption, RecvTerminal, UserProcess, BridgeForward, PushStep,
     DrainStep, DrainDone, StopStep, ExitStep, SourceProcess, SinkProcess, BargeIn, MayFail, boundVars
<1> QED BY <1>1, <1>2 DEF Quiet

\* A handler of a quiet task passes its frame on, and the Sink shows it.
LEMMA QuietHandle ==
  ASSUME TypeOK, Consumers = {}, NEW i \in Stages, Handles(i), Quiet, Quiet', Plain(Received(i))
  PROVE  \E f \in Envelope :
           /\ f.kind = Received(i).kind /\ Plain(f) /\ cont'[i] \in Lists(f) /\ cont'[i] # <<>>
           /\ Owes(cont'[i]) <=> f.kind \notin System
           /\ \/ tap' = tap /\ (i = Last => Terminal(f.kind))
              \/ i = Last /\ ~ Terminal(f.kind) /\ tap' = Append(tap, f.kind)
<1>1. PICK e : e = Received(i) OBVIOUS
<1>2. e \in Envelope /\ Plain(e) /\ cont \in [Stages -> Seq(Op)] BY <1>1, HandlesFacts DEF TypeOK
<1>3. gens' = 0 /\ errors' = 0 /\ requests' = 0 /\ gens = 0 /\ errors = 0 /\ requests = 0 BY DEF Quiet
<1>4. Last \notin Bridges /\ Last \notin 1 .. (Last - 1) /\ Last # 0 /\ Last # Vad BY ChainAssumption
<1>5. ASSUME NEW f \in Envelope, NEW ops, Continue(i, ops) PROVE cont'[i] = ops
  BY <1>2, <1>5 DEF Continue
<1>6. CASE RecvStart(i)
  <2>1. Continue(i, <<Push(e)>>) BY <1>1, <1>3, <1>6 DEF RecvStart, MayFail
  <2>2. cont'[i] = <<Push(e)>> BY <1>2, <1>5, <2>1
  <2>3. e.kind = "Start" /\ tap' = IF i = Last THEN Append(tap, e.kind) ELSE tap BY <1>1, <1>6 DEF RecvStart, Tap
  <2> QED BY <1>1, <1>2, <2>2, <2>3, ListsSetUp, ClassFacts
<1>7. CASE RecvInterruption(i) BY <1>1, <1>2, <1>7 DEF RecvInterruption, Plain
<1>8. CASE RecvTerminal(i)
  <2>1. Continue(i, TerminalOps(e)) /\ Terminal(e.kind) /\ tap' = tap BY <1>1, <1>8 DEF RecvTerminal
  <2>2. cont'[i] = TerminalOps(e) BY <1>2, <1>5, <2>1
  <2> QED BY <1>1, <1>2, <2>1, <2>2, ListsSetUp
<1>9. CASE UserProcess(i)
  <2>1. PICK f : f = Forwarded(i, e) OBVIOUS
  <2>2. f.kind = e.kind /\ f.dir = e.dir BY <1>2, <2>1, ForwardedFacts
  <2>3. f \in Envelope
    <3>1. gens \in 0 .. MaxGen BY DEF TypeOK
    <3> QED BY <1>2, <2>1, <3>1 DEF Forwarded, Envelope
  <2>4. Continue(i, <<Push(f)>>) /\ tap' = tap /\ i \in 1 .. (Last - 1) BY <1>1, <1>3, <1>9, <2>1 DEF UserProcess
  <2>5. cont'[i] = <<Push(f)>> BY <1>2, <1>5, <2>4
  <2>6. Plain(f) BY <1>2, <2>2 DEF Plain
  <2> QED BY <1>1, <1>4, <2>2, <2>3, <2>4, <2>5, <2>6, ListsSetUp
<1>10. CASE BridgeForward(i)
  <2>1. tap' = tap /\ i # Last BY <1>4, <1>10 DEF BridgeForward
  <2>2. cont'[i] = <<Push(e)>> \/ cont'[i] = <<Push(e), Exit(e)>> BY <1>1, <1>10, BridgeOps
  <2> QED BY <1>1, <1>2, <2>1, <2>2, ListsSetUp
<1>11. CASE i = 0 /\ SourceProcess
  <2>1. Continue(0, <<Push(IF Terminal(e.kind) THEN [e EXCEPT !.dir = "down"] ELSE e)>>) /\ tap' = tap
    BY <1>1, <1>11 DEF SourceProcess
  <2>2. [e EXCEPT !.dir = "down"] = e BY <1>2 DEF Envelope, Plain
  <2>3. cont'[i] = <<Push(e)>> BY <1>2, <1>5, <1>11, <2>1, <2>2
  <2> QED BY <1>1, <1>2, <1>4, <1>11, <2>1, <2>3, ListsSetUp
<1>12. CASE i = Last /\ SinkProcess
  <2>1. Continue(i, <<Push(e)>>) /\ tap' = Append(tap, e.kind) BY <1>1, <1>2, <1>12 DEF SinkProcess, Plain, Tap
  <2>2. ~ Terminal(e.kind) BY <1>1, <1>2, <1>12 DEF SinkProcess, ToProcessFrame, Plain
  <2>3. cont'[i] = <<Push(e)>> BY <1>2, <1>5, <2>1
  <2> QED BY <1>1, <1>2, <1>12, <2>1, <2>2, <2>3, ListsSetUp
<1>13. CASE i = Vad /\ BargeIn BY <1>3, <1>13 DEF BargeIn
<1> QED BY <1>6, <1>7, <1>8, <1>9, <1>10, <1>11, <1>12, <1>13 DEF Handles

\* A frame that is no text and no End leaves the count of the tap, and its End, alone.
LEMMA TapOther ==
  ASSUME tap \in Seq(Kinds), NEW kind \in Kinds, kind # "Text", tap' = Append(tap, kind)
  PROVE  /\ TextsIn(tap', Len(tap')) = TextsIn(tap, Len(tap))
         /\ Shown({"End"})' => Shown({"End"}) \/ kind = "End"
<1>1. /\ Len(tap') = Len(tap) + 1 /\ Range(tap') = Range(tap) \cup {kind}
  BY RangeAppend
<1>2. TextsIn(tap', Len(tap) + 1) = TextsIn(tap, Len(tap)) + One(kind)
  BY CountAppend
<1>3. TextsIn(tap, Len(tap)) \in Nat /\ One(kind) = 0 BY CountType, LenProperties DEF One
<1> QED BY <1>1, <1>2, <1>3 DEF Shown

\* A handler takes a system frame, or the next frame of the stream.
LEMMA StreamHandle ==
  ASSUME TypeOK, Consumers = {}, NEW i \in Stages, Handles(i), Quiet, Quiet', NEW st, NEW a, StreamInv(st, a)
  PROVE  \E b : StreamInv(st, b)'
<1>1. /\ ChannelsOK /\ Ready(i) /\ Receive(i) /\ Only(i) /\ cont[i] = <<>> /\ live' = live /\ live[i] = TRUE
      /\ tap \in Seq(Kinds) /\ Len(tap) \in Nat
  BY HandlesFacts, LenProperties DEF TypeOK, Ready
<1>2. PICK e : e = Received(i) OBVIOUS
<1>3. /\ e \in Envelope /\ e \in Range(sys[i]) \cup Range(norm[i])
      /\ \A j \in Stages :
           /\ j # i => sys'[j] = sys[j] /\ norm'[j] = norm[j]
           /\ Range(sys'[j]) \subseteq Range(sys[j]) /\ Range(norm'[j]) \subseteq Range(norm[j])
  BY <1>1, <1>2, ReceiveFacts
<1>4. /\ st \in Seq(Control \cup Data) /\ a \in [Stages -> Nat] /\ Len(st) \in Nat
      /\ \A j \in Stages : a[j] \in Nat /\ a[j] <= Len(st) /\ Handled(j, st, a[j]) /\ Follows(j, st, a[j])
      /\ \A j \in Stages : \A g \in Range(sys[j]) \cup Range(norm[j]) : Plain(g)
      /\ live[0] => a[0] + Len(norm[0]) = Len(st)
      /\ Linked(a)
      /\ TextsIn(tap, Len(tap)) = TextsIn(st, a[Last])
      /\ Shown({"End"}) => \E p \in 1 .. a[Last] : st[p] = "End"
  BY LenProperties DEF StreamInv
<1>5. Plain(e) BY <1>3, <1>4
<1>6. PICK f \in Envelope :
        /\ f.kind = e.kind /\ Plain(f) /\ cont'[i] \in Lists(f) /\ cont'[i] # <<>>
        /\ Owes(cont'[i]) <=> f.kind \notin System
        /\ \/ tap' = tap /\ (i = Last => Terminal(f.kind))
           \/ i = Last /\ ~ Terminal(f.kind) /\ tap' = Append(tap, f.kind)
  BY <1>2, <1>5, QuietHandle
<1>7. ~ Owes(cont[i]) BY <1>1, ListsSetUp, <1>3
<1>8. \A j \in Stages : \A g \in Range(sys'[j]) \cup Range(norm'[j]) : Plain(g) BY <1>3, <1>4
<1>9. e.kind \in Kinds /\ Last \in Stages /\ 0 \in Stages BY <1>3, StagesOK DEF Envelope
<1>10. \A j \in Stages : j # i => cont'[j] = cont[j] BY <1>1 DEF Only
<1>11. \A j \in Stages : j # i => Handled(j, st, a[j])' /\ Follows(j, st, a[j])'
  BY <1>1, <1>3, <1>4, <1>10, SMTT(40) DEF Handled, Follows
<1>12. CASE sys[i] # <<>>
  <2>1. norm' = norm /\ e = Head(sys[i]) BY <1>1, <1>2, <1>12 DEF Receive, Received
  <2>2. e.kind \in System
    <3>1. sys[i] \in Seq(Envelope) /\ \A g \in Range(sys[i]) : g.kind \in System BY <1>1 DEF ChannelsOK
    <3> QED BY <1>12, <2>1, <3>1, RangeTail
  <2>3. Handled(i, st, a[i])' BY <1>6, <2>2 DEF Handled
  <2>4. Follows(i, st, a[i])' BY <1>1, <1>4, <2>1 DEF Follows
  <2>5. Linked(a)'
    <3>1. \A j \in Stages : Owes(cont'[j]) <=> Owes(cont[j]) BY <1>6, <1>7, <1>10, <2>2
    <3>2. \A j \in 0 .. (Last - 1) : j \in Stages BY ChainAssumption DEF Stages
    <3> QED BY <1>1, <1>4, <2>1, <3>1, <3>2 DEF Linked
  <2>6. /\ TextsIn(tap', Len(tap')) = TextsIn(tap, Len(tap)) /\ (Shown({"End"})' => Shown({"End"}))
    BY <1>1, <1>6, <1>9, <2>2, TapOther, ClassFacts DEF Shown
  <2>7. StreamInv(st, a)' BY <1>1, <1>4, <1>8, <1>11, <2>1, <2>3, <2>4, <2>5, <2>6 DEF StreamInv
  <2> QED BY <2>7
<1>13. CASE sys[i] = <<>>
  <2>1. norm[i] # <<>> /\ norm' = [norm EXCEPT ![i] = Tail(@)] /\ e = Head(norm[i])
    BY <1>1, <1>2, <1>13 DEF Receive, Received, Ready
  <2>2. norm \in [Stages -> Seq(Envelope)] /\ norm[i] \in Seq(Envelope) BY <1>1 DEF ChannelsOK
  <2>3. norm'[i] = Tail(norm[i]) BY <2>1, <2>2
  <2>4. /\ Len(norm[i]) \in Nat /\ Len(norm'[i]) = Len(norm[i]) - 1 /\ e = norm[i][1] /\ 1 \in 1 .. Len(norm[i])
        /\ \A k \in 1 .. Len(norm'[i]) : k + 1 \in 1 .. Len(norm[i]) /\ norm'[i][k] = norm[i][k + 1]
    BY <2>1, <2>2, <2>3, TailAt
  <2>5. e.kind \notin System
    <3>1. \A g \in Range(norm[i]) : g.kind \notin System BY <1>1 DEF ChannelsOK
    <3> QED BY <2>1, <2>2, <3>1, RangeTail
  <2>6. /\ a[i] + Len(norm[i]) <= Len(st) /\ \A k \in 1 .. Len(norm[i]) : norm[i][k].kind = st[a[i] + k]
    BY <1>1, <1>4 DEF Follows
  <2>7. a[i] + 1 \in 1 .. Len(st) /\ st[a[i] + 1] = e.kind BY <1>4, <2>4, <2>6
  <2>8. PICK b : b = [a EXCEPT ![i] = a[i] + 1] OBVIOUS
  <2>9. b \in [Stages -> Nat] /\ b[i] = a[i] + 1 /\ \A j \in Stages : j # i => b[j] = a[j] BY <1>4, <2>8
  <2>10. Handled(i, st, b[i])' BY <1>6, <2>7, <2>9 DEF Handled
  <2>11. Follows(i, st, b[i])'
    <3>1. b[i] + Len(norm'[i]) <= Len(st) BY <1>4, <2>4, <2>6, <2>9
    <3>2. ASSUME NEW k \in 1 .. Len(norm'[i]) PROVE norm'[i][k].kind = st[b[i] + k]
      <4>1. k + 1 \in 1 .. Len(norm[i]) /\ norm'[i][k] = norm[i][k + 1] BY <2>4
      <4>2. norm[i][k + 1].kind = st[a[i] + (k + 1)] BY <2>6, <4>1
      <4>3. b[i] + k = a[i] + (k + 1) BY <1>4, <2>4, <2>9
      <4> QED BY <4>1, <4>2, <4>3
    <3> QED BY <3>1, <3>2 DEF Follows
  <2>12. b[i] + Len(norm'[i]) = a[i] + Len(norm[i])
    <3>1. a[i] \in Nat /\ Len(norm[i]) \in Nat /\ b[i] = a[i] + 1 /\ Len(norm'[i]) = Len(norm[i]) - 1 BY <1>4, <2>4, <2>9
    <3>2. \A x, y \in Nat : (x + 1) + (y - 1) = x + y OBVIOUS
    <3> QED BY <3>1, <3>2
  <2>13. Linked(b)'
    <3> SUFFICES ASSUME NEW j \in 0 .. (Last - 1), live[j], live[j + 1]
                 PROVE  b[j + 1] + Len(norm'[j + 1]) = IF Owes(cont'[j]) THEN b[j] - 1 ELSE b[j]
      BY <1>1 DEF Linked
    <3>1. a[j + 1] + Len(norm[j + 1]) = IF Owes(cont[j]) THEN a[j] - 1 ELSE a[j] BY <1>4 DEF Linked
    <3>2. j \in Stages /\ j + 1 \in Stages /\ j # j + 1 BY ChainAssumption DEF Stages
    <3>3. b[j + 1] + Len(norm'[j + 1]) = a[j + 1] + Len(norm[j + 1])
      <4>1. CASE j + 1 = i BY <2>12, <4>1
      <4>2. CASE j + 1 # i BY <1>3, <2>9, <3>2, <4>2
      <4> QED BY <4>1, <4>2
    <3>4. CASE j = i
      <4>1. Owes(cont'[j]) /\ ~ Owes(cont[j]) BY <1>6, <1>7, <2>5, <3>4
      <4>2. b[j] - 1 = a[j] BY <1>4, <2>9, <3>4
      <4> QED BY <3>1, <3>3, <4>1, <4>2
    <3>5. CASE j # i BY <1>10, <2>9, <3>1, <3>2, <3>3, <3>5
    <3> QED BY <3>4, <3>5
  <2>14. live'[0] => b[0] + Len(norm'[0]) = Len(st)
    <3>1. CASE i = 0 BY <1>1, <1>4, <2>12, <3>1
    <3>2. CASE i # 0 BY <1>1, <1>3, <1>4, <1>9, <2>9, <3>2
    <3> QED BY <3>1, <3>2
  <2>15. TextsIn(tap', Len(tap')) = TextsIn(st, b[Last]) /\ (Shown({"End"})' => \E p \in 1 .. b[Last] : st[p] = "End")
    <3>1. CASE i # Last BY <1>4, <1>6, <1>9, <2>9, <3>1 DEF Shown
    <3>2. CASE i = Last
      <4>1. TextsIn(st, b[Last]) = TextsIn(st, a[Last]) + One(e.kind)
        BY <1>4, <1>9, <2>7, <2>9, <3>2, CountNext, ZenonT(60)
      <4>2. TextsIn(st, a[Last]) \in Nat BY <1>4, <1>9, CountType
      <4>3. \A p \in 1 .. a[Last] : p \in 1 .. b[Last] BY <1>4, <1>9, <2>9, <3>2
      <4>4. CASE Terminal(e.kind)
        <5>1. tap' = tap BY <1>6, <4>4
        <5>2. One(e.kind) = 0 BY <4>4, ClassFacts DEF One
        <5> QED BY <1>4, <4>1, <4>2, <4>3, <5>1, <5>2 DEF Shown
      <4>5. CASE ~ Terminal(e.kind)
        <5>1. tap' = Append(tap, e.kind) BY <1>6, <3>2, <4>5
        <5>2. TextsIn(tap', Len(tap) + 1) = TextsIn(tap, Len(tap)) + One(e.kind) BY <1>1, <1>9, <5>1, CountAppend
        <5>3. Len(tap') = Len(tap) + 1 /\ Range(tap') = Range(tap) \cup {e.kind} BY <1>1, <1>9, <5>1, RangeAppend
        <5>4. e.kind # "End" BY <4>5, ClassFacts
        <5>5. Shown({"End"})' => Shown({"End"}) BY <5>3, <5>4 DEF Shown
        <5> QED BY <1>4, <4>1, <4>3, <5>2, <5>3, <5>5
      <4> QED BY <4>4, <4>5
    <3> QED BY <3>1, <3>2
  <2>16. \A j \in Stages : b[j] <= Len(st) /\ Handled(j, st, b[j])' /\ Follows(j, st, b[j])'
    BY <1>4, <1>11, <2>7, <2>9, <2>10, <2>11
  <2>17. StreamInv(st, b)' BY <1>4, <1>8, <2>9, <2>13, <2>14, <2>15, <2>16 DEF StreamInv
  <2> QED BY <2>17
<1> QED BY <1>12, <1>13

\* A push hands the frame to the next stage, or to nobody.
LEMMA StreamPush ==
  ASSUME TypeOK, NEW i \in Stages, PushStep(i), NEW st, NEW a, StreamInv(st, a)
  PROVE  StreamInv(st, a)'
<1>1. /\ ChannelsOK /\ Only(i) /\ cont'[i] = Tail(cont[i]) /\ live' = live /\ live[i] = TRUE /\ tap' = tap
      /\ cont[i] # <<>> /\ Head(cont[i]).op = "push"
  BY ContinueOps DEF TypeOK, PushStep, Todo
<1>2. /\ st \in Seq(Control \cup Data) /\ a \in [Stages -> Nat] /\ Len(st) \in Nat
      /\ \A j \in Stages : a[j] \in Nat /\ a[j] <= Len(st) /\ Handled(j, st, a[j]) /\ Follows(j, st, a[j])
      /\ \A j \in Stages : \A g \in Range(sys[j]) \cup Range(norm[j]) : Plain(g)
      /\ live[0] => a[0] + Len(norm[0]) = Len(st)
      /\ Linked(a)
      /\ TextsIn(tap, Len(tap)) = TextsIn(st, a[Last])
      /\ Shown({"End"}) => \E p \in 1 .. a[Last] : st[p] = "End"
  BY LenProperties DEF StreamInv
<1>3. PICK e \in Envelope :
        /\ cont[i] \in Lists(e) /\ Plain(e)
        /\ cont[i] # <<>> /\ e.kind \notin System => a[i] \in 1 .. Len(st) /\ st[a[i]] = e.kind
  BY <1>2 DEF Handled
<1>4. /\ Head(cont[i]).env = e /\ cont'[i] \in Lists(e)
      /\ (Owes(cont[i]) <=> e.kind \notin System) /\ ~ Owes(cont'[i])
  BY <1>1, <1>3, ListFacts
<1>5. Send(i + 1, e)
  <2>1. Target(i, e) = i + 1 BY <1>3 DEF Target, Plain
  <2> QED BY <1>4, <2>1 DEF PushStep
<1>6. i \in Int /\ i + 1 \in Int /\ i # i + 1 /\ i + 1 # 0 BY ChainAssumption DEF Stages
<1>7. \A j \in Stages :
        /\ j # i + 1 => sys'[j] = sys[j] /\ norm'[j] = norm[j]
        /\ Range(sys'[j]) \cup Range(norm'[j]) \subseteq Range(sys[j]) \cup Range(norm[j]) \cup {e}
  BY <1>1, <1>3, <1>5, <1>6, SendFacts
<1>8. \A j \in Stages : \A g \in Range(sys'[j]) \cup Range(norm'[j]) : Plain(g) BY <1>2, <1>3, <1>7
<1>9. \A j \in Stages : Handled(j, st, a[j])'
  <2> SUFFICES ASSUME NEW j \in Stages PROVE Handled(j, st, a[j])' OBVIOUS
  <2>1. CASE j = i BY <1>1, <1>3, <1>4, <2>1 DEF Handled
  <2>2. CASE j # i BY <1>1, <1>2, <2>2 DEF Handled, Only
  <2> QED BY <2>1, <2>2
<1>10. 0 \in Stages /\ live'[0] = live[0] /\ norm'[0] = norm[0] BY <1>1, <1>6, <1>7, StagesOK
<1>11. ASSUME NEW j \in Stages, j # i + 1 PROVE Follows(j, st, a[j])'
  <2>1. norm'[j] = norm[j] /\ live'[j] = live[j] /\ Follows(j, st, a[j]) BY <1>1, <1>2, <1>7, <1>11
  <2> QED BY <2>1 DEF Follows
<1>12. (\A j \in Stages : Follows(j, st, a[j])') /\ Linked(a)'
  <2>1. CASE ~ Open(i + 1) /\ UNCHANGED chanVars
    <3>1. \A j \in Stages : Follows(j, st, a[j])' BY <1>1, <1>2, <2>1 DEF Follows, chanVars
    <3>2. Linked(a)'
      <4> SUFFICES ASSUME NEW j \in 0 .. (Last - 1), live[j], live[j + 1]
                   PROVE  a[j + 1] + Len(norm'[j + 1]) = IF Owes(cont'[j]) THEN a[j] - 1 ELSE a[j]
        BY <1>1 DEF Linked
      <4>1. j \in Stages /\ j + 1 \in Stages BY ChainAssumption DEF Stages
      <4>2. j # i BY <2>1, <4>1 DEF Open
      <4>3. cont'[j] = cont[j] /\ norm'[j + 1] = norm[j + 1] BY <1>1, <2>1, <4>1, <4>2 DEF Only, chanVars
      <4> QED BY <1>2, <4>3, SMTT(40) DEF Linked
    <3> QED BY <3>1, <3>2
  <2>2. CASE Open(i + 1) /\ e.kind \in System /\ norm' = norm
    <3>1. \A j \in Stages : Follows(j, st, a[j])' BY <1>1, <1>2, <2>2 DEF Follows
    <3>2. \A j \in Stages : Owes(cont'[j]) <=> Owes(cont[j]) BY <1>1, <1>4, <2>2 DEF Only
    <3>3. \A j \in 0 .. (Last - 1) : j \in Stages BY ChainAssumption DEF Stages
    <3>4. Linked(a)' BY <1>1, <1>2, <2>2, <3>2, <3>3 DEF Linked
    <3> QED BY <3>1, <3>4
  <2>3. CASE Open(i + 1) /\ e.kind \notin System /\ norm' = [norm EXCEPT ![i + 1] = Append(@, e)]
    <3>1. PICK q : q = norm[i + 1] OBVIOUS
    <3>2. i + 1 \in Stages /\ live[i + 1] /\ q \in Seq(Envelope) BY <1>1, <2>3, <3>1 DEF Open, ChannelsOK
    <3>3. norm'[i + 1] = Append(q, e) BY <1>1, <2>3, <3>1, <3>2 DEF ChannelsOK
    <3>4. /\ Len(q) \in Nat /\ Len(norm'[i + 1]) = Len(q) + 1
          /\ \A k \in 1 .. Len(norm'[i + 1]) :
               \/ k \in 1 .. Len(q) /\ norm'[i + 1][k] = q[k]
               \/ k = Len(q) + 1 /\ norm'[i + 1][k] = e
      BY <1>3, <3>2, <3>3, AppendAt
    <3>5. i \in 0 .. (Last - 1) BY <3>2, ChainAssumption DEF Stages
    <3>6. a[i + 1] + Len(q) = a[i] - 1 /\ a[i] \in 1 .. Len(st) /\ st[a[i]] = e.kind
      BY <1>1, <1>2, <1>3, <1>4, <2>3, <3>1, <3>2, <3>5 DEF Linked
    <3>7. \A k \in 1 .. Len(q) : q[k].kind = st[a[i + 1] + k] BY <1>2, <3>1, <3>2 DEF Follows
    <3>8. Follows(i + 1, st, a[i + 1])'
      <4>1. a[i + 1] \in Nat /\ a[i] \in Nat BY <1>2, <3>2
      <4>2. a[i + 1] + Len(norm'[i + 1]) <= Len(st) BY <1>2, <3>4, <3>6, <4>1
      <4>3. a[i + 1] + (Len(q) + 1) = a[i] BY <3>4, <3>6, <4>1, SMTT(40)
      <4>4. \A k \in 1 .. Len(norm'[i + 1]) : norm'[i + 1][k].kind = st[a[i + 1] + k]
        BY <3>4, <3>6, <3>7, <4>3
      <4> QED BY <4>2, <4>4 DEF Follows
    <3>9. Linked(a)'
      <4> SUFFICES ASSUME NEW j \in 0 .. (Last - 1), live[j], live[j + 1]
                   PROVE  a[j + 1] + Len(norm'[j + 1]) = IF Owes(cont'[j]) THEN a[j] - 1 ELSE a[j]
        BY <1>1 DEF Linked
      <4>1. j \in Stages /\ j + 1 \in Stages BY ChainAssumption DEF Stages
      <4>2. CASE j = i
        <5>1. a[i + 1] \in Nat /\ a[i] \in Nat BY <1>2, <3>2
        <5> QED BY <1>4, <3>4, <3>6, <4>2, <5>1, SMTT(40)
      <4>3. CASE j # i
        <5>1. j + 1 # i + 1 BY <1>6, <4>3
        <5>2. cont'[j] = cont[j] /\ norm'[j + 1] = norm[j + 1] BY <1>1, <1>7, <4>1, <4>3, <5>1 DEF Only
        <5> QED BY <1>2, <5>2 DEF Linked
      <4> QED BY <4>2, <4>3
    <3> QED BY <1>11, <3>8, <3>9
  <2> QED BY <1>5, <2>1, <2>2, <2>3 DEF Send
<1> QED BY <1>1, <1>2, <1>8, <1>9, <1>10, <1>12 DEF StreamInv, Shown

\* The stop hook of the Sink shows the frame that ends the task.
LEMMA StreamStop ==
  ASSUME TypeOK, NEW i \in Stages, StopStep(i), Quiet, Quiet', NEW st, NEW a, StreamInv(st, a)
  PROVE  StreamInv(st, a)'
<1>1. /\ sys' = sys /\ norm' = norm /\ live' = live /\ cont[i] # <<>> /\ Head(cont[i]).op = "stop"
      /\ tap' = (IF i = Last THEN Append(tap, Head(cont[i]).env.kind) ELSE tap)
      /\ tap \in Seq(Kinds) /\ Len(tap) \in Nat
  BY LenProperties DEF TypeOK, StopStep, Todo, chanVars, Tap
<1>2. /\ st \in Seq(Control \cup Data) /\ a \in [Stages -> Nat] /\ Len(st) \in Nat
      /\ \A j \in Stages : a[j] \in Nat /\ a[j] <= Len(st) /\ Handled(j, st, a[j]) /\ Follows(j, st, a[j])
      /\ \A j \in Stages : \A g \in Range(sys[j]) \cup Range(norm[j]) : Plain(g)
      /\ live[0] => a[0] + Len(norm[0]) = Len(st)
      /\ Linked(a)
      /\ TextsIn(tap, Len(tap)) = TextsIn(st, a[Last])
      /\ Shown({"End"}) => \E p \in 1 .. a[Last] : st[p] = "End"
  BY LenProperties DEF StreamInv
<1>3. PICK e \in Envelope :
        /\ cont[i] \in Lists(e) /\ Plain(e)
        /\ cont[i] # <<>> /\ e.kind \notin System => a[i] \in 1 .. Len(st) /\ st[a[i]] = e.kind
  BY <1>2 DEF Handled
<1>4. /\ Head(cont[i]).env = e /\ Tail(cont[i]) \in Lists(e) /\ Terminal(e.kind)
      /\ (Owes(Tail(cont[i])) <=> Owes(cont[i]))
  BY <1>1, <1>3, ListFacts
<1>5. cont'[i] = Tail(cont[i]) /\ \A j \in Stages : j # i => cont'[j] = cont[j]
  <2>1. errors' = 0 /\ errors = 0 BY DEF Quiet
  <2>2. Continue(i, Tail(cont[i])) BY <2>1 DEF StopStep, MayFail
  <2> QED BY <2>2 DEF Continue, TypeOK
<1>6. \A j \in Stages : Handled(j, st, a[j])'
  <2> SUFFICES ASSUME NEW j \in Stages PROVE Handled(j, st, a[j])' OBVIOUS
  <2>1. CASE j = i BY <1>1, <1>3, <1>4, <1>5, <2>1 DEF Handled
  <2>2. CASE j # i BY <1>2, <1>5, <2>2 DEF Handled
  <2> QED BY <2>1, <2>2
<1>7. \A j \in Stages : Follows(j, st, a[j])' BY <1>1, <1>2 DEF Follows
<1>8. Linked(a)'
  <2>1. \A j \in Stages : Owes(cont'[j]) <=> Owes(cont[j]) BY <1>4, <1>5
  <2>2. \A j \in 0 .. (Last - 1) : j \in Stages BY ChainAssumption DEF Stages
  <2> QED BY <1>1, <1>2, <2>1, <2>2 DEF Linked
<1>9. /\ TextsIn(tap', Len(tap')) = TextsIn(st, a[Last])
      /\ Shown({"End"})' => \E p \in 1 .. a[Last] : st[p] = "End"
  <2>1. CASE i # Last BY <1>1, <1>2, <2>1 DEF Shown
  <2>2. CASE i = Last
    <3>1. tap' = Append(tap, e.kind) /\ e.kind \in Kinds /\ e.kind # "Text" BY <1>1, <1>4, <2>2, ClassFacts DEF Envelope
    <3>2. TextsIn(tap', Len(tap')) = TextsIn(tap, Len(tap)) /\ (Shown({"End"})' => Shown({"End"}) \/ e.kind = "End")
      BY <1>1, <3>1, TapOther
    <3>3. e.kind = "End" => a[Last] \in 1 .. a[Last] /\ st[a[Last]] = "End"
      <4>1. e.kind = "End" => e.kind \notin System BY ClassFacts
      <4>2. a[Last] \in Nat BY <1>2, <2>2
      <4> QED BY <1>1, <1>3, <2>2, <4>1, <4>2
    <3> QED BY <1>2, <3>2, <3>3
  <2> QED BY <2>1, <2>2
<1> QED BY <1>1, <1>2, <1>6, <1>7, <1>8, <1>9 DEF StreamInv

\* A stage that returns drops what is left.
LEMMA StreamExit ==
  ASSUME TypeOK, NEW i \in Stages, ExitStep(i), NEW st, NEW a, StreamInv(st, a)
  PROVE  StreamInv(st, a)'
<1>1. /\ ChannelsOK /\ tap' = tap /\ live' = [live EXCEPT ![i] = FALSE] /\ live \in [Stages -> BOOLEAN]
      /\ sys' = [sys EXCEPT ![i] = <<>>] /\ norm' = [norm EXCEPT ![i] = <<>>]
      /\ Only(i) /\ cont'[i] = <<>>
  BY ContinueOps DEF TypeOK, ExitStep
<1>2. /\ \A j \in Stages : j # i => sys'[j] = sys[j] /\ norm'[j] = norm[j] /\ live'[j] = live[j] /\ cont'[j] = cont[j]
      /\ Range(sys'[i]) = {} /\ Range(norm'[i]) = {} /\ live'[i] = FALSE
  BY <1>1, ExitFacts DEF Only
<1>3. /\ st \in Seq(Control \cup Data) /\ a \in [Stages -> Nat]
      /\ \A j \in Stages : a[j] <= Len(st) /\ Handled(j, st, a[j]) /\ Follows(j, st, a[j])
      /\ \A j \in Stages : \A g \in Range(sys[j]) \cup Range(norm[j]) : Plain(g)
      /\ live[0] => a[0] + Len(norm[0]) = Len(st)
      /\ Linked(a)
      /\ TextsIn(tap, Len(tap)) = TextsIn(st, a[Last])
      /\ Shown({"End"}) => \E p \in 1 .. a[Last] : st[p] = "End"
  BY DEF StreamInv
<1>4. \A j \in Stages : \A g \in Range(sys'[j]) \cup Range(norm'[j]) : Plain(g) BY <1>2, <1>3
<1>5. ASSUME NEW j \in Stages PROVE Handled(j, st, a[j])' /\ Follows(j, st, a[j])'
  <2>1. CASE j = i
    <3>1. PICK e \in Envelope : Plain(e) BY <1>3 DEF Handled
    <3>2. <<>> \in Lists(e) BY ListsSetUp
    <3> QED BY <1>1, <1>2, <2>1, <3>1, <3>2 DEF Handled, Follows
  <2>2. CASE j # i BY <1>2, <1>3, <2>2, SMTT(40) DEF Handled, Follows
  <2> QED BY <2>1, <2>2
<1>6. Linked(a)'
  <2> SUFFICES ASSUME NEW j \in 0 .. (Last - 1), live'[j], live'[j + 1]
               PROVE  a[j + 1] + Len(norm'[j + 1]) = IF Owes(cont'[j]) THEN a[j] - 1 ELSE a[j]
    BY DEF Linked
  <2>1. j \in Stages /\ j + 1 \in Stages BY ChainAssumption DEF Stages
  <2>2. j # i /\ j + 1 # i BY <1>2
  <2> QED BY <1>2, <1>3, <2>1, <2>2 DEF Linked
<1>7. live'[0] => a[0] + Len(norm'[0]) = Len(st)
  <2>1. 0 \in Stages BY StagesOK
  <2> QED BY <1>2, <1>3, <2>1
<1> QED BY <1>1, <1>3, <1>4, <1>5, <1>6, <1>7 DEF StreamInv, Shown

\* Whatever a stage does, it works off the stream.
LEMMA StreamStage ==
  ASSUME TypeOK, Consumers = {}, NEW i \in Stages, StageStep(i), Quiet, Quiet', NEW st, NEW a, StreamInv(st, a)
  PROVE  \E b : StreamInv(st, b)'
<1>1. CASE Handles(i) BY <1>1, StreamHandle
<1>2. CASE PushStep(i) BY <1>2, StreamPush
<1>3. CASE DrainStep(i) \/ DrainDone(i)
  <2>1. cont[i] # <<>> /\ Head(cont[i]).op = "drain" BY <1>3 DEF DrainStep, DrainDone, Todo
  <2>2. PICK e \in Envelope : cont[i] \in Lists(e) BY DEF StreamInv, Handled
  <2> QED BY <2>1, <2>2, ListFacts
<1>4. CASE StopStep(i) BY <1>4, StreamStop
<1>5. CASE ExitStep(i) BY <1>5, StreamExit
<1> QED BY <1>1, <1>2, <1>3, <1>4, <1>5, StageCases

\* What is true of the stream stays true when it grows.
LEMMA StreamMore ==
  ASSUME NEW st \in Seq(Control \cup Data), NEW x \in Control \cup Data, NEW j, NEW n \in 0 .. Len(st),
         Handled(j, st, n), Follows(j, st, n), norm[j] \in Seq(Envelope)
  PROVE  /\ Handled(j, Append(st, x), n) /\ Follows(j, Append(st, x), n)
         /\ TextsIn(Append(st, x), n) = TextsIn(st, n)
<1>1. PICK s : s = Append(st, x) OBVIOUS
<1>2. /\ Len(st) \in Nat /\ s \in Seq(Control \cup Data) /\ Len(s) = Len(st) + 1 /\ s[Len(st) + 1] = x
      /\ \A k \in 1 .. Len(st) : s[k] = st[k]
  BY <1>1, AppendProperties, LenProperties
<1>3. Handled(j, s, n)
  <2>1. n \in 1 .. Len(st) => n \in 1 .. Len(s) /\ s[n] = st[n] BY <1>2
  <2> QED BY <2>1 DEF Handled
<1>4. Follows(j, s, n)
  <2> SUFFICES ASSUME live[j] PROVE n + Len(norm[j]) <= Len(s) /\ \A k \in 1 .. Len(norm[j]) : norm[j][k].kind = s[n + k]
    BY DEF Follows
  <2>1. n + Len(norm[j]) <= Len(st) /\ (\A k \in 1 .. Len(norm[j]) : norm[j][k].kind = st[n + k]) /\ Len(norm[j]) \in Nat
    BY LenProperties DEF Follows
  <2>2. \A k \in 1 .. Len(norm[j]) : n + k \in 1 .. Len(st) BY <1>2, <2>1
  <2> QED BY <1>2, <2>1, <2>2
<1> QED BY <1>1, <1>3, <1>4, CountAppend

\* A frame to the head is the next of the stream, if it is of the normal class.
LEMMA StreamInject ==
  ASSUME TypeOK, NEW kind \in Injected, Send(0, Env(kind, "down", 0)), UNCHANGED <<cont, live, tap>>,
         NEW st, NEW a, StreamInv(st, a)
  PROVE  /\ kind \in System => StreamInv(st, a)'
         /\ kind \notin System => StreamInv(Append(st, kind), a)'
<1>1. PICK e : e = Env(kind, "down", 0) OBVIOUS
<1>2. /\ e \in Envelope /\ Plain(e) /\ e.kind = kind /\ kind \in Kinds
  <2>1. kind \in Kinds /\ kind # "Interruption" BY ChainAssumption
  <2> QED BY <1>1, <2>1, EnvOK DEF Plain, Env
<1>3. ChannelsOK /\ 0 \in Int /\ 0 \in Stages /\ Last \in Stages /\ Last # 0 BY StagesOK, ChainAssumption DEF TypeOK
<1>4. \A j \in Stages :
        /\ j # 0 => sys'[j] = sys[j] /\ norm'[j] = norm[j]
        /\ Range(sys'[j]) \cup Range(norm'[j]) \subseteq Range(sys[j]) \cup Range(norm[j]) \cup {e}
  BY <1>1, <1>2, <1>3, SendFacts
<1>5. /\ st \in Seq(Control \cup Data) /\ a \in [Stages -> Nat] /\ Len(st) \in Nat
      /\ \A j \in Stages : a[j] \in Nat /\ a[j] <= Len(st) /\ Handled(j, st, a[j]) /\ Follows(j, st, a[j])
      /\ \A j \in Stages : \A g \in Range(sys[j]) \cup Range(norm[j]) : Plain(g)
      /\ live[0] => a[0] + Len(norm[0]) = Len(st)
      /\ Linked(a)
      /\ TextsIn(tap, Len(tap)) = TextsIn(st, a[Last])
      /\ Shown({"End"}) => \E p \in 1 .. a[Last] : st[p] = "End"
  BY LenProperties DEF StreamInv
<1>6. \A j \in Stages : \A g \in Range(sys'[j]) \cup Range(norm'[j]) : Plain(g) BY <1>2, <1>4, <1>5
<1>7. Linked(a)'
  <2> SUFFICES ASSUME NEW j \in 0 .. (Last - 1), live[j], live[j + 1]
               PROVE  a[j + 1] + Len(norm'[j + 1]) = IF Owes(cont[j]) THEN a[j] - 1 ELSE a[j]
    BY DEF Linked
  <2>1. j + 1 \in Stages /\ j + 1 # 0 BY ChainAssumption DEF Stages
  <2>2. norm'[j + 1] = norm[j + 1] BY <1>4, <2>1
  <2> QED BY <1>5, <2>2 DEF Linked
<1>8. ASSUME kind \in System PROVE StreamInv(st, a)'
  <2>1. norm' = norm BY <1>1, <1>2, <1>8 DEF Send, chanVars
  <2>2. \A j \in Stages : Handled(j, st, a[j])' /\ Follows(j, st, a[j])' BY <1>5, <2>1 DEF Handled, Follows
  <2> QED BY <1>5, <1>6, <1>7, <2>1, <2>2 DEF StreamInv, Shown
<1>9. ASSUME kind \notin System PROVE StreamInv(Append(st, kind), a)'
  <2>1. PICK s : s = Append(st, kind) OBVIOUS
  <2>2. kind \in Control \cup Data BY <1>2, <1>9, ClassFacts
  <2>3. /\ s \in Seq(Control \cup Data) /\ Len(s) = Len(st) + 1 /\ s[Len(st) + 1] = kind
        /\ \A k \in 1 .. Len(st) : s[k] = st[k]
    BY <1>5, <2>1, <2>2, AppendProperties
  <2>4. ASSUME NEW j \in Stages PROVE Handled(j, s, a[j]) /\ Follows(j, s, a[j]) /\ TextsIn(s, a[j]) = TextsIn(st, a[j])
    <3>1. norm[j] \in Seq(Envelope) /\ a[j] \in 0 .. Len(st) BY <1>3, <1>5 DEF ChannelsOK
    <3> QED BY <1>5, <2>1, <2>2, <3>1, StreamMore
  <2>5. ASSUME NEW j \in Stages, j # 0 PROVE Handled(j, s, a[j])' /\ Follows(j, s, a[j])'
    BY <1>4, <2>4, <2>5 DEF Handled, Follows
  <2>6. Handled(0, s, a[0])' BY <1>3, <2>4 DEF Handled
  <2>7. Follows(0, s, a[0])' /\ (live[0] => a[0] + Len(norm'[0]) = Len(s))
    <3>1. CASE ~ live[0] BY <3>1 DEF Follows
    <3>2. CASE live[0]
      <4>1. PICK q : q = norm[0] OBVIOUS
      <4>2. q \in Seq(Envelope) BY <1>3, <4>1 DEF ChannelsOK
      <4>3. norm'[0] = Append(q, e)
        <5>1. norm' = [norm EXCEPT ![0] = Append(@, e)] BY <1>1, <1>2, <1>3, <1>9, <3>2 DEF Send, Open
        <5> QED BY <1>3, <4>1, <5>1 DEF ChannelsOK
      <4>4. /\ Len(q) \in Nat /\ Len(norm'[0]) = Len(q) + 1
            /\ \A k \in 1 .. Len(norm'[0]) :
                 \/ k \in 1 .. Len(q) /\ norm'[0][k] = q[k]
                 \/ k = Len(q) + 1 /\ norm'[0][k] = e
        BY <1>2, <4>2, <4>3, AppendAt
      <4>5. a[0] \in Nat /\ a[0] + Len(q) = Len(st) BY <1>3, <1>5, <3>2, <4>1
      <4>6. a[0] + Len(norm'[0]) = Len(s)
        <5>1. \A x, y \in Nat : x + (y + 1) = (x + y) + 1 OBVIOUS
        <5>2. Len(norm'[0]) = Len(q) + 1 /\ Len(q) \in Nat /\ Len(s) = Len(st) + 1 BY <2>3, <4>4
        <5> QED BY <4>5, <5>1, <5>2
      <4>7. \A k \in 1 .. Len(q) : q[k].kind = s[a[0] + k] BY <1>3, <2>4, <3>2, <4>1 DEF Follows
      <4>8. a[0] + (Len(q) + 1) = Len(st) + 1 BY <4>4, <4>5
      <4>9. \A k \in 1 .. Len(norm'[0]) : norm'[0][k].kind = s[a[0] + k] BY <1>2, <2>3, <4>4, <4>7, <4>8
      <4>10. a[0] + Len(norm'[0]) <= Len(s) BY <1>5, <2>3, <4>6
      <4> QED BY <4>6, <4>9, <4>10 DEF Follows
    <3> QED BY <3>1, <3>2
  <2>8. \A j \in Stages : a[j] <= Len(s) BY <1>5, <2>3
  <2>9. Shown({"End"})' => \E p \in 1 .. a[Last] : s[p] = "End"
    <3>1. \A p \in 1 .. a[Last] : s[p] = st[p] BY <1>3, <1>5, <2>3
    <3> QED BY <1>5, <3>1 DEF Shown
  <2>10. TextsIn(tap', Len(tap')) = TextsIn(s, a[Last]) BY <1>3, <1>5, <2>4
  <2>11. \A j \in Stages : a[j] <= Len(s) /\ Handled(j, s, a[j])' /\ Follows(j, s, a[j])' BY <2>5, <2>6, <2>7, <2>8
  <2>12. StreamInv(s, a)' BY <1>5, <1>6, <1>7, <2>3, <2>7, <2>9, <2>10, <2>11 DEF StreamInv
  <2> QED BY <2>1, <2>12
<1> QED BY <1>8, <1>9

\* No frame was sent to the head when run() begins.
LEMMA StreamStarts == Init => StreamInv(<<>>, [i \in Stages |-> 0])
<1> SUFFICES ASSUME Init PROVE StreamInv(<<>>, [i \in Stages |-> 0])
  OBVIOUS
<1>1. PICK a : a = [i \in Stages |-> 0] OBVIOUS
<1>2. PICK e : e = Env("Start", "down", 0) OBVIOUS
<1>3. e \in Envelope /\ Plain(e)
  <2>1. "Start" \in Kinds BY DEF Kinds, System
  <2> QED BY <1>2, <2>1, EnvOK DEF Plain, Env
<1>4. \A i \in Stages : norm[i] = <<>> /\ cont[i] = <<>> /\ sys[i] \in {<<e>>, <<>>} BY <1>2 DEF Init
<1>5. Range(<<>>) = {} /\ Range(<<e>>) = {e} BY RangeNone, RangeOne
<1>6. Len(<<>>) = 0 /\ <<>> \in Seq(Control \cup Data) /\ tap = <<>> BY DEF Init
<1>7. a \in [Stages -> Nat] /\ (\A i \in Stages : a[i] = 0) /\ 0 \in Stages /\ Last \in Stages BY <1>1, StagesOK
<1>8. \A i \in Stages : Handled(i, <<>>, a[i]) /\ Follows(i, <<>>, a[i])
  <2>1. <<>> \in Lists(e) BY <1>3, ListsSetUp
  <2> QED BY <1>3, <1>4, <1>6, <1>7, <2>1 DEF Handled, Follows
<1>9. Linked(a)
  <2>1. \A j \in 0 .. (Last - 1) : j \in Stages /\ j + 1 \in Stages BY ChainAssumption DEF Stages
  <2>2. ~ Owes(<<>>) BY <1>3, ListsSetUp
  <2> QED BY <1>4, <1>6, <1>7, <2>1, <2>2 DEF Linked
<1>10. TextsIn(tap, Len(tap)) = TextsIn(<<>>, a[Last]) /\ ~ Shown({"End"}) BY <1>5, <1>6, <1>7 DEF Shown, Init
<1>11. StreamInv(<<>>, a) BY <1>3, <1>4, <1>5, <1>6, <1>7, <1>8, <1>9, <1>10 DEF StreamInv
<1> QED BY <1>1, <1>11

-----------------------------------------------------------------------------
(* The pump and the stream.                                                *)

\* As many as x texts cover what was queued before the first End.
Covered(x) == \A n \in 0 .. Len(log) : BeforeEnd(n) => TextsIn(log, n) <= x
HasEnd(s) == \E k \in 1 .. Len(s) : s[k] = "End"
Sent(st) == TextsIn(st, Len(st)) + One(sending)

\* Wherever there is an End on its way to the head, the texts before it are ahead of it.
PumpInv(st) ==
  /\ HasEnd(st) \/ sending = "End" \/ HasEnd(queue) => HasEnd(log)
  /\ \A p \in 1 .. Len(st) : st[p] = "End" => Covered(TextsIn(st, p))
  /\ sending = "End" => Covered(Sent(st))
  /\ \A k \in 1 .. Len(queue) : queue[k] = "End" => Covered(Sent(st) + TextsIn(queue, k))
  /\ Covered(Sent(st) + TextsIn(queue, Len(queue)))

Draining == \E st, a : StreamInv(st, a) /\ PumpInv(st)

DrainHolds ==
  /\ log \in Seq(Kinds) /\ (reason = "End" => Shown({"End"}))
  /\ Quiet => Draining

\* A frame counts for one or for nothing.
LEMMA OneNat == \A x : One(x) \in Nat /\ (x # "Text" => One(x) = 0)
BY DEF One

\* How many texts were sent, the one being sent included.
LEMMA SentNat ==
  ASSUME NEW st \in Seq(Control \cup Data)
  PROVE  Len(st) \in Nat /\ Sent(st) \in Nat
<1>1. Len(st) \in Nat BY LenProperties
<1>2. TextsIn(st, Len(st)) \in Nat BY <1>1, CountType
<1>3. One(sending) \in Nat BY OneNat
<1> QED BY <1>1, <1>2, <1>3 DEF Sent

\* A frame of the normal class that the pump has sent.
LEMMA PumpSent ==
  ASSUME NEW st \in Seq(Control \cup Data), NEW x \in Control \cup Data, PumpInv(st),
         log' = log, queue' = queue, queue \in Seq(Kinds),
         \/ x = sending /\ sending' = None
         \/ x = "Heartbeat" /\ sending' = sending
  PROVE  PumpInv(Append(st, x))'
<1>1. PICK s : s = Append(st, x) OBVIOUS
<1>2. /\ Len(st) \in Nat /\ Len(s) = Len(st) + 1
      /\ \A k \in 1 .. Len(s) : (k \in 1 .. Len(st) /\ s[k] = st[k]) \/ (k = Len(st) + 1 /\ s[k] = x)
  BY <1>1, AppendAt
<1>3. /\ TextsIn(s, Len(s)) = TextsIn(st, Len(st)) + One(x)
      /\ \A k \in 0 .. Len(st) : TextsIn(s, k) = TextsIn(st, k)
  BY <1>1, <1>2, CountAppend
<1>4. TextsIn(st, Len(st)) \in Nat /\ Sent(st) \in Nat /\ One(None) = 0 /\ One("Heartbeat") = 0
  BY <1>2, SentNat, CountType DEF One, None
<1>5. Sent(s)' = Sent(st)
  <2>1. CASE x = sending /\ sending' = None
    <3>1. Sent(s)' = (TextsIn(st, Len(st)) + One(sending)) + One(None) BY <1>3, <2>1 DEF Sent
    <3>2. One(sending) \in Nat BY OneNat
    <3> QED BY <1>4, <3>1, <3>2 DEF Sent
  <2>2. CASE x = "Heartbeat" /\ sending' = sending
    <3>1. Sent(s)' = (TextsIn(st, Len(st)) + One("Heartbeat")) + One(sending) BY <1>3, <2>2 DEF Sent
    <3>2. One(sending) \in Nat BY OneNat
    <3> QED BY <1>4, <3>1, <3>2 DEF Sent
  <2> QED BY <2>1, <2>2
<1>6. \A y : Covered(y)' <=> Covered(y) BY DEF Covered, BeforeEnd
<1>7. HasEnd(s) => HasEnd(st) \/ x = "End" BY <1>2 DEF HasEnd
<1>8. x = "End" => sending = "End" OBVIOUS
<1>9. sending' = "End" => sending = "End" BY DEF None
<1>10. ASSUME NEW p \in 1 .. Len(s), s[p] = "End" PROVE Covered(TextsIn(s, p))
  <2>1. CASE p \in 1 .. Len(st) /\ s[p] = st[p] BY <1>2, <1>3, <1>10, <2>1 DEF PumpInv
  <2>2. CASE p = Len(st) + 1 /\ s[p] = x
    <3>1. sending = "End" BY <1>8, <1>10, <2>2
    <3>2. x = "End" BY <1>10, <2>2
    <3>3. Sent(st) = TextsIn(s, p) BY <1>2, <1>3, <2>2, <3>1, <3>2 DEF Sent
    <3> QED BY <3>1, <3>3 DEF PumpInv
  <2> QED BY <1>2, <2>1, <2>2
<1>11. HasEnd(s) \/ sending' = "End" \/ HasEnd(queue) => HasEnd(log) BY <1>7, <1>8, <1>9 DEF PumpInv
<1>12. sending' = "End" => Covered(Sent(st)) BY <1>9 DEF PumpInv
<1>13. PumpInv(s)' BY <1>5, <1>6, <1>10, <1>11, <1>12 DEF PumpInv, HasEnd
<1> QED BY <1>1, <1>13

\* The pump takes the next frame from the queue.
LEMMA PumpTakes ==
  ASSUME NEW st \in Seq(Control \cup Data), PumpInv(st), log' = log, queue \in Seq(Kinds), queue # <<>>,
         sending = None, sending' = Head(queue), queue' = Tail(queue)
  PROVE  PumpInv(st)'
<1>1. /\ Len(queue) \in Nat /\ Len(queue') = Len(queue) - 1 /\ Head(queue) = queue[1] /\ 1 \in 1 .. Len(queue)
      /\ \A k \in 1 .. Len(queue') : k + 1 \in 1 .. Len(queue) /\ queue'[k] = queue[k + 1]
  BY TailAt
<1>2. PICK n : n = TextsIn(st, Len(st)) OBVIOUS
<1>3. PICK h : h = One(Head(queue)) OBVIOUS
<1>4. n \in Nat /\ h \in Nat /\ One(None) = 0 BY <1>2, <1>3, LenProperties, CountType, OneNat DEF One, None
<1>5. Sent(st) = n /\ Sent(st)' = n + h BY <1>2, <1>3, <1>4 DEF Sent
<1>6. \A k \in 0 .. (Len(queue) - 1) : TextsIn(queue, k + 1) = h + TextsIn(queue', k) BY <1>3, CountTail
<1>7. \A k \in 0 .. (Len(queue) - 1) : Sent(st) + TextsIn(queue, k + 1) = Sent(st)' + TextsIn(queue', k)
  <2> SUFFICES ASSUME NEW k \in 0 .. (Len(queue) - 1) PROVE Sent(st) + TextsIn(queue, k + 1) = Sent(st)' + TextsIn(queue', k)
    OBVIOUS
  <2>1. TextsIn(queue', k) \in Nat
    <3>1. k \in Nat BY <1>1
    <3> QED BY <3>1, CountType
  <2>2. TextsIn(queue, k + 1) = h + TextsIn(queue', k) BY <1>6
  <2> QED BY <1>4, <1>5, <2>1, <2>2
<1>8. \A y : Covered(y)' <=> Covered(y) BY DEF Covered, BeforeEnd
<1>9. HasEnd(queue') \/ sending' = "End" => HasEnd(queue) BY <1>1 DEF HasEnd
<1>10. sending' = "End" => Covered(Sent(st)')
  <2> SUFFICES ASSUME sending' = "End" PROVE Covered(Sent(st)') OBVIOUS
  <2>1. Covered(Sent(st) + TextsIn(queue, 1)) BY <1>1 DEF PumpInv
  <2>2. 0 \in 0 .. (Len(queue) - 1) BY <1>1
  <2>3. Sent(st) + TextsIn(queue, 0 + 1) = Sent(st)' + TextsIn(queue', 0) BY <1>7, <2>2
  <2>4. TextsIn(queue', 0) = 0 BY CountNone
  <2>5. Sent(st) + TextsIn(queue, 1) = Sent(st)' BY <1>4, <1>5, <2>3, <2>4
  <2> QED BY <2>1, <2>5
<1>11. ASSUME NEW k \in 1 .. Len(queue'), queue'[k] = "End" PROVE Covered(Sent(st)' + TextsIn(queue', k))
  <2>1. k + 1 \in 1 .. Len(queue) /\ queue[k + 1] = "End" /\ k \in 0 .. (Len(queue) - 1) BY <1>1, <1>11
  <2>2. Covered(Sent(st) + TextsIn(queue, k + 1)) BY <2>1 DEF PumpInv
  <2> QED BY <1>7, <2>1, <2>2
<1>12. Covered(Sent(st)' + TextsIn(queue', Len(queue')))
  <2>1. Len(queue') \in 0 .. (Len(queue) - 1) /\ Len(queue') + 1 = Len(queue) BY <1>1
  <2>2. Covered(Sent(st) + TextsIn(queue, Len(queue))) BY DEF PumpInv
  <2> QED BY <1>7, <2>1, <2>2
<1>13. HasEnd(st) \/ sending' = "End" \/ HasEnd(queue') => HasEnd(log) BY <1>9 DEF PumpInv
<1> QED BY <1>8, <1>10, <1>11, <1>12, <1>13 DEF PumpInv, HasEnd

\* The watcher queues a Cancel, which is no text.
LEMMA PumpCancels ==
  ASSUME NEW st \in Seq(Control \cup Data), PumpInv(st), log' = log, queue \in Seq(Kinds),
         sending' = sending, queue' = Append(queue, "Cancel")
  PROVE  PumpInv(st)'
<1>1. "Cancel" \in Kinds BY DEF Kinds, System
<1>2. /\ Len(queue) \in Nat /\ Len(queue') = Len(queue) + 1
      /\ \A k \in 1 .. Len(queue') :
           (k \in 1 .. Len(queue) /\ queue'[k] = queue[k]) \/ (k = Len(queue) + 1 /\ queue'[k] = "Cancel")
  BY <1>1, AppendAt
<1>3. /\ TextsIn(queue', Len(queue')) = TextsIn(queue, Len(queue)) + One("Cancel")
      /\ \A k \in 0 .. Len(queue) : TextsIn(queue', k) = TextsIn(queue, k)
  BY <1>1, <1>2, CountAppend
<1>4. TextsIn(queue', Len(queue')) = TextsIn(queue, Len(queue))
  <2>1. TextsIn(queue, Len(queue)) \in Nat BY <1>2, CountType
  <2>2. One("Cancel") = 0 BY DEF One
  <2> QED BY <1>3, <2>1, <2>2
<1>5. Sent(st)' = Sent(st) BY DEF Sent
<1>6. \A y : Covered(y)' <=> Covered(y) BY DEF Covered, BeforeEnd
<1>7. HasEnd(queue') => HasEnd(queue) BY <1>2 DEF HasEnd
<1>8. ASSUME NEW k \in 1 .. Len(queue'), queue'[k] = "End" PROVE Covered(Sent(st) + TextsIn(queue', k))
  <2>1. k \in 1 .. Len(queue) /\ queue[k] = "End" /\ k \in 0 .. Len(queue) BY <1>2, <1>8
  <2> QED BY <1>3, <2>1 DEF PumpInv
<1>9. HasEnd(st) \/ sending' = "End" \/ HasEnd(queue') => HasEnd(log) BY <1>7 DEF PumpInv
<1> QED BY <1>4, <1>5, <1>6, <1>8, <1>9 DEF PumpInv, HasEnd

\* An embedder queues a frame.
LEMMA PumpQueues ==
  ASSUME NEW st \in Seq(Control \cup Data), PumpInv(st), NEW x \in Kinds, log \in Seq(Kinds), queue \in Seq(Kinds),
         log' = Append(log, x), queue' = Append(queue, x), sending' = sending
  PROVE  PumpInv(st)'
<1>1. /\ Len(queue) \in Nat /\ Len(queue') = Len(queue) + 1
      /\ \A k \in 1 .. Len(queue') :
           (k \in 1 .. Len(queue) /\ queue'[k] = queue[k]) \/ (k = Len(queue) + 1 /\ queue'[k] = x)
  BY AppendAt
<1>2. /\ Len(log) \in Nat /\ Len(log') = Len(log) + 1 /\ log'[Len(log) + 1] = x
      /\ \A k \in 1 .. Len(log) : log'[k] = log[k]
  BY AppendProperties, LenProperties
<1>3. /\ TextsIn(queue', Len(queue')) = TextsIn(queue, Len(queue)) + One(x)
      /\ \A k \in 0 .. Len(queue) : TextsIn(queue', k) = TextsIn(queue, k)
  BY <1>1, CountAppend
<1>4. /\ TextsIn(log', Len(log')) = TextsIn(log, Len(log)) + One(x)
      /\ \A k \in 0 .. Len(log) : TextsIn(log', k) = TextsIn(log, k)
  BY <1>2, CountAppend
<1>5. Sent(st)' = Sent(st) /\ Sent(st) \in Nat BY SentNat DEF Sent
<1>6. \A n \in 0 .. Len(log) : BeforeEnd(n)' <=> BeforeEnd(n)
  <2> SUFFICES ASSUME NEW n \in 0 .. Len(log) PROVE BeforeEnd(n)' <=> BeforeEnd(n) OBVIOUS
  <2>1. \A m \in 1 .. n : log'[m] = log[m] BY <1>2
  <2> QED BY <2>1 DEF BeforeEnd
<1>7. ASSUME HasEnd(log) \/ x = "End" PROVE HasEnd(log)' /\ ~ BeforeEnd(Len(log))'
  <2>1. \A k \in 1 .. Len(log) : k \in 1 .. Len(log') BY <1>2
  <2>2. Len(log) + 1 \in 1 .. Len(log') BY <1>2
  <2>3. \E k \in 1 .. Len(log') : log'[k] = "End" BY <1>2, <1>7, <2>1, <2>2 DEF HasEnd
  <2> QED BY <2>3 DEF HasEnd, BeforeEnd
\* where there is an End in the log, the new frame is not before it
<1>8. ASSUME NEW y, Covered(y), HasEnd(log) \/ x = "End" PROVE Covered(y)'
  <2> SUFFICES ASSUME NEW n \in 0 .. Len(log'), BeforeEnd(n)' PROVE TextsIn(log', n) <= y BY DEF Covered
  <2>1. n \in 0 .. Len(log)
    <3>1. ~ BeforeEnd(Len(log))' BY <1>7, <1>8
    <3>2. n # Len(log') BY <3>1 DEF BeforeEnd
    <3> QED BY <1>2, <3>2
  <2>2. BeforeEnd(n) BY <1>6, <2>1
  <2> QED BY <1>4, <1>8, <2>1, <2>2 DEF Covered
<1>9. PICK t : t = Sent(st) + TextsIn(queue, Len(queue)) OBVIOUS
<1>10. t \in Nat /\ Covered(t) /\ Sent(st)' + TextsIn(queue', Len(queue')) = t + One(x)
  <2>1. TextsIn(queue, Len(queue)) \in Nat /\ One(x) \in Nat BY <1>1, CountType, OneNat
  <2>2. Covered(t) BY <1>9 DEF PumpInv
  <2> QED BY <1>3, <1>5, <1>9, <2>1, <2>2
<1>11. Covered(t + One(x))'
  <2> SUFFICES ASSUME NEW n \in 0 .. Len(log'), BeforeEnd(n)' PROVE TextsIn(log', n) <= t + One(x) BY DEF Covered
  <2>1. One(x) \in Nat BY OneNat
  <2>2. CASE n \in 0 .. Len(log)
    <3>1. TextsIn(log, n) <= t BY <1>6, <1>10, <2>2 DEF Covered
    <3>2. TextsIn(log, n) \in Nat
      <4>1. n \in Nat BY <1>2, <2>2
      <4> QED BY <4>1, CountType
    <3> QED BY <1>4, <1>10, <2>1, <2>2, <3>1, <3>2
  <2>3. CASE n = Len(log) + 1
    <3>1. Len(log) \in 0 .. Len(log) /\ n = Len(log') BY <1>2, <2>3
    <3>2. BeforeEnd(Len(log))
      <4>1. \A m \in 1 .. Len(log) : m \in 1 .. n BY <1>2, <2>3
      <4> QED BY <1>2, <4>1 DEF BeforeEnd
    <3>3. TextsIn(log, Len(log)) <= t BY <1>10, <3>1, <3>2 DEF Covered
    <3>4. TextsIn(log, Len(log)) \in Nat BY <1>2, CountType
    <3> QED BY <1>4, <1>10, <2>1, <3>1, <3>3, <3>4
  <2> QED BY <1>2, <2>2, <2>3
<1>12. ASSUME NEW k \in 1 .. Len(queue'), queue'[k] = "End" PROVE Covered(Sent(st) + TextsIn(queue, k))'
  <2>1. PICK y : y = Sent(st)' + TextsIn(queue', k) OBVIOUS
  <2>2. Covered(y)'
    <3>1. CASE k \in 1 .. Len(queue) /\ queue'[k] = queue[k]
      <4>1. Covered(Sent(st) + TextsIn(queue, k)) /\ HasEnd(log) BY <1>12, <3>1 DEF PumpInv, HasEnd
      <4>2. TextsIn(queue', k) = TextsIn(queue, k) BY <1>1, <1>3, <3>1
      <4> QED BY <1>5, <1>8, <2>1, <4>1, <4>2
    <3>2. CASE k = Len(queue) + 1 /\ queue'[k] = x
      <4>1. k = Len(queue') BY <1>1, <3>2
      <4>2. y = t + One(x) BY <1>10, <2>1, <4>1
      <4> QED BY <1>11, <4>2 DEF Covered
    <3> QED BY <1>1, <3>1, <3>2
  <2> QED BY <2>1, <2>2 DEF Covered
<1>13. ASSUME NEW p \in 1 .. Len(st), st[p] = "End" PROVE Covered(TextsIn(st, p))'
  <2>1. Covered(TextsIn(st, p)) /\ HasEnd(log) BY <1>13 DEF PumpInv, HasEnd
  <2>2. PICK y : y = TextsIn(st, p) OBVIOUS
  <2>3. Covered(y)' BY <1>8, <2>1, <2>2
  <2> QED BY <2>2, <2>3 DEF Covered
<1>14. sending' = "End" => Covered(Sent(st))'
  <2> SUFFICES ASSUME sending = "End" PROVE Covered(Sent(st))' OBVIOUS
  <2>1. Covered(Sent(st)) /\ HasEnd(log) BY DEF PumpInv
  <2>2. PICK y : y = Sent(st) OBVIOUS
  <2>3. Covered(y)' BY <1>8, <2>1, <2>2
  <2> QED BY <1>5, <2>2, <2>3 DEF Covered
<1>16. (HasEnd(st) \/ sending' = "End" \/ HasEnd(queue)') => HasEnd(log)'
  <2>1. HasEnd(queue)' => HasEnd(queue) \/ x = "End" BY <1>1 DEF HasEnd
  <2> QED BY <1>7, <2>1 DEF PumpInv
<1>17. Covered(Sent(st) + TextsIn(queue, Len(queue)))' BY <1>10, <1>11 DEF Covered
<1> QED BY <1>12, <1>13, <1>14, <1>16, <1>17 DEF PumpInv, HasEnd

\* A frame of the system class overtakes the stream, and is no text and no End.
LEMMA PumpOvertakes ==
  ASSUME NEW st \in Seq(Control \cup Data), PumpInv(st), log' = log, queue' = queue,
         sending \in System, sending' = None
  PROVE  PumpInv(st)'
<1>1. sending # "Text" /\ sending # "End" BY ClassFacts
<1>2. One(sending) = 0 /\ One(None) = 0 BY <1>1 DEF One, None
<1>3. Sent(st)' = Sent(st) BY <1>2 DEF Sent
<1>4. \A y : Covered(y)' <=> Covered(y) BY DEF Covered, BeforeEnd
<1>5. sending' # "End" BY DEF None
<1> QED BY <1>3, <1>4, <1>5 DEF PumpInv, HasEnd

\* What does not touch the pump, or the chain, leaves what is known of it.
LEMMA PumpSame ==
  ASSUME NEW st, UNCHANGED <<log, queue, sending>>, PumpInv(st)
  PROVE  PumpInv(st)'
<1>1. Sent(st)' = Sent(st) BY DEF Sent
<1>2. \A y : Covered(y)' <=> Covered(y) BY DEF Covered, BeforeEnd
<1> QED BY <1>1, <1>2 DEF PumpInv, HasEnd

\* The chain, too, keeps what is known of it when nothing in it changes.
LEMMA StreamSame ==
  ASSUME NEW st, NEW a, UNCHANGED vars, StreamInv(st, a)
  PROVE  StreamInv(st, a)'
BY DEF vars, chainVars, StreamInv, Handled, Follows, Linked, Shown

\* A frame of the system class to the head leaves the stream as it is.
LEMMA DrainUrgent ==
  ASSUME TypeOK, NEW kind \in Injected \cap System, ToHead(kind), UNCHANGED <<log, queue, sending>>,
         NEW st, NEW a, StreamInv(st, a), PumpInv(st)
  PROVE  StreamInv(st, a)' /\ PumpInv(st)'
<1>1. Send(0, Env(kind, "down", 0)) /\ UNCHANGED <<cont, live, tap>> BY DEF ToHead
<1> QED BY <1>1, StreamInject, PumpSame

\* The frame that the pump holds goes to the head.
LEMMA DrainSend ==
  ASSUME TypeOK, sending \in Injected, ToHead(sending), log' = log, queue' = queue, queue \in Seq(Kinds),
         sending' = None, NEW st, NEW a, StreamInv(st, a), PumpInv(st)
  PROVE  Draining'
<1>1. Send(0, Env(sending, "down", 0)) /\ UNCHANGED <<cont, live, tap>> BY DEF ToHead
<1>2. st \in Seq(Control \cup Data) BY DEF StreamInv
<1>3. PICK x \in Injected : x = sending OBVIOUS
<1>4. CASE x \in System
  <2>1. StreamInv(st, a)' BY <1>1, <1>3, <1>4, StreamInject
  <2>2. PumpInv(st)' BY <1>2, <1>3, <1>4, PumpOvertakes
  <2> QED BY <2>1, <2>2 DEF Draining
<1>5. CASE x \notin System
  <2>1. x \in Kinds BY ChainAssumption
  <2>2. x \in Control \cup Data BY <1>5, <2>1, ClassFacts
  <2>3. StreamInv(Append(st, x), a)' BY <1>1, <1>3, <1>5, StreamInject
  <2>4. PumpInv(Append(st, x))' BY <1>2, <1>3, <2>2, PumpSent
  <2> QED BY <2>3, <2>4 DEF Draining
<1> QED BY <1>4, <1>5

\* A heartbeat goes to the head between two frames of the pump.
LEMMA DrainBeat ==
  ASSUME TypeOK, ToHead("Heartbeat"), UNCHANGED <<log, queue, sending>>, queue \in Seq(Kinds),
         NEW st, NEW a, StreamInv(st, a), PumpInv(st)
  PROVE  Draining'
<1>1. Send(0, Env("Heartbeat", "down", 0)) /\ UNCHANGED <<cont, live, tap>> BY DEF ToHead
<1>2. st \in Seq(Control \cup Data) BY DEF StreamInv
<1>3. PICK x : x = "Heartbeat" OBVIOUS
<1>4. x \in Injected /\ x \in Control \cup Data /\ x \notin System
  BY <1>3, TaskAssumption DEF Control, System
<1>5. StreamInv(Append(st, x), a)' BY <1>1, <1>3, <1>4, StreamInject
<1>6. PumpInv(Append(st, x))' BY <1>2, <1>3, <1>4, PumpSent
<1> QED BY <1>5, <1>6 DEF Draining

\* run() reports the end of the task only after the Sink has shown it an End.
LEMMA DrainReason ==
  ASSUME TaskInv, [TaskNext]_allVars, reason = "End" => Shown({"End"})
  PROVE  reason' = "End" => Shown({"End"})'
<1>1. TypeOK /\ StartInv /\ [Next]_vars BY TaskStep DEF TaskInv
<1>2. tap \in Seq(Kinds) BY <1>1 DEF TypeOK
<1>3. Shown({"End"}) => Shown({"End"})'
  <2>1. Range(tap) \subseteq Range(tap')
    <3>1. CASE tap' = tap BY <3>1
    <3>2. ASSUME NEW kind \in Kinds, tap' = Append(tap, kind) PROVE Range(tap) \subseteq Range(tap')
      BY <1>2, <3>2, RangeAppend
    <3> QED BY <1>1, <3>1, <3>2, TapStep
  <2> QED BY <2>1 DEF Shown
<1>4. CASE reason' = reason BY <1>3, <1>4
<1>5. CASE PumpTap
  <2> SUFFICES ASSUME reason' = "End" PROVE Shown({"End"})' OBVIOUS
  <2>1. tapRead' = tapRead + 1 /\ tapRead < Len(tap) /\ (reason' = tap[tapRead'] \/ reason' = reason)
    BY <1>5 DEF PumpTap
  <2>2. CASE reason' = reason BY <1>3, <2>2
  <2>3. CASE reason' = tap[tapRead']
    <3>1. tapRead' \in 1 .. Len(tap)
      <4>1. tapRead \in Nat BY DEF TaskInv, TaskTypes
      <4>2. Len(tap) \in Nat BY <1>2, LenProperties
      <4> QED BY <2>1, <4>1, <4>2
    <3>2. tap[tapRead'] \in Range(tap) BY <1>2, <3>1 DEF Range
    <3>3. Shown({"End"}) BY <2>3, <3>2 DEF Shown
    <3> QED BY <1>3, <3>3
  <2> QED BY <2>1, <2>2, <2>3
<1>6. CASE PumpCancel BY <1>6 DEF PumpCancel
<1>7. CASE ~ PumpTap /\ ~ PumpCancel
  <2>1. reason' = reason
    BY <1>7 DEF TaskNext, allVars, taskVars, Stage, ReadStart, StartCancelled, PumpQueue, PumpSend, Join,
       QueueFrame, FireToken, IdleTimeout, HeartbeatTick
  <2> QED BY <1>4, <2>1
<1> QED BY <1>5, <1>6, <1>7

\* Nothing was queued when run() begins.
LEMMA DrainStarts == TaskInit => DrainHolds
<1> SUFFICES ASSUME TaskInit PROVE DrainHolds
  OBVIOUS
<1>1. Init /\ queue = <<>> /\ sending = None /\ reason = None /\ log = <<>> BY DEF TaskInit
<1>2. StreamInv(<<>>, [i \in Stages |-> 0]) BY <1>1, StreamStarts
<1>3. Len(<<>>) = 0 /\ <<>> \in Seq(Kinds) OBVIOUS
<1>4. PICK s : s = <<>> OBVIOUS
<1>5. TextsIn(s, 0) = 0 /\ One(None) = 0 BY CountNone DEF One, None
<1>6. Covered(0)
  <2>1. \A n \in 0 .. Len(log) : n = 0 BY <1>1, <1>3
  <2> QED BY <1>1, <1>4, <1>5, <2>1 DEF Covered
<1>7. Sent(s) = 0 BY <1>1, <1>3, <1>4, <1>5 DEF Sent
<1>8. ~ HasEnd(s) /\ ~ HasEnd(queue) /\ sending # "End" BY <1>1, <1>3, <1>4 DEF HasEnd, None
<1>9. Sent(s) + TextsIn(queue, Len(queue)) = 0 BY <1>1, <1>3, <1>4, <1>5, <1>7
<1>10. PumpInv(s)
  <2>1. \A p \in 1 .. Len(s) : s[p] # "End" BY <1>8 DEF HasEnd
  <2>2. \A k \in 1 .. Len(queue) : queue[k] # "End" BY <1>8 DEF HasEnd
  <2> QED BY <1>6, <1>8, <1>9, <2>1, <2>2 DEF PumpInv
<1>11. reason # "End" BY <1>1 DEF None
<1> QED BY <1>1, <1>2, <1>3, <1>4, <1>10, <1>11 DEF DrainHolds, Draining

\* Every step of the task goes on with some stream.
LEMMA DrainGoesOn ==
  ASSUME TaskInv, Consumers = {}, [TaskNext]_allVars, Quiet, Quiet', log \in Seq(Kinds),
         NEW st, NEW a, StreamInv(st, a), PumpInv(st)
  PROVE  Draining'
<1>1. TypeOK /\ queue \in Seq(Kinds) BY DEF TaskInv, TaskTypes
<1>2. st \in Seq(Control \cup Data) BY DEF StreamInv
<1>3. "Cancel" \in Injected \cap System BY TaskAssumption DEF System
<1>4. ASSUME UNCHANGED vars, UNCHANGED <<log, queue, sending>>
      PROVE  Draining'
  BY <1>4, StreamSame, PumpSame DEF Draining
<1>5. ASSUME NEW i \in Stages, Stage(i) PROVE Draining'
  <2>1. StageStep(i) /\ UNCHANGED <<log, queue, sending>> BY <1>5 DEF Stage, taskVars
  <2>2. \E b : StreamInv(st, b)' BY <1>1, <2>1, StreamStage
  <2>3. PumpInv(st)' BY <2>1, PumpSame
  <2> QED BY <2>2, <2>3 DEF Draining
<1>6. CASE ReadStart \/ StartCancelled \/ Join \/ FireToken
  <2>1. UNCHANGED vars /\ UNCHANGED <<log, queue, sending>>
    BY <1>6 DEF ReadStart, StartCancelled, Join, FireToken
  <2> QED BY <1>4, <2>1
<1>7. CASE PumpCancel
  <2>1. ToHead("Cancel") /\ UNCHANGED <<log, queue, sending>> BY <1>7 DEF PumpCancel
  <2> QED BY <1>1, <1>3, <2>1, DrainUrgent DEF Draining
<1>8. CASE PumpQueue
  <2>1. /\ UNCHANGED vars /\ phase = "pumping" /\ queue # <<>> /\ log' = log
        /\ sending' = Head(queue) /\ queue' = Tail(queue)
    BY <1>8 DEF PumpQueue
  <2>2. sending = None BY <2>1 DEF TaskInv, TaskTypes, TaskTypeOK
  <2>3. PumpInv(st)' BY <1>1, <1>2, <2>1, <2>2, PumpTakes
  <2>4. StreamInv(st, a)' BY <2>1, StreamSame
  <2> QED BY <2>3, <2>4 DEF Draining
<1>9. CASE PumpSend
  <2>1. ToHead(sending) /\ sending' = None /\ queue' = queue /\ log' = log /\ phase = "sending"
    BY <1>9 DEF PumpSend
  <2>2. sending \in Injected BY <2>1, TaskAssumption DEF TaskInv, TaskTypes
  <2> QED BY <1>1, <2>1, <2>2, DrainSend
<1>10. CASE PumpTap
  <2>1. (ToHead("Cancel") \/ UNCHANGED vars) /\ UNCHANGED <<log, queue, sending>> BY <1>10 DEF PumpTap
  <2>2. CASE ToHead("Cancel") BY <1>1, <1>3, <2>1, <2>2, DrainUrgent DEF Draining
  <2>3. CASE UNCHANGED vars BY <1>4, <2>1, <2>3
  <2> QED BY <2>1, <2>2, <2>3
<1>11. ASSUME NEW kind \in Queued, QueueFrame(kind) PROVE Draining'
  <2>1. /\ UNCHANGED vars /\ sending' = sending
        /\ queue' = Append(queue, kind) /\ log' = Append(log, kind)
    BY <1>11 DEF QueueFrame
  <2>2. kind \in Kinds BY TaskAssumption
  <2>3. PumpInv(st)' BY <1>1, <1>2, <2>1, <2>2, PumpQueues
  <2>4. StreamInv(st, a)' BY <2>1, StreamSame
  <2> QED BY <2>3, <2>4 DEF Draining
<1>12. CASE IdleTimeout
  <2>1. UNCHANGED vars /\ sending' = sending /\ queue' = Append(queue, "Cancel") /\ log' = log
    BY <1>12 DEF IdleTimeout
  <2>2. PumpInv(st)' BY <1>1, <1>2, <2>1, PumpCancels
  <2>3. StreamInv(st, a)' BY <2>1, StreamSame
  <2> QED BY <2>2, <2>3 DEF Draining
<1>13. CASE HeartbeatTick
  <2>1. ToHead("Heartbeat") /\ UNCHANGED <<log, queue, sending>> BY <1>13 DEF HeartbeatTick, taskVars
  <2> QED BY <1>1, <2>1, DrainBeat
<1>14. CASE UNCHANGED allVars
  <2>1. UNCHANGED vars /\ UNCHANGED <<log, queue, sending>> BY <1>14 DEF allVars, taskVars
  <2> QED BY <1>4, <2>1
<1> QED BY <1>5, <1>6, <1>7, <1>8, <1>9, <1>10, <1>11, <1>12, <1>13, <1>14 DEF TaskNext

\* Nothing that stirs a chain is ever forgotten.
LEMMA QuietBefore ==
  ASSUME TaskInv, [TaskNext]_allVars, Quiet'
  PROVE  Quiet
<1>1. ASSUME NEW i \in Stages, Stage(i) PROVE Quiet
  BY <1>1, QuietBack DEF Stage, TaskInv
<1>2. CASE \A i \in Stages : ~ Stage(i)
  <2>1. UNCHANGED boundVars
    <3>1. ASSUME NEW kind, ToHead(kind) PROVE UNCHANGED boundVars BY <3>1 DEF ToHead
    <3>2. CASE UNCHANGED vars BY <3>2 DEF vars, chainVars, boundVars
    <3>3. UNCHANGED vars \/ \E kind : ToHead(kind)
      BY <1>2 DEF TaskNext, allVars, ReadStart, StartCancelled, PumpCancel, PumpQueue, PumpSend, PumpTap, Join,
         QueueFrame, FireToken, IdleTimeout, HeartbeatTick
    <3> QED BY <3>1, <3>2, <3>3
  <2> QED BY <2>1 DEF boundVars, Quiet
<1> QED BY <1>1, <1>2

\* The queue of embedders only grows.
LEMMA LogTyped ==
  ASSUME [TaskNext]_allVars, log \in Seq(Kinds)
  PROVE  log' \in Seq(Kinds)
<1>1. ASSUME NEW kind \in Queued, QueueFrame(kind) PROVE log' \in Seq(Kinds)
  <2>1. kind \in Kinds /\ log' = Append(log, kind) BY <1>1, TaskAssumption DEF QueueFrame
  <2> QED BY <2>1, AppendProperties
<1>2. CASE \A kind \in Queued : ~ QueueFrame(kind)
  BY <1>2 DEF TaskNext, allVars, taskVars, Stage, ReadStart, StartCancelled, PumpCancel, PumpQueue, PumpSend,
     PumpTap, Join, FireToken, IdleTimeout, HeartbeatTick
<1> QED BY <1>1, <1>2

\* A step of the task keeps what is known of the stream and of the reason.
LEMMA DrainHoldsStep ==
  ASSUME TaskInv, Consumers = {}, [TaskNext]_allVars, DrainHolds
  PROVE  DrainHolds'
<1>1. log \in Seq(Kinds) /\ (reason = "End" => Shown({"End"})) BY DEF DrainHolds
<1>2. log' \in Seq(Kinds) BY <1>1, LogTyped
<1>3. reason' = "End" => Shown({"End"})' BY <1>1, DrainReason
<1>4. ASSUME Quiet' PROVE Draining'
  <2>1. Quiet BY <1>4, QuietBefore
  <2>2. PICK st, a : StreamInv(st, a) /\ PumpInv(st) BY <2>1 DEF DrainHolds, Draining
  <2> QED BY <1>1, <1>4, <2>1, <2>2, DrainGoesOn
<1> QED BY <1>2, <1>3, <1>4 DEF DrainHolds

\* Where the Sink has shown the End, it has shown the texts ahead of it.
LEMMA DrainShown == ASSUME TypeOK, DrainHolds PROVE DrainBeforeEnd
<1> SUFFICES ASSUME Quiet, reason = "End", NEW n \in 0 .. Len(log), BeforeEnd(n)
             PROVE  TextsIn(log, n) <= TextsIn(tap, Len(tap))
  BY DEF DrainBeforeEnd, Quiet
<1>1. PICK st, a : StreamInv(st, a) /\ PumpInv(st) BY DEF DrainHolds, Draining
<1>2. Shown({"End"}) /\ log \in Seq(Kinds) BY DEF DrainHolds
<1>3. PICK p \in 1 .. a[Last] : st[p] = "End" BY <1>1, <1>2 DEF StreamInv
<1>4. Last \in Stages BY StagesOK
<1>5. st \in Seq(Control \cup Data) /\ a[Last] \in Nat /\ a[Last] <= Len(st) /\ TextsIn(tap, Len(tap)) = TextsIn(st, a[Last])
  BY <1>1, <1>4 DEF StreamInv
<1>6. Len(st) \in Nat /\ Len(log) \in Nat BY <1>2, <1>5, LenProperties
<1>7. p \in 1 .. Len(st) /\ p \in Nat /\ p <= a[Last] /\ n \in Nat BY <1>5, <1>6
<1>8. Covered(TextsIn(st, p)) BY <1>1, <1>3, <1>7 DEF PumpInv
<1>9. TextsIn(log, n) <= TextsIn(st, p) BY <1>8 DEF Covered
<1>10. TextsIn(st, p) <= TextsIn(st, a[Last]) BY <1>5, <1>7, CountMore
<1>11. TextsIn(log, n) \in Nat /\ TextsIn(st, p) \in Nat /\ TextsIn(st, a[Last]) \in Nat BY <1>5, <1>7, CountType
<1> QED BY <1>5, <1>9, <1>10, <1>11

\* stop_when_done drains, for any number of stages, capacity of the channels, placement of the
\* bridges and of the turn detector, whatever kinds of frame embedders queue and however many,
\* with heartbeats, signals, the idle watcher and fatal errors on or off: a task that ends with
\* the reason End, and in which no barge-in, error or request of a processor occurred, has shown
\* at the Sink as many texts as were queued before the first End. Processors forward the texts
\* they get (Consumers = {}): one that keeps them would not let them come out.
THEOREM TaskDrains ==
  ASSUME Consumers = {}
  PROVE  TaskSpec => []PumpDrains
<1>1. TaskInit => TaskInv /\ DrainHolds BY TaskInvInit, DrainStarts
<1>2. TaskInv /\ DrainHolds /\ [TaskNext]_allVars => TaskInv' /\ DrainHolds' BY TaskInvStep, DrainHoldsStep
<1>3. TaskInv /\ DrainHolds => PumpDrains
  BY DrainShown DEF TaskInv, TaskTypes, PumpDrains
<1> QED BY <1>1, <1>2, <1>3, PTL DEF TaskSpec
=============================================================================
