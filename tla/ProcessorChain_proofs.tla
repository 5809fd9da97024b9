----------------------- MODULE ProcessorChain_proofs -----------------------
(***************************************************************************)
(* Proofs about ProcessorChain, for every number of stages, every capacity *)
(* and every wiring that the assumptions of that module allow.             *)
(***************************************************************************)
EXTENDS ProcessorChain, SequenceFacts, TLAPS

-----------------------------------------------------------------------------
(* The two channel operations.                                             *)

\* Sending adds the frame to the receiver's channels if the receiver still runs,
\* and changes nothing else.
LEMMA SendFacts ==
  ASSUME ChannelsOK, NEW j \in Int, NEW e \in Envelope, Send(j, e)
  PROVE  /\ ChannelsOK'
         /\ \A i \in Stages :
              /\ Range(sys[i]) \subseteq Range(sys'[i])
              /\ Range(norm[i]) \subseteq Range(norm'[i])
              /\ i # j => sys'[i] = sys[i] /\ norm'[i] = norm[i]
              /\ Range(sys'[i]) \cup Range(norm'[i])
                   \subseteq Range(sys[i]) \cup Range(norm[i]) \cup {e}
              /\ Range(norm'[i]) \subseteq Range(norm[i]) \cup {e}
         /\ Open(j) => e \in Range(sys'[j]) \cup Range(norm'[j])
<1>1. CASE ~ Open(j) /\ UNCHANGED chanVars
  BY <1>1 DEF ChannelsOK, chanVars
<1>2. CASE /\ Open(j) /\ e.kind \in System
           /\ sys' = [sys EXCEPT ![j] = Append(@, e)]
           /\ UNCHANGED norm
  <2>1. j \in Stages /\ sys[j] \in Seq(Envelope)
    BY <1>2 DEF ChannelsOK, Open
  <2>2. /\ Append(sys[j], e) \in Seq(Envelope)
        /\ Range(Append(sys[j], e)) = Range(sys[j]) \cup {e}
    BY <2>1, RangeAppend
  <2>3. \A i \in Stages : sys'[i] = IF i = j THEN Append(sys[j], e) ELSE sys[i]
    BY <1>2 DEF ChannelsOK
  <2>4. sys' \in [Stages -> Seq(Envelope)]
    BY <1>2, <2>2 DEF ChannelsOK
  <2> QED BY <1>2, <2>1, <2>2, <2>3, <2>4 DEF ChannelsOK
<1>3. CASE /\ Open(j) /\ e.kind \notin System
           /\ Len(norm[j]) < Cap
           /\ norm' = [norm EXCEPT ![j] = Append(@, e)]
           /\ UNCHANGED sys
  <2>1. j \in Stages /\ norm[j] \in Seq(Envelope) /\ Len(norm[j]) \in Nat
    BY <1>3, LenProperties DEF ChannelsOK, Open
  <2>2. /\ Append(norm[j], e) \in Seq(Envelope)
        /\ Range(Append(norm[j], e)) = Range(norm[j]) \cup {e}
        /\ Len(Append(norm[j], e)) = Len(norm[j]) + 1
    BY <2>1, RangeAppend
  <2>3. \A i \in Stages : norm'[i] = IF i = j THEN Append(norm[j], e) ELSE norm[i]
    BY <1>3 DEF ChannelsOK
  <2>4. norm' \in [Stages -> Seq(Envelope)]
    BY <1>3, <2>2 DEF ChannelsOK
  <2>5. \A i \in Stages : Len(norm'[i]) <= Cap
    BY <1>3, <2>1, <2>2, <2>3, ChainAssumption DEF ChannelsOK
  <2> QED BY <1>3, <2>1, <2>2, <2>3, <2>4, <2>5 DEF ChannelsOK
<1> QED BY <1>1, <1>2, <1>3 DEF Send

\* Receiving takes one frame out of a channel of the stage.
LEMMA ReceiveFacts ==
  ASSUME ChannelsOK, NEW i \in Stages, Ready(i), Receive(i)
  PROVE  /\ ChannelsOK'
         /\ Received(i) \in Envelope
         /\ \A j \in Stages :
              /\ j # i => sys'[j] = sys[j] /\ norm'[j] = norm[j]
              /\ Range(sys'[j]) \subseteq Range(sys[j])
              /\ Range(norm'[j]) \subseteq Range(norm[j])
         /\ Range(sys[i]) \cup Range(norm[i])
              = {Received(i)} \cup Range(sys'[i]) \cup Range(norm'[i])
         /\ Received(i).kind \notin System => Received(i) \in Range(norm[i])
<1>1. CASE sys[i] # <<>>
  <2>1. sys[i] \in Seq(Envelope)
    BY DEF ChannelsOK
  <2>2. /\ Head(sys[i]) \in Envelope /\ Tail(sys[i]) \in Seq(Envelope)
        /\ Range(sys[i]) = {Head(sys[i])} \cup Range(Tail(sys[i]))
    BY <1>1, <2>1, RangeTail
  <2>3. /\ sys' = [sys EXCEPT ![i] = Tail(@)] /\ norm' = norm
        /\ Received(i) = Head(sys[i])
    BY <1>1 DEF Receive, Received
  <2>4. \A j \in Stages : sys'[j] = IF j = i THEN Tail(sys[i]) ELSE sys[j]
    BY <2>3 DEF ChannelsOK
  <2>5. sys' \in [Stages -> Seq(Envelope)]
    BY <2>2, <2>3 DEF ChannelsOK
  <2> QED BY <2>2, <2>3, <2>4, <2>5 DEF ChannelsOK
<1>2. CASE sys[i] = <<>>
  <2>1. norm[i] # <<>> /\ norm[i] \in Seq(Envelope) /\ Len(norm[i]) \in Nat
    BY <1>2, LenProperties DEF ChannelsOK, Ready
  <2>2. /\ Head(norm[i]) \in Envelope /\ Tail(norm[i]) \in Seq(Envelope)
        /\ Range(norm[i]) = {Head(norm[i])} \cup Range(Tail(norm[i]))
        /\ Len(Tail(norm[i])) = Len(norm[i]) - 1
    BY <2>1, RangeTail
  <2>3. /\ norm' = [norm EXCEPT ![i] = Tail(@)] /\ sys' = sys
        /\ Received(i) = Head(norm[i])
    BY <1>2 DEF Receive, Received
  <2>4. \A j \in Stages : norm'[j] = IF j = i THEN Tail(norm[i]) ELSE norm[j]
    BY <2>3 DEF ChannelsOK
  <2>5. norm' \in [Stages -> Seq(Envelope)]
    BY <2>2, <2>3 DEF ChannelsOK
  <2>6. ASSUME NEW j \in Stages PROVE Len(norm'[j]) <= Cap
    <3>1. Cap \in Nat /\ Len(norm[i]) <= Cap /\ Len(norm[j]) <= Cap
      BY ChainAssumption DEF ChannelsOK
    <3>2. Len(Tail(norm[i])) <= Cap
      BY <2>1, <2>2, <3>1
    <3> QED BY <2>4, <3>1, <3>2
  <2> QED BY <2>2, <2>3, <2>4, <2>5, <2>6 DEF ChannelsOK
<1> QED BY <1>1, <1>2

\* Draining takes the head of the normal channel.
LEMMA DrainFacts ==
  ASSUME ChannelsOK, NEW i \in Stages, norm[i] # <<>>,
         norm' = [norm EXCEPT ![i] = Tail(@)], UNCHANGED sys
  PROVE  /\ ChannelsOK'
         /\ Head(norm[i]) \in Envelope
         /\ \A j \in Stages :
              /\ j # i => norm'[j] = norm[j]
              /\ Range(norm'[j]) \subseteq Range(norm[j])
         /\ Range(norm[i]) = {Head(norm[i])} \cup Range(norm'[i])
<1>1. norm[i] \in Seq(Envelope) /\ Len(norm[i]) \in Nat
  BY LenProperties DEF ChannelsOK
<1>2. /\ Head(norm[i]) \in Envelope /\ Tail(norm[i]) \in Seq(Envelope)
      /\ Range(norm[i]) = {Head(norm[i])} \cup Range(Tail(norm[i]))
      /\ Len(Tail(norm[i])) = Len(norm[i]) - 1
  BY <1>1, RangeTail
<1>3. \A j \in Stages : norm'[j] = IF j = i THEN Tail(norm[i]) ELSE norm[j]
  BY DEF ChannelsOK
<1>4. norm' \in [Stages -> Seq(Envelope)]
  BY <1>2 DEF ChannelsOK
<1>5. ASSUME NEW j \in Stages PROVE Len(norm'[j]) <= Cap
  <2>1. Cap \in Nat /\ Len(norm[i]) <= Cap /\ Len(norm[j]) <= Cap
    BY ChainAssumption DEF ChannelsOK
  <2>2. Len(Tail(norm[i])) <= Cap
    BY <1>1, <1>2, <2>1
  <2> QED BY <1>3, <2>1, <2>2
<1> QED BY <1>2, <1>3, <1>4, <1>5 DEF ChannelsOK

\* A stage that returns drops its receivers.
LEMMA ExitFacts ==
  ASSUME ChannelsOK, NEW i \in Stages,
         sys' = [sys EXCEPT ![i] = <<>>], norm' = [norm EXCEPT ![i] = <<>>]
  PROVE  /\ ChannelsOK'
         /\ \A j \in Stages : j # i => sys'[j] = sys[j] /\ norm'[j] = norm[j]
         /\ Range(sys'[i]) = {} /\ Range(norm'[i]) = {}
<1>1. /\ <<>> \in Seq(Envelope) /\ Range(<<>>) = {} /\ Len(<<>>) = 0
  BY RangeNone
<1>2. \A j \in Stages : /\ sys'[j] = IF j = i THEN <<>> ELSE sys[j]
                        /\ norm'[j] = IF j = i THEN <<>> ELSE norm[j]
  BY DEF ChannelsOK
<1>3. sys' \in [Stages -> Seq(Envelope)] /\ norm' \in [Stages -> Seq(Envelope)]
  BY <1>1 DEF ChannelsOK
<1> QED BY <1>1, <1>2, <1>3, ChainAssumption DEF ChannelsOK

-----------------------------------------------------------------------------
(* Type correctness.                                                       *)

\* The kinds and directions that the handlers write are those of an envelope.
LEMMA OpsOK ==
  ASSUME NEW e \in Envelope
  PROVE  /\ Push(e) \in Op /\ Drain(e) \in Op /\ StopHook(e) \in Op /\ Exit(e) \in Op
         /\ TerminalOps(e) \in Seq(Op)
         /\ Range(TerminalOps(e)) \subseteq {StopHook(e), Push(e), Exit(e)}
         /\ StopHook(e) \in Range(TerminalOps(e))
         /\ Push(e) \in Range(TerminalOps(e))
         /\ e.kind # "Stop" => Exit(e) \in Range(TerminalOps(e))
<1>1. Push(e) \in Op /\ Drain(e) \in Op /\ StopHook(e) \in Op /\ Exit(e) \in Op
  BY DEF Push, Drain, StopHook, Exit, Op
<1>2. /\ <<StopHook(e), Push(e)>> \in Seq(Op)
      /\ Range(<<StopHook(e), Push(e)>>) = {StopHook(e), Push(e)}
  BY <1>1, RangeTwo
<1>3. /\ <<StopHook(e), Push(e), Exit(e)>> \in Seq(Op)
      /\ Range(<<StopHook(e), Push(e), Exit(e)>>) = {StopHook(e), Push(e), Exit(e)}
  BY <1>1, RangeThree
<1> QED BY <1>1, <1>2, <1>3 DEF TerminalOps

\* Envelopes made by the runtime.
LEMMA EnvOK ==
  /\ Env("Error", "up", 0) \in Envelope
  /\ Env("End", "up", 0) \in Envelope
  /\ ErrorUp \in Op
  /\ \A kind \in Kinds : Env(kind, "down", 0) \in Envelope
  /\ \A g \in 0 .. MaxGen : /\ Env("Interruption", "down", g) \in Envelope
                           /\ Env("Interruption", "up", g) \in Envelope
<1>1. 0 \in 0 .. MaxGen
  BY ChainAssumption
<1> QED BY <1>1, OpsOK DEF Env, Envelope, Kinds, System, Control, Data, ErrorUp

\* A failing hook puts one Error in front of what is to be done.
LEMMA MayFailFacts ==
  ASSUME NEW i \in Stages, NEW ops \in Seq(Op), cont \in [Stages -> Seq(Op)],
         errors \in 0 .. MaxErrors, MayFail(i, ops)
  PROVE  /\ cont' \in [Stages -> Seq(Op)]
         /\ errors' \in 0 .. MaxErrors
         /\ \A j \in Stages : j # i => cont'[j] = cont[j]
         /\ Range(ops) \subseteq Range(cont'[i])
         /\ Range(cont'[i]) \subseteq Range(ops) \cup {ErrorUp}
         /\ i \notin 1 .. (Last - 1) => cont'[i] = ops
<1>1. CASE Continue(i, ops) /\ UNCHANGED errors
  BY <1>1 DEF Continue
<1>2. CASE /\ i \in 1 .. (Last - 1)
           /\ errors < MaxErrors /\ errors' = errors + 1
           /\ Continue(i, <<ErrorUp>> \o ops)
  <2>1. /\ <<ErrorUp>> \o ops \in Seq(Op)
        /\ Range(<<ErrorUp>> \o ops) = {ErrorUp} \cup Range(ops)
    BY EnvOK, RangePrefix
  <2>2. errors' \in 0 .. MaxErrors
    BY <1>2, ChainAssumption
  <2> QED BY <1>2, <2>1, <2>2 DEF Continue
<1> QED BY <1>1, <1>2 DEF MayFail

\* TypeOK holds initially.
LEMMA TypeInit == Init => TypeOK
<1> SUFFICES ASSUME Init PROVE TypeOK
  OBVIOUS
<1>1. 0 \in Stages /\ Env("Start", "down", 0) \in Envelope
  BY ChainAssumption, EnvOK DEF Stages, Kinds, System
<1>2. /\ <<>> \in Seq(Envelope) /\ Range(<<>>) = {} /\ Len(<<>>) = 0
      /\ <<Env("Start", "down", 0)>> \in Seq(Envelope)
      /\ Range(<<Env("Start", "down", 0)>>) = {Env("Start", "down", 0)}
  BY <1>1, RangeNone, RangeOne
<1>3. ChannelsOK
  BY <1>1, <1>2, ChainAssumption DEF Init, ChannelsOK, Env, System
<1>4. <<>> \in Seq(Op) /\ <<>> \in Seq(Kinds)
  OBVIOUS
<1> QED BY <1>3, <1>4, ChainAssumption DEF Init, TypeOK

\* What a stage is told to do next replaces its own list only.
LEMMA ContinueFacts ==
  ASSUME NEW i \in Stages, NEW ops \in Seq(Op), cont \in [Stages -> Seq(Op)],
         Continue(i, ops)
  PROVE  /\ cont' \in [Stages -> Seq(Op)]
         /\ cont'[i] = ops
         /\ \A j \in Stages : j # i => cont'[j] = cont[j]
BY DEF Continue

\* The first operation of a stage is an operation on an envelope.
LEMMA TodoFacts ==
  ASSUME TypeOK, NEW i \in Stages, NEW op, Todo(i, op)
  PROVE  /\ Head(cont[i]) \in Op /\ Head(cont[i]).env \in Envelope
         /\ Head(cont[i]).op = op
         /\ Tail(cont[i]) \in Seq(Op)
         /\ Range(cont[i]) = {Head(cont[i])} \cup Range(Tail(cont[i]))
<1>1. cont[i] \in Seq(Op) /\ cont[i] # <<>> /\ Head(cont[i]).op = op
  BY DEF TypeOK, Todo
<1>2. /\ Head(cont[i]) \in Op /\ Tail(cont[i]) \in Seq(Op)
      /\ Range(cont[i]) = {Head(cont[i])} \cup Range(Tail(cont[i]))
  BY <1>1, RangeTail
<1> QED BY <1>1, <1>2 DEF Op

\* The target of a push is an integer.
LEMMA TargetInt ==
  ASSUME NEW i \in Stages, NEW e
  PROVE  Target(i, e) \in Int
BY PrevAssumption, ChainAssumption DEF Target, Stages, NoStage

\* TypeOK is preserved by every step of a stage.
LEMMA TypeStage ==
  ASSUME TypeOK, NEW i \in Stages, StageStep(i), UNCHANGED injects
  PROVE  TypeOK'
<1> USE DEF hookVars, boundVars
<1> DEFINE e == Received(i)
<1>0. /\ ChannelsOK /\ cont \in [Stages -> Seq(Op)] /\ errors \in 0 .. MaxErrors
      /\ Last \in Stages /\ 0 \in Stages /\ Vad \in Stages
      /\ injects' \in 0 .. MaxInject
  BY ChainAssumption DEF TypeOK, Stages
<1>1. CASE RecvStart(i)
  <2>1. ChannelsOK' /\ e \in Envelope
    BY <1>0, <1>1, ReceiveFacts DEF RecvStart
  <2>2. <<Push(e)>> \in Seq(Op)
    BY <2>1, OpsOK, RangeOne
  <2>3. cont' \in [Stages -> Seq(Op)] /\ errors' \in 0 .. MaxErrors
    BY <1>0, <1>1, <2>2, MayFailFacts DEF RecvStart
  <2>4. started' \in [Stages -> BOOLEAN]
    BY <1>1 DEF RecvStart, TypeOK
  <2>5. tap' \in Seq(Kinds)
    BY <1>1 DEF RecvStart, TypeOK, Tap, Kinds, System
  <2> QED BY <1>0, <1>1, <2>1, <2>3, <2>4, <2>5 DEF RecvStart, TypeOK
<1>2. CASE RecvInterruption(i)
  <2>1. ChannelsOK' /\ e \in Envelope
    BY <1>0, <1>2, ReceiveFacts DEF RecvInterruption
  <2>2. <<Drain(e)>> \in Seq(Op)
    BY <2>1, OpsOK, RangeOne
  <2>3. cont' \in [Stages -> Seq(Op)]
    BY <1>0, <1>2, <2>2, ContinueFacts DEF RecvInterruption
  <2> QED BY <1>0, <1>2, <2>1, <2>3 DEF RecvInterruption, TypeOK
<1>3. CASE RecvTerminal(i)
  <2>1. ChannelsOK' /\ e \in Envelope
    BY <1>0, <1>3, ReceiveFacts DEF RecvTerminal
  <2>2. TerminalOps(e) \in Seq(Op)
    BY <2>1, OpsOK
  <2>3. cont' \in [Stages -> Seq(Op)]
    BY <1>0, <1>3, <2>2, ContinueFacts DEF RecvTerminal
  <2> QED BY <1>0, <1>3, <2>1, <2>3 DEF RecvTerminal, TypeOK
<1>4. CASE UserProcess(i)
  <2>1. ChannelsOK' /\ e \in Envelope
    BY <1>0, <1>4, ReceiveFacts DEF UserProcess, ToProcessFrame
  <2>2. Forwarded(i, e) \in Envelope
    BY <2>1 DEF Forwarded, Envelope, TypeOK
  <2> DEFINE fwd == Push(Forwarded(i, e))
             req == Push(Env("End", "up", 0))
  <2>3. /\ fwd \in Op /\ req \in Op /\ ErrorUp \in Op
    BY <2>2, OpsOK, EnvOK
  <2>4. /\ <<fwd>> \in Seq(Op) /\ <<>> \in Seq(Op) /\ <<ErrorUp>> \in Seq(Op)
        /\ <<fwd, req>> \in Seq(Op)
    BY <2>3, RangeOne, RangeTwo, RangeNone
  <2>5. /\ \/ Continue(i, <<fwd>>) \/ Continue(i, <<>>)
           \/ Continue(i, <<fwd, req>>) \/ Continue(i, <<ErrorUp>>)
        /\ \/ requests' = requests
           \/ requests < MaxRequests /\ requests' = requests + 1
        /\ \/ errors' = errors
           \/ errors < MaxErrors /\ errors' = errors + 1
    BY <1>4 DEF UserProcess
  <2>6. cont' \in [Stages -> Seq(Op)]
    BY <1>0, <2>4, <2>5, ContinueFacts
  <2>7. requests' \in 0 .. MaxRequests /\ errors' \in 0 .. MaxErrors
    <3>1. requests \in 0 .. MaxRequests /\ MaxRequests \in Nat /\ MaxErrors \in Nat
      BY ChainAssumption DEF TypeOK
    <3>2. requests' \in 0 .. MaxRequests
      BY <2>5, <3>1
    <3>3. errors' \in 0 .. MaxErrors
      BY <1>0, <2>5, <3>1
    <3> QED BY <3>2, <3>3
  <2> QED BY <1>0, <1>4, <2>1, <2>6, <2>7 DEF UserProcess, TypeOK
<1>5. CASE BridgeForward(i)
  <2>1. ChannelsOK' /\ e \in Envelope
    BY <1>0, <1>5, ReceiveFacts DEF BridgeForward
  <2>2. Push(e) \in Op /\ Exit(e) \in Op
    BY <2>1, OpsOK
  <2>3. <<Push(e)>> \in Seq(Op) /\ <<Push(e), Exit(e)>> \in Seq(Op)
    BY <2>2, RangeOne, RangeTwo
  <2>4. Continue(i, <<Push(e), Exit(e)>>) \/ Continue(i, <<Push(e)>>)
    BY <1>5 DEF BridgeForward
  <2>5. cont' \in [Stages -> Seq(Op)]
    BY <1>0, <2>3, <2>4, ContinueFacts
  <2> QED BY <1>0, <1>5, <2>1, <2>5 DEF BridgeForward, TypeOK
<1>6. CASE PushStep(i)
  <2>1. Head(cont[i]).env \in Envelope /\ Tail(cont[i]) \in Seq(Op)
    BY <1>6, TodoFacts DEF PushStep
  <2>2. ChannelsOK'
    BY <1>0, <1>6, <2>1, TargetInt, SendFacts DEF PushStep
  <2>3. cont' \in [Stages -> Seq(Op)]
    BY <1>0, <1>6, <2>1, ContinueFacts DEF PushStep
  <2> QED BY <1>0, <1>6, <2>2, <2>3 DEF PushStep, TypeOK
<1>7. CASE DrainStep(i)
  <2> DEFINE h == Head(norm[i])
             int == Head(cont[i]).env
  <2>1. int \in Envelope
    BY <1>7, TodoFacts DEF DrainStep
  <2>2. ChannelsOK' /\ h \in Envelope
    BY <1>0, <1>7, DrainFacts DEF DrainStep
  <2>3. CASE ~ Uninterruptible(h.kind)
    BY <1>0, <1>7, <2>2, <2>3 DEF DrainStep, TypeOK
  <2>4. CASE Uninterruptible(h.kind) /\ h.dir = "down" /\ Terminal(h.kind)
    <3>1. /\ seen' = [seen EXCEPT ![i] = Latest(@, int.gen)]
          /\ MayFail(i, <<Push(int)>> \o TerminalOps(h))
      BY <1>7, <2>4 DEF DrainStep
    <3>2. <<Push(int)>> \o TerminalOps(h) \in Seq(Op)
      BY <2>1, <2>2, OpsOK, RangePrefix
    <3>3. cont' \in [Stages -> Seq(Op)] /\ errors' \in 0 .. MaxErrors
      BY <1>0, <3>1, <3>2, MayFailFacts
    <3>4. seen' \in [Stages -> 0 .. MaxGen]
      BY <3>1, <2>1 DEF TypeOK, Latest, Envelope
    <3> QED BY <1>0, <1>7, <2>2, <3>3, <3>4 DEF DrainStep, TypeOK
  <2>5. CASE Uninterruptible(h.kind) /\ ~ (h.dir = "down" /\ Terminal(h.kind))
    <3>1. Continue(i, <<Push(h)>> \o cont[i]) /\ UNCHANGED <<seen, errors>>
      BY <1>7, <2>5 DEF DrainStep
    <3>2. cont[i] \in Seq(Op) /\ Push(h) \in Op
      BY <1>0, <2>2, OpsOK
    <3>3. <<Push(h)>> \o cont[i] \in Seq(Op)
      BY <3>2, RangePrefix
    <3>4. cont' \in [Stages -> Seq(Op)]
      BY <1>0, <3>1, <3>3, ContinueFacts
    <3> QED BY <1>0, <1>7, <2>2, <3>1, <3>4 DEF DrainStep, TypeOK
  <2> QED BY <2>3, <2>4, <2>5
<1>8. CASE DrainDone(i)
  <2> DEFINE int == Head(cont[i]).env
  <2>1. int \in Envelope
    BY <1>8, TodoFacts DEF DrainDone
  <2>2. <<Push(int)>> \in Seq(Op)
    BY <2>1, OpsOK, RangeOne
  <2>3. cont' \in [Stages -> Seq(Op)] /\ errors' \in 0 .. MaxErrors
    BY <1>0, <1>8, <2>2, MayFailFacts DEF DrainDone
  <2>4. seen' \in [Stages -> 0 .. MaxGen]
    BY <1>8, <2>1 DEF DrainDone, TypeOK, Latest, Envelope
  <2>5. ChannelsOK'
    BY <1>0, <1>8 DEF DrainDone, ChannelsOK, chanVars
  <2> QED BY <1>0, <1>8, <2>3, <2>4, <2>5 DEF DrainDone, TypeOK
<1>9. CASE StopStep(i)
  <2>1. Head(cont[i]).env \in Envelope /\ Tail(cont[i]) \in Seq(Op)
    BY <1>9, TodoFacts DEF StopStep
  <2>2. cont' \in [Stages -> Seq(Op)] /\ errors' \in 0 .. MaxErrors
    BY <1>0, <1>9, <2>1, MayFailFacts DEF StopStep
  <2>3. stops' \in [Stages -> Nat]
    BY <1>9 DEF StopStep, TypeOK
  <2>4. Head(cont[i]).env.kind \in Kinds
    BY <2>1 DEF Envelope
  <2>5. tap' \in Seq(Kinds)
    BY <1>9, <2>4 DEF StopStep, TypeOK, Tap
  <2>6. ChannelsOK'
    BY <1>0, <1>9 DEF StopStep, ChannelsOK, chanVars
  <2> QED BY <1>0, <1>9, <2>2, <2>3, <2>5, <2>6 DEF StopStep, TypeOK
<1>10. CASE ExitStep(i)
  <2>1. ChannelsOK'
    BY <1>0, <1>10, ExitFacts DEF ExitStep
  <2>2. cont' \in [Stages -> Seq(Op)]
    BY <1>0, <1>10, ContinueFacts, RangeNone DEF ExitStep
  <2>3. live' \in [Stages -> BOOLEAN]
    BY <1>10 DEF ExitStep, TypeOK
  <2> QED BY <1>0, <1>10, <2>1, <2>2, <2>3 DEF ExitStep, TypeOK
<1>11. CASE i = 0 /\ SourceProcess
  <2>1. ChannelsOK' /\ e \in Envelope
    BY <1>0, <1>11, ReceiveFacts DEF SourceProcess, ToProcessFrame
  <2> DEFINE f == IF Terminal(e.kind) THEN [e EXCEPT !.dir = "down"] ELSE e
  <2>2. f \in Envelope
    BY <2>1 DEF Envelope
  <2>3. <<Push(f)>> \in Seq(Op)
    BY <2>2, OpsOK, RangeOne
  <2>4. cont' \in [Stages -> Seq(Op)]
    BY <1>0, <1>11, <2>3, ContinueFacts DEF SourceProcess
  <2> QED BY <1>0, <1>11, <2>1, <2>4 DEF SourceProcess, TypeOK
<1>12. CASE i = Last /\ SinkProcess
  <2>1. ChannelsOK' /\ e \in Envelope
    BY <1>0, <1>12, ReceiveFacts DEF SinkProcess, ToProcessFrame
  <2>2. <<Push(e)>> \in Seq(Op)
    BY <2>1, OpsOK, RangeOne
  <2>3. cont' \in [Stages -> Seq(Op)]
    BY <1>0, <1>12, <2>2, ContinueFacts DEF SinkProcess
  <2>4. e.kind \in Kinds
    BY <2>1 DEF Envelope
  <2>5. tap' = tap \/ tap' = Append(tap, e.kind)
    BY <1>12 DEF SinkProcess, Tap
  <2>6. tap' \in Seq(Kinds)
    <3>1. tap \in Seq(Kinds)
      BY DEF TypeOK
    <3> QED BY <2>4, <2>5, <3>1, AppendProperties
  <2> QED BY <1>0, <1>12, <2>1, <2>3, <2>6 DEF SinkProcess, TypeOK
<1>13. CASE i = Vad /\ BargeIn
  <2>1. ChannelsOK' /\ e \in Envelope
    BY <1>0, <1>13, ReceiveFacts DEF BargeIn, ToProcessFrame
  <2>2. gens' = gens + 1 /\ gens' \in 0 .. MaxGen
    BY <1>13, ChainAssumption DEF BargeIn, TypeOK
  <2> DEFINE down == Push(Env("Interruption", "down", gens + 1))
             up == Push(Env("Interruption", "up", gens + 1))
  <2>3. down \in Op /\ up \in Op /\ Push(e) \in Op
    BY <2>1, <2>2, EnvOK, OpsOK
  <2>4. <<down, up, Push(e)>> \in Seq(Op)
    BY <2>3, RangeThree
  <2>5. cont' \in [Stages -> Seq(Op)]
    BY <1>0, <1>13, <2>4, ContinueFacts DEF BargeIn
  <2> QED BY <1>0, <1>13, <2>1, <2>2, <2>5 DEF BargeIn, TypeOK
<1> QED BY <1>1, <1>2, <1>3, <1>4, <1>5, <1>6, <1>7, <1>8, <1>9, <1>10, <1>11,
           <1>12, <1>13 DEF StageStep

\* TypeOK is preserved when the task sends a frame to the head.
LEMMA TypeInject ==
  ASSUME TypeOK, NEW kind \in Injected, Inject(kind)
  PROVE  TypeOK'
<1>1. Env(kind, "down", 0) \in Envelope
  BY ChainAssumption, EnvOK
<1>2. ChannelsOK'
  BY <1>1, SendFacts DEF Inject, TypeOK
<1>3. injects' \in 0 .. MaxInject
  BY ChainAssumption DEF Inject, TypeOK
<1> QED BY <1>2, <1>3 DEF Inject, TypeOK, hookVars, boundVars

\* Every reachable state is well formed: frames stay in the channel of their
\* class and backpressure keeps every normal channel within its capacity.
THEOREM TypeCorrect == Spec => []TypeOK
<1>1. Init => TypeOK
  BY TypeInit
<1>2. TypeOK /\ [Next]_vars => TypeOK'
  <2> SUFFICES ASSUME TypeOK, [Next]_vars PROVE TypeOK'
    OBVIOUS
  <2>1. ASSUME NEW i \in Stages, StageStep(i), UNCHANGED injects PROVE TypeOK'
    BY <2>1, TypeStage
  <2>2. ASSUME NEW kind \in Injected, Inject(kind) PROVE TypeOK'
    BY <2>2, TypeInject
  <2>3. CASE UNCHANGED vars
    BY <2>3 DEF vars, chainVars, TypeOK, ChannelsOK
  <2> QED BY <2>1, <2>2, <2>3 DEF Next
<1> QED BY <1>1, <1>2, PTL DEF Spec

-----------------------------------------------------------------------------
(* What each step of a stage leaves to be done.                            *)

Only(i) == \A j \in Stages : j # i => cont'[j] = cont[j]

\* A handler runs on an envelope, and the operations on it are well formed.
LEMMA ReceivedOps ==
  ASSUME TypeOK, NEW i \in Stages, Ready(i), Receive(i)
  PROVE  /\ Received(i) \in Envelope
         /\ Push(Received(i)) \in Op /\ Drain(Received(i)) \in Op
         /\ Exit(Received(i)) \in Op /\ TerminalOps(Received(i)) \in Seq(Op)
<1>1. Received(i) \in Envelope
  BY ReceiveFacts DEF TypeOK
<1> QED BY <1>1, OpsOK

\* The lists that the arms of the loop set up, one lemma for each.
LEMMA StartOps ==
  ASSUME TypeOK, NEW i \in Stages, RecvStart(i)
  PROVE  Only(i) /\ Range(cont'[i]) \subseteq {Push(Received(i)), ErrorUp}
<1> DEFINE e == Received(i)
<1>1. <<Push(e)>> \in Seq(Op) /\ Range(<<Push(e)>>) = {Push(e)}
  BY ReceivedOps, RangeOne DEF RecvStart
<1>2. MayFail(i, <<Push(e)>>)
  BY DEF RecvStart
<1>3. Only(i) /\ Range(cont'[i]) \subseteq Range(<<Push(e)>>) \cup {ErrorUp}
  BY <1>1, <1>2, MayFailFacts DEF Only, TypeOK
<1> QED BY <1>1, <1>3

LEMMA InterruptionOps ==
  ASSUME TypeOK, NEW i \in Stages, RecvInterruption(i)
  PROVE  Only(i) /\ Range(cont'[i]) = {Drain(Received(i))}
<1> DEFINE e == Received(i)
<1>1. <<Drain(e)>> \in Seq(Op) /\ Range(<<Drain(e)>>) = {Drain(e)}
  BY ReceivedOps, RangeOne DEF RecvInterruption
<1> QED BY <1>1, ContinueFacts DEF RecvInterruption, Only, TypeOK

LEMMA TerminalRecvOps ==
  ASSUME TypeOK, NEW i \in Stages, RecvTerminal(i)
  PROVE  Only(i) /\ cont'[i] = TerminalOps(Received(i))
<1>1. TerminalOps(Received(i)) \in Seq(Op)
  BY ReceivedOps DEF RecvTerminal
<1> QED BY <1>1, ContinueFacts DEF RecvTerminal, Only, TypeOK

LEMMA UserOps ==
  ASSUME TypeOK, NEW i \in Stages, UserProcess(i)
  PROVE  /\ Only(i)
         /\ Range(cont'[i]) \subseteq {Push(Forwarded(i, Received(i))),
                                      Push(Env("End", "up", 0)), ErrorUp}
<1> DEFINE fwd == Push(Forwarded(i, Received(i)))
           req == Push(Env("End", "up", 0))
<1>1. Received(i) \in Envelope
  BY ReceivedOps DEF UserProcess, ToProcessFrame
<1>2. Forwarded(i, Received(i)) \in Envelope
  BY <1>1 DEF Forwarded, Envelope, TypeOK
<1>3. fwd \in Op /\ req \in Op /\ ErrorUp \in Op
  BY <1>2, OpsOK, EnvOK
<1>4. /\ <<fwd>> \in Seq(Op) /\ Range(<<fwd>>) = {fwd}
      /\ <<ErrorUp>> \in Seq(Op) /\ Range(<<ErrorUp>>) = {ErrorUp}
  BY <1>3, RangeOne
<1>5. <<fwd, req>> \in Seq(Op) /\ Range(<<fwd, req>>) = {fwd, req}
  BY <1>3, RangeTwo
<1>6. <<>> \in Seq(Op) /\ Range(<<>>) = {}
  BY RangeNone
<1>7. \/ Continue(i, <<fwd>>) \/ Continue(i, <<>>)
      \/ Continue(i, <<fwd, req>>) \/ Continue(i, <<ErrorUp>>)
  BY DEF UserProcess
<1>8. /\ \A j \in Stages : j # i => cont'[j] = cont[j]
      /\ \/ cont'[i] = <<fwd>> \/ cont'[i] = <<>>
         \/ cont'[i] = <<fwd, req>> \/ cont'[i] = <<ErrorUp>>
  BY <1>4, <1>5, <1>6, <1>7, ContinueFacts DEF TypeOK
<1> QED BY <1>4, <1>5, <1>6, <1>8 DEF Only

LEMMA BridgeOps ==
  ASSUME TypeOK, NEW i \in Stages, BridgeForward(i)
  PROVE  /\ Only(i)
         /\ \/ ~ Terminal(Received(i).kind) /\ cont'[i] = <<Push(Received(i))>>
            \/ /\ Terminal(Received(i).kind)
               /\ cont'[i] = <<Push(Received(i)), Exit(Received(i))>>
         /\ Push(Received(i)) \in Range(cont'[i])
         /\ Range(cont'[i]) \subseteq {Push(Received(i)), Exit(Received(i))}
<1> DEFINE e == Received(i)
<1>1. Push(e) \in Op /\ Exit(e) \in Op
  BY ReceivedOps DEF BridgeForward
<1>2. /\ <<Push(e)>> \in Seq(Op) /\ Range(<<Push(e)>>) = {Push(e)}
      /\ <<Push(e), Exit(e)>> \in Seq(Op)
      /\ Range(<<Push(e), Exit(e)>>) = {Push(e), Exit(e)}
  BY <1>1, RangeOne, RangeTwo
<1>3. CASE Terminal(e.kind)
  <2>1. Continue(i, <<Push(e), Exit(e)>>)
    BY <1>3 DEF BridgeForward
  <2> QED BY <1>2, <1>3, <2>1, ContinueFacts DEF Only, TypeOK
<1>4. CASE ~ Terminal(e.kind)
  <2>1. Continue(i, <<Push(e)>>)
    BY <1>4 DEF BridgeForward
  <2> QED BY <1>2, <1>4, <2>1, ContinueFacts DEF Only, TypeOK
<1> QED BY <1>3, <1>4

LEMMA SourceOps ==
  ASSUME TypeOK, 0 \in Stages, SourceProcess
  PROVE  /\ Only(0)
         /\ \/ Range(cont'[0]) = {Push(Received(0))}
            \/ /\ Terminal(Received(0).kind)
               /\ Range(cont'[0]) = {Push([Received(0) EXCEPT !.dir = "down"])}
<1> DEFINE e == Received(0)
           f == IF Terminal(e.kind) THEN [e EXCEPT !.dir = "down"] ELSE e
<1>1. e \in Envelope
  BY ReceivedOps DEF SourceProcess, ToProcessFrame
<1>2. f \in Envelope
  BY <1>1 DEF Envelope
<1>3. <<Push(f)>> \in Seq(Op) /\ Range(<<Push(f)>>) = {Push(f)}
  BY <1>2, OpsOK, RangeOne
<1>4. Continue(0, <<Push(f)>>)
  BY DEF SourceProcess
<1>5. Only(0) /\ Range(cont'[0]) = {Push(f)}
  BY <1>3, <1>4, ContinueFacts DEF Only, TypeOK
<1> QED BY <1>5

LEMMA SinkOps ==
  ASSUME TypeOK, Last \in Stages, SinkProcess
  PROVE  Only(Last) /\ Range(cont'[Last]) = {Push(Received(Last))}
<1> DEFINE e == Received(Last)
<1>1. <<Push(e)>> \in Seq(Op) /\ Range(<<Push(e)>>) = {Push(e)}
  BY ReceivedOps, RangeOne DEF SinkProcess, ToProcessFrame
<1> QED BY <1>1, ContinueFacts DEF SinkProcess, Only, TypeOK

LEMMA BargeOps ==
  ASSUME TypeOK, Vad \in Stages, BargeIn
  PROVE  /\ Only(Vad)
         /\ Range(cont'[Vad]) = {Push(Env("Interruption", "down", gens + 1)),
                                 Push(Env("Interruption", "up", gens + 1)),
                                 Push(Received(Vad))}
<1> DEFINE e == Received(Vad)
           down == Push(Env("Interruption", "down", gens + 1))
           up == Push(Env("Interruption", "up", gens + 1))
<1>1. gens + 1 \in 0 .. MaxGen
  BY ChainAssumption DEF BargeIn, TypeOK
<1>2. Push(e) \in Op
  BY ReceivedOps DEF BargeIn, ToProcessFrame
<1>3. down \in Op /\ up \in Op
  BY <1>1, EnvOK, OpsOK
<1>4. <<down, up, Push(e)>> \in Seq(Op) /\ Range(<<down, up, Push(e)>>) = {down, up, Push(e)}
  BY <1>2, <1>3, RangeThree
<1>5. Continue(Vad, <<down, up, Push(e)>>)
  BY DEF BargeIn
<1> QED BY <1>4, <1>5, ContinueFacts DEF Only, TypeOK

\* The Source, the Sink and the VAD stage are stages.
LEMMA StagesOK == 0 \in Stages /\ Last \in Stages /\ Vad \in Stages
BY ChainAssumption DEF Stages

\* The steps that go on with a list.
LEMMA ContinueOps ==
  ASSUME TypeOK, NEW i \in Stages
  PROVE  /\ PushStep(i) => Only(i) /\ cont'[i] = Tail(cont[i])
         /\ StopStep(i) =>
              /\ Only(i)
              /\ Range(Tail(cont[i])) \subseteq Range(cont'[i])
              /\ Range(cont'[i]) \subseteq Range(Tail(cont[i])) \cup {ErrorUp}
              /\ i \notin 1 .. (Last - 1) => cont'[i] = Tail(cont[i])
         /\ ExitStep(i) => Only(i) /\ cont'[i] = <<>>
         /\ DrainDone(i) =>
              /\ Only(i)
              /\ Push(Head(cont[i]).env) \in Range(cont'[i])
              /\ Range(cont'[i]) \subseteq {Push(Head(cont[i]).env), ErrorUp}
         /\ DrainStep(i) =>
              LET h == Head(norm[i]) IN
              /\ Only(i)
              /\ \/ ~ Uninterruptible(h.kind) /\ cont'[i] = cont[i] /\ seen' = seen
                 \/ /\ Uninterruptible(h.kind) /\ h.dir = "down" /\ Terminal(h.kind)
                    /\ {Push(Head(cont[i]).env)} \cup Range(TerminalOps(h))
                         \subseteq Range(cont'[i])
                    /\ Range(cont'[i]) \subseteq {Push(Head(cont[i]).env), ErrorUp}
                                                 \cup Range(TerminalOps(h))
                    /\ seen' = [seen EXCEPT ![i] = Latest(@, Head(cont[i]).env.gen)]
                 \/ /\ Uninterruptible(h.kind) /\ ~ (h.dir = "down" /\ Terminal(h.kind))
                    /\ Range(cont'[i]) = {Push(h)} \cup Range(cont[i])
                    /\ seen' = seen
<1>0. cont \in [Stages -> Seq(Op)] /\ ChannelsOK /\ errors \in 0 .. MaxErrors
  BY DEF TypeOK
<1>1. ASSUME PushStep(i) PROVE Only(i) /\ cont'[i] = Tail(cont[i])
  <2>1. Tail(cont[i]) \in Seq(Op)
    BY <1>1, TodoFacts DEF PushStep
  <2> QED BY <1>0, <1>1, <2>1, ContinueFacts DEF PushStep, Only
<1>2. ASSUME StopStep(i)
      PROVE  /\ Only(i)
             /\ Range(Tail(cont[i])) \subseteq Range(cont'[i])
             /\ Range(cont'[i]) \subseteq Range(Tail(cont[i])) \cup {ErrorUp}
             /\ i \notin 1 .. (Last - 1) => cont'[i] = Tail(cont[i])
  <2>1. Tail(cont[i]) \in Seq(Op)
    BY <1>2, TodoFacts DEF StopStep
  <2>2. MayFail(i, Tail(cont[i]))
    BY <1>2 DEF StopStep
  <2> QED BY <1>0, <2>1, <2>2, MayFailFacts DEF Only
<1>3. ASSUME ExitStep(i) PROVE Only(i) /\ cont'[i] = <<>>
  BY <1>0, <1>3, RangeNone, ContinueFacts DEF ExitStep, Only
<1>4. ASSUME DrainDone(i)
      PROVE  /\ Only(i)
             /\ Push(Head(cont[i]).env) \in Range(cont'[i])
             /\ Range(cont'[i]) \subseteq {Push(Head(cont[i]).env), ErrorUp}
  <2> DEFINE int == Head(cont[i]).env
  <2>1. Push(int) \in Op
    BY <1>4, TodoFacts, OpsOK DEF DrainDone
  <2>2. <<Push(int)>> \in Seq(Op) /\ Range(<<Push(int)>>) = {Push(int)}
    BY <2>1, RangeOne
  <2>3. MayFail(i, <<Push(int)>>)
    BY <1>4 DEF DrainDone
  <2>4. /\ Only(i)
        /\ Range(<<Push(int)>>) \subseteq Range(cont'[i])
        /\ Range(cont'[i]) \subseteq Range(<<Push(int)>>) \cup {ErrorUp}
    BY <1>0, <2>2, <2>3, MayFailFacts DEF Only
  <2> QED BY <2>2, <2>4
<1>5. ASSUME DrainStep(i)
      PROVE  LET h == Head(norm[i]) IN
              /\ Only(i)
              /\ \/ ~ Uninterruptible(h.kind) /\ cont'[i] = cont[i] /\ seen' = seen
                 \/ /\ Uninterruptible(h.kind) /\ h.dir = "down" /\ Terminal(h.kind)
                    /\ {Push(Head(cont[i]).env)} \cup Range(TerminalOps(h))
                         \subseteq Range(cont'[i])
                    /\ Range(cont'[i]) \subseteq {Push(Head(cont[i]).env), ErrorUp}
                                                 \cup Range(TerminalOps(h))
                    /\ seen' = [seen EXCEPT ![i] = Latest(@, Head(cont[i]).env.gen)]
                 \/ /\ Uninterruptible(h.kind) /\ ~ (h.dir = "down" /\ Terminal(h.kind))
                    /\ Range(cont'[i]) = {Push(h)} \cup Range(cont[i])
                    /\ seen' = seen
  <2> DEFINE h == Head(norm[i])
             int == Head(cont[i]).env
  <2>1. h \in Envelope
    BY <1>0, <1>5, DrainFacts DEF DrainStep
  <2>2. Push(int) \in Op
    BY <1>5, TodoFacts, OpsOK DEF DrainStep
  <2>3. CASE ~ Uninterruptible(h.kind)
    BY <1>5, <2>3 DEF DrainStep, Only
  <2>4. CASE Uninterruptible(h.kind) /\ h.dir = "down" /\ Terminal(h.kind)
    <3>1. /\ seen' = [seen EXCEPT ![i] = Latest(@, int.gen)]
          /\ MayFail(i, <<Push(int)>> \o TerminalOps(h))
      BY <1>5, <2>4 DEF DrainStep
    <3>2. TerminalOps(h) \in Seq(Op)
      BY <2>1, OpsOK
    <3>3. /\ <<Push(int)>> \o TerminalOps(h) \in Seq(Op)
          /\ Range(<<Push(int)>> \o TerminalOps(h)) = {Push(int)} \cup Range(TerminalOps(h))
      BY <2>2, <3>2, RangePrefix
    <3>4. /\ Only(i)
          /\ Range(<<Push(int)>> \o TerminalOps(h)) \subseteq Range(cont'[i])
          /\ Range(cont'[i]) \subseteq Range(<<Push(int)>> \o TerminalOps(h)) \cup {ErrorUp}
      BY <1>0, <3>1, <3>3, MayFailFacts DEF Only
    <3> QED BY <2>4, <3>1, <3>3, <3>4
  <2>5. CASE Uninterruptible(h.kind) /\ ~ (h.dir = "down" /\ Terminal(h.kind))
    <3>1. Continue(i, <<Push(h)>> \o cont[i]) /\ seen' = seen
      BY <1>5, <2>5 DEF DrainStep
    <3>2. Push(h) \in Op /\ cont[i] \in Seq(Op)
      BY <1>0, <2>1, OpsOK
    <3>3. /\ <<Push(h)>> \o cont[i] \in Seq(Op)
          /\ Range(<<Push(h)>> \o cont[i]) = {Push(h)} \cup Range(cont[i])
      BY <3>2, RangePrefix
    <3>4. Only(i) /\ cont'[i] = <<Push(h)>> \o cont[i]
      BY <1>0, <3>1, <3>3, ContinueFacts DEF Only
    <3> QED BY <2>5, <3>1, <3>3, <3>4
  <2> QED BY <2>3, <2>4, <2>5
<1> QED BY <1>1, <1>2, <1>3, <1>4, <1>5

-----------------------------------------------------------------------------
(* Steps that receive a frame, and steps that go on with a list.           *)

Handles(i) ==
  \/ RecvStart(i) \/ RecvInterruption(i) \/ RecvTerminal(i) \/ UserProcess(i)
  \/ BridgeForward(i) \/ (i = 0 /\ SourceProcess) \/ (i = Last /\ SinkProcess)
  \/ (i = Vad /\ BargeIn)

\* A handler takes one frame out of a channel of its idle stage.
LEMMA HandlesFacts ==
  ASSUME TypeOK, NEW i \in Stages, Handles(i)
  PROVE  /\ Ready(i) /\ Receive(i) /\ Only(i)
         /\ cont[i] = <<>> /\ Range(cont[i]) = {}
         /\ live' = live /\ stops' = stops /\ seen' = seen
         /\ Received(i) \in Envelope
<1>1. Ready(i) /\ Receive(i) /\ live' = live /\ stops' = stops /\ seen' = seen
  BY DEF Handles, RecvStart, RecvInterruption, RecvTerminal, UserProcess, BridgeForward,
         SourceProcess, SinkProcess, BargeIn, ToProcessFrame, hookVars
<1>2. Only(i)
  BY StagesOK, StartOps, InterruptionOps, TerminalRecvOps, UserOps, BridgeOps, SourceOps,
     SinkOps, BargeOps DEF Handles
<1>3. cont[i] = <<>> /\ Range(cont[i]) = {}
  BY <1>1, RangeNone DEF Ready
<1>4. Received(i) \in Envelope
  BY <1>1, ReceiveFacts DEF TypeOK
<1> QED BY <1>1, <1>2, <1>3, <1>4

\* StageStep is a handler or goes on with a list.
LEMMA StageCases ==
  ASSUME NEW i \in Stages, StageStep(i)
  PROVE  Handles(i) \/ PushStep(i) \/ DrainStep(i) \/ DrainDone(i) \/ StopStep(i)
         \/ ExitStep(i)
BY DEF StageStep, Handles

\* Where the frames of a stage come from after a step of stage i.
LEMMA CarriedStage ==
  ASSUME TypeOK, NEW i \in Stages, StageStep(i), NEW j \in Stages, NEW f \in Carried(j)'
  PROVE  \/ f \in Carried(j)
         \/ j = i /\ f \in {Env("Error", "up", 0), Env("End", "up", 0)}
         \/ j = i /\ i = 0 /\ \E e \in Carried(i) : Terminal(e.kind) /\ f = [e EXCEPT !.dir = "down"]
         \/ j = i /\ i = Vad /\ gens' = gens + 1
            /\ f \in {Env("Interruption", "down", gens + 1), Env("Interruption", "up", gens + 1)}
         \/ j = i /\ \E e \in Carried(i) : f = Forwarded(i, e)
         \/ j # i /\ PushStep(i) /\ f = Head(cont[i]).env /\ j = Target(i, f)
<1>0. ChannelsOK /\ cont \in [Stages -> Seq(Op)]
  BY DEF TypeOK
<1>e. ErrorUp.env = Env("Error", "up", 0)
  BY DEF ErrorUp, Push
<1>p. \A e : Push(e).env = e /\ Drain(e).env = e /\ StopHook(e).env = e /\ Exit(e).env = e
  BY DEF Push, Drain, StopHook, Exit
<1>1. CASE Handles(i)
  <2> DEFINE e == Received(i)
  <2>1. /\ Ready(i) /\ Receive(i) /\ Only(i) /\ e \in Envelope
    BY <1>1, HandlesFacts
  <2>2. /\ Range(sys'[j]) \subseteq Range(sys[j]) /\ Range(norm'[j]) \subseteq Range(norm[j])
        /\ e \in Range(sys[i]) \cup Range(norm[i])
    BY <1>0, <2>1, ReceiveFacts
  <2>3. CASE j # i
    BY <2>1, <2>2, <2>3 DEF Only, Carried
  <2>4. CASE j = i /\ f \in Range(sys'[i]) \cup Range(norm'[i])
    BY <2>2, <2>4 DEF Carried
  <2>5. CASE j = i /\ \E o \in Range(cont'[i]) : f = o.env
    <3>0. e \in Carried(i)
      BY <2>2 DEF Carried
    <3>1. CASE RecvStart(i)
      <4>1. Range(cont'[i]) \subseteq {Push(e), ErrorUp}
        BY <3>1, StartOps
      <4> QED BY <2>5, <3>0, <4>1, <1>e, <1>p
    <3>2. CASE RecvInterruption(i)
      <4>1. Range(cont'[i]) = {Drain(e)}
        BY <3>2, InterruptionOps
      <4> QED BY <2>5, <3>0, <4>1, <1>p
    <3>3. CASE RecvTerminal(i)
      <4>1. Range(cont'[i]) \subseteq {StopHook(e), Push(e), Exit(e)}
        BY <3>3, <2>1, TerminalRecvOps, OpsOK
      <4> QED BY <2>5, <3>0, <4>1, <1>p
    <3>4. CASE UserProcess(i)
      <4>1. Range(cont'[i]) \subseteq {Push(Forwarded(i, e)), Push(Env("End", "up", 0)), ErrorUp}
        BY <3>4, UserOps
      <4> QED BY <2>5, <3>0, <4>1, <1>e, <1>p
    <3>5. CASE BridgeForward(i)
      <4>1. Range(cont'[i]) \subseteq {Push(e), Exit(e)}
        BY <3>5, BridgeOps
      <4> QED BY <2>5, <3>0, <4>1, <1>p
    <3>6. CASE i = 0 /\ SourceProcess
      <4>1. Range(cont'[i]) \subseteq {Push([e EXCEPT !.dir = "down"]), Push(e)}
        BY <3>6, SourceOps
      <4>6. Terminal(e.kind) \/ Range(cont'[i]) = {Push(e)}
        BY <3>6, SourceOps
      <4> DEFINE g == [e EXCEPT !.dir = "down"]
      <4>2. \A o \in Range(cont'[i]) : o.env = g \/ o.env = e
        <5> HIDE DEF e, g
        <5> QED BY <4>1, <1>p DEF g
      <4>3. f = g \/ f = e
        BY <2>5, <4>2
      <4>7. Terminal(e.kind) \/ f = e
        BY <2>5, <4>6, <1>p
      <4>4. CASE f = g
        BY <2>5, <3>0, <3>6, <4>4, <4>7
      <4>5. CASE f = e
        BY <2>5, <3>0, <4>5
      <4> QED BY <4>3, <4>4, <4>5
    <3>7. CASE i = Last /\ SinkProcess
      <4>1. Range(cont'[i]) = {Push(e)}
        BY <3>7, SinkOps
      <4> QED BY <2>5, <3>0, <4>1, <1>p
    <3>8. CASE i = Vad /\ BargeIn
      <4>1. Range(cont'[i]) = {Push(Env("Interruption", "down", gens + 1)),
                               Push(Env("Interruption", "up", gens + 1)), Push(e)}
        BY <3>8, BargeOps
      <4>2. gens' = gens + 1
        BY <3>8 DEF BargeIn
      <4> QED BY <2>5, <3>0, <3>8, <4>1, <4>2, <1>p
    <3> QED BY <1>1, <3>1, <3>2, <3>3, <3>4, <3>5, <3>6, <3>7, <3>8 DEF Handles
  <2> QED BY <2>3, <2>4, <2>5 DEF Carried
<1>2. CASE PushStep(i)
  <2> DEFINE e == Head(cont[i]).env
  <2>1. /\ e \in Envelope /\ Range(cont[i]) = {Head(cont[i])} \cup Range(Tail(cont[i]))
    BY <1>2, TodoFacts DEF PushStep
  <2>2. Only(i) /\ cont'[i] = Tail(cont[i])
    BY <1>2, ContinueOps
  <2>3. Send(Target(i, e), e)
    BY <1>2 DEF PushStep
  <2>t. Target(i, e) \in Int
    BY TargetInt
  <2>4. /\ j # Target(i, e) => sys'[j] = sys[j] /\ norm'[j] = norm[j]
        /\ Range(sys'[j]) \cup Range(norm'[j]) \subseteq Range(sys[j]) \cup Range(norm[j]) \cup {e}
    BY <1>0, <2>1, <2>3, <2>t, SendFacts
  <2>5. e \in Carried(i)
    BY <2>1 DEF Carried
  <2> QED BY <1>2, <2>1, <2>2, <2>4, <2>5 DEF Only, Carried
<1>3. CASE DrainStep(i)
  <2> DEFINE h == Head(norm[i])
             int == Head(cont[i]).env
  <2>1. Range(cont[i]) = {Head(cont[i])} \cup Range(Tail(cont[i]))
    BY <1>3, TodoFacts DEF DrainStep
  <2>2. /\ h \in Envelope /\ sys' = sys
        /\ \A k \in Stages : Range(norm'[k]) \subseteq Range(norm[k])
        /\ Range(norm[i]) = {h} \cup Range(norm'[i])
    BY <1>0, <1>3, DrainFacts DEF DrainStep
  <2>3. /\ Only(i)
        /\ \/ cont'[i] = cont[i]
           \/ Range(cont'[i]) \subseteq {Push(int), ErrorUp, StopHook(h), Push(h), Exit(h)}
           \/ Range(cont'[i]) = {Push(h)} \cup Range(cont[i])
    BY <1>3, <2>2, ContinueOps, OpsOK
  <2>4. int \in Carried(i) /\ h \in Carried(i)
    BY <2>1, <2>2 DEF Carried
  <2> QED BY <2>2, <2>3, <2>4, <1>e, <1>p DEF Only, Carried
<1>4. CASE DrainDone(i)
  <2> DEFINE int == Head(cont[i]).env
  <2>1. Range(cont[i]) = {Head(cont[i])} \cup Range(Tail(cont[i]))
    BY <1>4, TodoFacts DEF DrainDone
  <2>2. sys' = sys /\ norm' = norm
    BY <1>4 DEF DrainDone, chanVars
  <2>3. Only(i) /\ Range(cont'[i]) \subseteq {Push(int), ErrorUp}
    BY <1>4, ContinueOps
  <2>4. int \in Carried(i)
    BY <2>1 DEF Carried
  <2> QED BY <2>2, <2>3, <2>4, <1>e, <1>p DEF Only, Carried
<1>5. CASE StopStep(i)
  <2>1. Range(cont[i]) = {Head(cont[i])} \cup Range(Tail(cont[i]))
    BY <1>5, TodoFacts DEF StopStep
  <2>2. sys' = sys /\ norm' = norm
    BY <1>5 DEF StopStep, chanVars
  <2>3. Only(i) /\ Range(cont'[i]) \subseteq Range(Tail(cont[i])) \cup {ErrorUp}
    BY <1>5, ContinueOps
  <2> QED BY <2>1, <2>2, <2>3, <1>e DEF Only, Carried
<1>6. CASE ExitStep(i)
  <2>1. Only(i) /\ cont'[i] = <<>>
    BY <1>6, ContinueOps
  <2>2. /\ \A k \in Stages : k # i => sys'[k] = sys[k] /\ norm'[k] = norm[k]
        /\ Range(sys'[i]) = {} /\ Range(norm'[i]) = {}
    BY <1>0, <1>6, ExitFacts DEF ExitStep
  <2>3. Range(cont'[i]) = {}
    BY <2>1, RangeNone
  <2> QED BY <2>1, <2>2, <2>3 DEF Only, Carried
<1> QED BY <1>1, <1>2, <1>3, <1>4, <1>5, <1>6, StageCases

-----------------------------------------------------------------------------
(* No frame of kind Stop is in the chain.                                  *)

\* What a user's processor forwards keeps its kind and its direction.
LEMMA ForwardedFacts ==
  ASSUME NEW i, NEW e \in Envelope
  PROVE  Forwarded(i, e).kind = e.kind /\ Forwarded(i, e).dir = e.dir
BY DEF Forwarded, Envelope

\* Every frame that a stage carries is an envelope.
LEMMA CarriedOK ==
  ASSUME TypeOK, NEW i \in Stages, NEW e \in Carried(i)
  PROVE  e \in Envelope
<1>1. /\ sys[i] \in Seq(Envelope) /\ norm[i] \in Seq(Envelope) /\ cont[i] \in Seq(Op)
  BY DEF TypeOK, ChannelsOK
<1>2. Range(sys[i]) \subseteq Envelope /\ Range(norm[i]) \subseteq Envelope
      /\ Range(cont[i]) \subseteq Op
  BY <1>1, RangeEquality
<1> QED BY <1>2 DEF Carried, Op

\* A frame that is put in at the head is carried by the Source only.
LEMMA CarriedInject ==
  ASSUME TypeOK, NEW kind \in Injected, Inject(kind), NEW j \in Stages, NEW f \in Carried(j)'
  PROVE  f \in Carried(j) \/ (j = 0 /\ f = Env(kind, "down", 0))
<1>1. Env(kind, "down", 0) \in Envelope
  BY ChainAssumption, EnvOK
<1>2. /\ j # 0 => sys'[j] = sys[j] /\ norm'[j] = norm[j]
      /\ Range(sys'[j]) \cup Range(norm'[j])
           \subseteq Range(sys[j]) \cup Range(norm[j]) \cup {Env(kind, "down", 0)}
  <2>1. Send(0, Env(kind, "down", 0)) /\ ChannelsOK /\ 0 \in Int
    BY DEF Inject, TypeOK
  <2> QED BY <1>1, <2>1, SendFacts
<1>3. cont' = cont
  BY DEF Inject
<1> QED BY <1>2, <1>3 DEF Carried

LEMMA NoStopInit == Init => NoStop
<1> SUFFICES ASSUME Init, NEW i \in Stages, NEW e \in Carried(i) PROVE e.kind # "Stop"
  BY DEF NoStop
<1>1. Range(<<>>) = {}
  BY RangeNone
<1>2. Range(<<Env("Start", "down", 0)>>) = {Env("Start", "down", 0)}
  BY RangeOne
<1>3. cont[i] = <<>> /\ norm[i] = <<>> /\ (sys[i] = <<>> \/ sys[i] = <<Env("Start", "down", 0)>>)
  BY DEF Init
<1>4. e = Env("Start", "down", 0)
  BY <1>1, <1>2, <1>3 DEF Carried
<1> QED BY <1>4 DEF Env

LEMMA NoStopStage ==
  ASSUME TypeOK, NoStop, NEW i \in Stages, StageStep(i)
  PROVE  NoStop'
<1> SUFFICES ASSUME NEW j \in Stages, NEW f \in Carried(j)' PROVE f.kind # "Stop"
  BY DEF NoStop
<1>1. \A e \in Carried(i) : e \in Envelope /\ e.kind # "Stop"
  BY CarriedOK DEF NoStop
<1>2. CASE f \in Carried(j)
  BY <1>2 DEF NoStop
<1>3. CASE f \in {Env("Error", "up", 0), Env("End", "up", 0),
                  Env("Interruption", "down", gens + 1), Env("Interruption", "up", gens + 1)}
  BY <1>3 DEF Env
<1>4. CASE \E e \in Carried(i) : f = [e EXCEPT !.dir = "down"]
  BY <1>1, <1>4 DEF Envelope
<1>5. CASE \E e \in Carried(i) : f = Forwarded(i, e)
  BY <1>1, <1>5, ForwardedFacts
<1>6. CASE PushStep(i) /\ f = Head(cont[i]).env
  <2>1. Range(cont[i]) = {Head(cont[i])} \cup Range(Tail(cont[i]))
    BY <1>6, TodoFacts DEF PushStep
  <2>2. f \in Carried(i)
    BY <1>6, <2>1 DEF Carried
  <2> QED BY <1>1, <2>2
<1> QED BY CarriedStage, <1>2, <1>3, <1>4, <1>5, <1>6

LEMMA NoStopInject ==
  ASSUME TypeOK, "Stop" \notin Injected, NoStop, NEW kind \in Injected, Inject(kind)
  PROVE  NoStop'
<1> SUFFICES ASSUME NEW j \in Stages, NEW f \in Carried(j)' PROVE f.kind # "Stop"
  BY DEF NoStop
<1>1. Env(kind, "down", 0).kind # "Stop"
  BY DEF Env
<1> QED BY <1>1, CarriedInject DEF NoStop

-----------------------------------------------------------------------------
(* Leaving the loop is the last thing a stage does.                        *)

LEMMA ExitFree ==
  ASSUME NEW s \in Seq(Op), \A o \in Range(s) : o.op # "exit"
  PROVE  ExitLast(s)
<1>1. Range(s) = {s[k] : k \in 1 .. Len(s)}
  BY RangeEquality
<1> QED BY <1>1 DEF ExitLast

LEMMA ExitTail ==
  ASSUME NEW s \in Seq(Op), s # <<>>, ExitLast(s)
  PROVE  /\ ExitLast(Tail(s))
         /\ Head(s).op = "exit" => Range(s) = {Head(s)}
<1>1. /\ Len(s) \in Nat /\ Len(s) # 0
      /\ Head(s) = s[1]
      /\ Len(Tail(s)) = Len(s) - 1
      /\ \A k \in 1 .. (Len(s) - 1) : Tail(s)[k] = s[k + 1]
  BY HeadTailProperties, LenProperties, EmptySeq
<1>2. ExitLast(Tail(s))
  <2> SUFFICES ASSUME NEW k \in 1 .. Len(Tail(s)), Tail(s)[k].op = "exit"
               PROVE  k = Len(Tail(s))
    BY DEF ExitLast
  <2>1. k \in 1 .. (Len(s) - 1) /\ k + 1 \in 1 .. Len(s) /\ s[k + 1].op = "exit"
    BY <1>1
  <2>2. k + 1 = Len(s)
    BY <2>1 DEF ExitLast
  <2>3. k \in Int /\ Len(s) \in Int /\ Len(Tail(s)) = Len(s) - 1
    BY <1>1, <2>1
  <2> QED BY <2>2, <2>3
<1>3. ASSUME Head(s).op = "exit" PROVE Range(s) = {Head(s)}
  <2>0. 1 \in 1 .. Len(s) /\ s[1].op = "exit"
    BY <1>1, <1>3
  <2>1. Len(s) = 1
    BY <2>0 DEF ExitLast
  <2>2. Range(s) = {s[k] : k \in 1 .. Len(s)}
    BY RangeEquality
  <2> QED BY <1>1, <2>1, <2>2
<1> QED BY <1>2, <1>3

LEMMA ExitPrefix ==
  ASSUME NEW s \in Seq(Op), NEW a \in Op, a.op # "exit", ExitLast(s)
  PROVE  ExitLast(<<a>> \o s)
<1> DEFINE t == <<a>> \o s
<1>1. /\ <<a>> \in Seq(Op) /\ Len(<<a>>) = 1 /\ <<a>>[1] = a /\ Len(s) \in Nat
  BY LenProperties
<1>2. /\ Len(t) = 1 + Len(s)
      /\ t[1] = a
      /\ \A k \in 2 .. Len(t) : t[k] = s[k - 1]
  BY <1>1, ConcatProperties
<1> SUFFICES ASSUME NEW k \in 1 .. Len(t), t[k].op = "exit" PROVE k = Len(t)
  BY DEF ExitLast
<1>3. k # 1
  BY <1>2
<1>4. k \in 2 .. Len(t) /\ k - 1 \in 1 .. Len(s)
  BY <1>1, <1>2, <1>3
<1>5. s[k - 1].op = "exit"
  BY <1>2, <1>4
<1> QED BY <1>1, <1>2, <1>4, <1>5 DEF ExitLast

LEMMA ExitTerminal ==
  ASSUME NEW e \in Envelope
  PROVE  ExitLast(TerminalOps(e)) /\ ExitLast(<<Push(e), Exit(e)>>)
<1>1. ExitLast(<<Push(e), Exit(e)>>) /\ ExitLast(<<Push(e)>>)
  BY DEF ExitLast, Push, Exit
<1>2. ExitLast(<<StopHook(e), Push(e)>>) /\ ExitLast(<<StopHook(e), Push(e), Exit(e)>>)
  BY DEF ExitLast, Push, Exit, StopHook
<1> QED BY <1>1, <1>2 DEF TerminalOps

LEMMA ExitMayFail ==
  ASSUME TypeOK, NEW i \in Stages, NEW ops \in Seq(Op), MayFail(i, ops), ExitLast(ops)
  PROVE  ExitLast(cont'[i])
<1>1. ExitLast(<<ErrorUp>> \o ops)
  <2>1. ErrorUp \in Op /\ ErrorUp.op # "exit"
    BY EnvOK DEF ErrorUp, Push
  <2> QED BY <2>1, ExitPrefix
<1>2. <<ErrorUp>> \o ops \in Seq(Op)
  BY EnvOK, RangePrefix
<1>3. Continue(i, ops) \/ Continue(i, <<ErrorUp>> \o ops)
  BY DEF MayFail
<1>4. cont \in [Stages -> Seq(Op)]
  BY DEF TypeOK
<1> QED BY <1>1, <1>2, <1>3, <1>4, ContinueFacts

LEMMA OpsInit == Init => OpsInv
<1> SUFFICES ASSUME Init PROVE OpsInv
  OBVIOUS
<1>1. \A i \in Stages : cont[i] = <<>>
  BY DEF Init
<1>2. <<>> \in Seq(Op) /\ Range(<<>>) = {}
  BY RangeNone
<1>3. ExitLast(<<>>)
  BY <1>2, ExitFree
<1> QED BY <1>1, <1>2, <1>3 DEF OpsInv

\* The kinds of the operations.
LEMMA OpKinds ==
  /\ \A e : Push(e).op = "push" /\ Drain(e).op = "drain"
            /\ StopHook(e).op = "stop" /\ Exit(e).op = "exit"
  /\ ErrorUp.op = "push"
BY DEF Push, Drain, StopHook, Exit, ErrorUp

LEMMA OpsStage ==
  ASSUME TypeOK, OpsInv, NEW i \in Stages, StageStep(i), UNCHANGED injects
  PROVE  OpsInv'
<1> DEFINE e == Received(i)
           Good(c) == /\ ExitLast(c)
                      /\ (\E o \in Range(c) : o.op = "drain")
                           => \A o \in Range(c) : o.op \in {"push", "drain"}
                      /\ i \in Bridges => \A o \in Range(c) : o.op \in {"push", "exit"}
<1>0. cont \in [Stages -> Seq(Op)] /\ cont' \in [Stages -> Seq(Op)] /\ Good(cont[i])
  <2>1. TypeOK'
    BY TypeStage
  <2> QED BY <2>1 DEF TypeOK, OpsInv
<1>1. SUFFICES Only(i) /\ Good(cont'[i])
  BY <1>1 DEF OpsInv, Only
<1>2. ASSUME Only(i), \A o \in Range(cont'[i]) : o.op = "push" PROVE Only(i) /\ Good(cont'[i])
  <2>1. ExitLast(cont'[i])
    BY <1>0, <1>2, ExitFree
  <2> QED BY <1>2, <2>1
<1>3. CASE RecvStart(i)
  BY <1>2, <1>3, StartOps, OpKinds
<1>4. CASE RecvInterruption(i)
  <2>1. Only(i) /\ Range(cont'[i]) = {Drain(e)}
    BY <1>4, InterruptionOps
  <2>2. ExitLast(cont'[i])
    BY <1>0, <2>1, OpKinds, ExitFree
  <2>3. i \notin Bridges
    BY <1>4 DEF RecvInterruption
  <2> QED BY <2>1, <2>2, <2>3, OpKinds
<1>5. CASE RecvTerminal(i)
  <2>1. Only(i) /\ cont'[i] = TerminalOps(e) /\ i \notin Bridges /\ e \in Envelope
    BY <1>5, TerminalRecvOps, ReceivedOps DEF RecvTerminal
  <2>2. /\ ExitLast(cont'[i])
        /\ Range(cont'[i]) \subseteq {StopHook(e), Push(e), Exit(e)}
    BY <2>1, ExitTerminal, OpsOK
  <2> QED BY <2>1, <2>2, OpKinds
<1>6. CASE UserProcess(i)
  BY <1>2, <1>6, UserOps, OpKinds
<1>7. CASE BridgeForward(i)
  <2>1. /\ Only(i) /\ e \in Envelope
        /\ cont'[i] = <<Push(e)>> \/ cont'[i] = <<Push(e), Exit(e)>>
        /\ Range(cont'[i]) \subseteq {Push(e), Exit(e)}
    BY <1>7, BridgeOps, ReceivedOps DEF BridgeForward
  <2>2. ExitLast(<<Push(e), Exit(e)>>) /\ ExitLast(<<Push(e)>>)
    <3>1. Push(e) \in Op
      BY <2>1, OpsOK
    <3>2. <<Push(e)>> \in Seq(Op) /\ Range(<<Push(e)>>) = {Push(e)}
      BY <3>1, RangeOne
    <3> QED BY <2>1, <3>2, ExitFree, ExitTerminal, OpKinds
  <2> QED BY <2>1, <2>2, OpKinds
<1>8. CASE i = 0 /\ SourceProcess
  <2>1. \A o \in Range(cont'[i]) : o.op = "push"
    BY <1>8, SourceOps, OpKinds
  <2> QED BY <1>2, <1>8, <2>1, SourceOps
<1>9. CASE i = Last /\ SinkProcess
  BY <1>2, <1>9, SinkOps, OpKinds
<1>10. CASE i = Vad /\ BargeIn
  BY <1>2, <1>10, BargeOps, OpKinds
<1>11. CASE PushStep(i)
  <2>1. /\ Only(i) /\ cont'[i] = Tail(cont[i]) /\ cont[i] # <<>>
        /\ Range(cont[i]) = {Head(cont[i])} \cup Range(Tail(cont[i]))
    BY <1>11, ContinueOps, TodoFacts DEF PushStep, Todo
  <2>2. ExitLast(cont'[i])
    BY <1>0, <2>1, ExitTail
  <2> QED BY <1>0, <2>1, <2>2
<1>12. CASE DrainStep(i)
  <2> DEFINE h == Head(norm[i])
             int == Head(cont[i]).env
  <2>1. /\ Range(cont[i]) = {Head(cont[i])} \cup Range(Tail(cont[i]))
        /\ Head(cont[i]).op = "drain" /\ int \in Envelope
    BY <1>12, TodoFacts DEF DrainStep
  <2>2. h \in Envelope
    BY <1>12, DrainFacts DEF DrainStep, TypeOK
  <2>3. i \notin Bridges /\ \A o \in Range(cont[i]) : o.op \in {"push", "drain"}
    BY <1>0, <2>1
  <2>4. CASE cont'[i] = cont[i]
    BY <1>0, <1>12, <2>4, ContinueOps
  <2>5. CASE Uninterruptible(h.kind) /\ h.dir = "down" /\ Terminal(h.kind)
    <3>1. MayFail(i, <<Push(int)>> \o TerminalOps(h))
      BY <1>12, <2>5 DEF DrainStep
    <3>2. /\ TerminalOps(h) \in Seq(Op) /\ ExitLast(TerminalOps(h))
          /\ Push(int) \in Op /\ Push(int).op # "exit"
      BY <2>1, <2>2, OpsOK, ExitTerminal, OpKinds
    <3>3. /\ <<Push(int)>> \o TerminalOps(h) \in Seq(Op)
          /\ ExitLast(<<Push(int)>> \o TerminalOps(h))
      BY <3>2, RangePrefix, ExitPrefix
    <3>4. ExitLast(cont'[i])
      BY <3>1, <3>3, ExitMayFail
    <3>5. Only(i) /\ Range(cont'[i]) \subseteq {Push(int), ErrorUp} \cup Range(TerminalOps(h))
      BY <1>12, <2>5, ContinueOps
    <3>6. Range(TerminalOps(h)) \subseteq {StopHook(h), Push(h), Exit(h)}
      BY <2>2, OpsOK
    <3>7. \A o \in Range(cont'[i]) : o.op # "drain"
      BY <3>5, <3>6, OpKinds
    <3> QED BY <2>3, <3>4, <3>5, <3>7
  <2>6. CASE Range(cont'[i]) = {Push(h)} \cup Range(cont[i])
    <3>1. Only(i)
      BY <1>12, ContinueOps
    <3>2. \A o \in Range(cont'[i]) : o.op \in {"push", "drain"}
      BY <2>3, <2>6, OpKinds
    <3>3. ExitLast(cont'[i])
      BY <1>0, <3>2, ExitFree
    <3> QED BY <2>3, <3>1, <3>2, <3>3
  <2> QED BY <1>12, <2>4, <2>5, <2>6, ContinueOps
<1>13. CASE DrainDone(i)
  BY <1>2, <1>13, ContinueOps, OpKinds
<1>14. CASE StopStep(i)
  <2>1. /\ Range(cont[i]) = {Head(cont[i])} \cup Range(Tail(cont[i]))
        /\ Head(cont[i]).op = "stop" /\ Tail(cont[i]) \in Seq(Op) /\ cont[i] # <<>>
        /\ MayFail(i, Tail(cont[i]))
    BY <1>14, TodoFacts DEF StopStep, Todo
  <2>2. ExitLast(cont'[i])
    BY <1>0, <2>1, ExitTail, ExitMayFail
  <2>3. Only(i) /\ Range(cont'[i]) \subseteq Range(Tail(cont[i])) \cup {ErrorUp}
    BY <1>14, ContinueOps
  <2> QED BY <1>0, <2>1, <2>2, <2>3, OpKinds
<1>15. CASE ExitStep(i)
  <2>1. Only(i) /\ cont'[i] = <<>> /\ Range(<<>>) = {}
    BY <1>15, ContinueOps, RangeNone
  <2> QED BY <1>2, <2>1
<1> QED BY <1>3, <1>4, <1>5, <1>6, <1>7, <1>8, <1>9, <1>10, <1>11, <1>12, <1>13, <1>14,
           <1>15 DEF StageStep

-----------------------------------------------------------------------------
(* Nothing goes upstream through a bridge or out of the Sink.              *)

LEMMA DownInit == Init => DownInv
<1> SUFFICES ASSUME Init, NEW i \in Bridges \cup {Last}, NEW e \in Carried(i)
             PROVE  e.dir = "down"
  BY DEF DownInv
<1>1. i \in Stages /\ i # 0
  BY ChainAssumption DEF Stages
<1>2. sys[i] = <<>> /\ norm[i] = <<>> /\ cont[i] = <<>>
  BY <1>1 DEF Init
<1>3. Range(<<>>) = {}
  BY RangeNone
<1> QED BY <1>2, <1>3 DEF Carried

\* A bridge and the Sink go on with the frames they have; a bridge runs no hook.
LEMMA DownOps ==
  ASSUME TypeOK, OpsInv, NEW i \in Bridges \cup {Last}, StageStep(i), NEW o \in Range(cont'[i])
  PROVE  o.env \in Carried(i)
<1>0. /\ i \in Stages /\ i # 0 /\ Vad \notin Bridges \cup {Last}
      /\ (i \in Bridges <=> i \in 1 .. (Last - 1))
      /\ i = Last <=> i \notin Bridges
  BY ChainAssumption DEF Stages
<1>p. \A e : Push(e).env = e /\ Drain(e).env = e /\ StopHook(e).env = e /\ Exit(e).env = e
  BY DEF Push, Drain, StopHook, Exit
<1>1. CASE Handles(i)
  <2> DEFINE e == Received(i)
  <2>1. /\ e \in Carried(i) /\ e \in Envelope
    <3>1. Ready(i) /\ Receive(i) /\ e \in Envelope
      BY <1>0, <1>1, HandlesFacts
    <3>2. e \in Range(sys[i]) \cup Range(norm[i])
      BY <1>0, <3>1, ReceiveFacts DEF TypeOK
    <3> QED BY <3>1, <3>2 DEF Carried
  <2>2. CASE RecvStart(i)
    <3>1. i = Last /\ MayFail(i, <<Push(e)>>)
      BY <1>0, <2>2 DEF RecvStart
    <3>2. <<Push(e)>> \in Seq(Op) /\ Range(<<Push(e)>>) = {Push(e)}
      BY <2>1, OpsOK, RangeOne
    <3>3. cont'[i] = <<Push(e)>>
      BY <1>0, <3>1, <3>2, MayFailFacts DEF TypeOK
    <3> QED BY <2>1, <3>2, <3>3, <1>p
  <2>3. CASE RecvInterruption(i)
    BY <1>0, <2>1, <2>3, InterruptionOps, <1>p
  <2>4. CASE RecvTerminal(i)
    <3>1. Range(cont'[i]) \subseteq {StopHook(e), Push(e), Exit(e)}
      BY <1>0, <2>1, <2>4, TerminalRecvOps, OpsOK
    <3> QED BY <2>1, <3>1, <1>p
  <2>5. CASE UserProcess(i)
    BY <1>0, <2>5 DEF UserProcess, ToProcessFrame
  <2>6. CASE BridgeForward(i)
    <3>1. Range(cont'[i]) \subseteq {Push(e), Exit(e)}
      BY <1>0, <2>6, BridgeOps
    <3> QED BY <2>1, <3>1, <1>p
  <2>7. CASE i = Last /\ SinkProcess
    <3>1. Range(cont'[i]) = {Push(e)}
      BY <1>0, <2>7, SinkOps
    <3> QED BY <2>1, <3>1, <1>p
  <2> QED BY <1>0, <1>1, <2>2, <2>3, <2>4, <2>5, <2>6, <2>7 DEF Handles
<1>2. CASE PushStep(i)
  <2>1. Range(cont[i]) = {Head(cont[i])} \cup Range(Tail(cont[i]))
    BY <1>0, <1>2, TodoFacts DEF PushStep
  <2> QED BY <1>0, <1>2, <2>1, ContinueOps DEF Carried
<1>3. CASE DrainStep(i)
  <2> DEFINE h == Head(norm[i])
             int == Head(cont[i]).env
  <2>1. /\ Range(cont[i]) = {Head(cont[i])} \cup Range(Tail(cont[i]))
        /\ Head(cont[i]).op = "drain" /\ int \in Envelope
    BY <1>0, <1>3, TodoFacts DEF DrainStep
  <2>2. /\ h \in Envelope
        /\ Range(norm[i]) = {h} \cup Range(norm'[i])
    BY <1>0, <1>3, DrainFacts DEF DrainStep, TypeOK
  <2>3. i = Last
    BY <1>0, <2>1 DEF OpsInv
  <2>4. int \in Carried(i) /\ h \in Carried(i)
    BY <2>1, <2>2 DEF Carried
  <2>5. CASE cont'[i] = cont[i]
    BY <2>5 DEF Carried
  <2>6. CASE Uninterruptible(h.kind) /\ h.dir = "down" /\ Terminal(h.kind)
    <3>1. MayFail(i, <<Push(int)>> \o TerminalOps(h))
      BY <1>3, <2>6 DEF DrainStep
    <3>2. /\ <<Push(int)>> \o TerminalOps(h) \in Seq(Op)
          /\ Range(<<Push(int)>> \o TerminalOps(h)) = {Push(int)} \cup Range(TerminalOps(h))
      BY <2>1, <2>2, OpsOK, RangePrefix
    <3>3. cont'[i] = <<Push(int)>> \o TerminalOps(h)
      BY <1>0, <2>3, <3>1, <3>2, MayFailFacts DEF TypeOK
    <3>4. Range(cont'[i]) \subseteq {Push(int), StopHook(h), Push(h), Exit(h)}
      BY <2>2, <3>2, <3>3, OpsOK
    <3> QED BY <2>4, <3>4, <1>p
  <2>7. CASE Range(cont'[i]) = {Push(h)} \cup Range(cont[i])
    BY <2>4, <2>7, <1>p DEF Carried
  <2> QED BY <1>0, <1>3, <2>5, <2>6, <2>7, ContinueOps
<1>4. CASE DrainDone(i)
  <2> DEFINE int == Head(cont[i]).env
  <2>1. /\ Range(cont[i]) = {Head(cont[i])} \cup Range(Tail(cont[i]))
        /\ Head(cont[i]).op = "drain" /\ int \in Envelope
    BY <1>0, <1>4, TodoFacts DEF DrainDone
  <2>2. i = Last
    BY <1>0, <2>1 DEF OpsInv
  <2>3. <<Push(int)>> \in Seq(Op) /\ Range(<<Push(int)>>) = {Push(int)}
    BY <2>1, OpsOK, RangeOne
  <2>4. MayFail(i, <<Push(int)>>)
    BY <1>4 DEF DrainDone
  <2>5. cont'[i] = <<Push(int)>>
    BY <1>0, <2>2, <2>3, <2>4, MayFailFacts DEF TypeOK
  <2> QED BY <2>1, <2>3, <2>5, <1>p DEF Carried
<1>5. CASE StopStep(i)
  <2>1. /\ Range(cont[i]) = {Head(cont[i])} \cup Range(Tail(cont[i]))
        /\ Head(cont[i]).op = "stop"
    BY <1>0, <1>5, TodoFacts DEF StopStep
  <2>2. i = Last
    BY <1>0, <2>1 DEF OpsInv
  <2>3. cont'[i] = Tail(cont[i])
    BY <1>0, <1>5, <2>2, ContinueOps
  <2> QED BY <2>1, <2>3 DEF Carried
<1>6. CASE ExitStep(i)
  BY <1>0, <1>6, ContinueOps, RangeNone
<1> QED BY <1>0, <1>1, <1>2, <1>3, <1>4, <1>5, <1>6, StageCases

LEMMA DownStage ==
  ASSUME TypeOK, FlatAssumption, OpsInv, DownInv, NEW i \in Stages, StageStep(i)
  PROVE  DownInv'
<1> SUFFICES ASSUME NEW j \in Bridges \cup {Last}, NEW f \in Carried(j)' PROVE f.dir = "down"
  BY DEF DownInv
<1>0. j \in Stages /\ Bridges \subseteq Stages
  BY ChainAssumption DEF Stages
<1>1. CASE f \in Carried(j)
  BY <1>1 DEF DownInv
<1>2. CASE j = i /\ f \notin Carried(j)
  <2>1. \A o \in Range(cont'[i]) : o.env \in Carried(i)
    BY <1>2, DownOps
  <2>2. f \in Range(sys'[i]) \cup Range(norm'[i])
    BY <1>2, <2>1 DEF Carried
  <2>3. Range(sys'[i]) \cup Range(norm'[i]) \subseteq Carried(i)
    <3>0. ChannelsOK
      BY DEF TypeOK
    <3>1. CASE Handles(i)
      BY <3>0, <3>1, HandlesFacts, ReceiveFacts DEF Carried
    <3>2. CASE PushStep(i)
      <4>1. /\ Send(Target(i, Head(cont[i]).env), Head(cont[i]).env)
            /\ Head(cont[i]).env \in Envelope
            /\ Range(cont[i]) = {Head(cont[i])} \cup Range(Tail(cont[i]))
        BY <3>2, TodoFacts DEF PushStep
      <4>2. Range(sys'[i]) \cup Range(norm'[i])
              \subseteq Range(sys[i]) \cup Range(norm[i]) \cup {Head(cont[i]).env}
        BY <3>0, <4>1, TargetInt, SendFacts
      <4> QED BY <4>1, <4>2 DEF Carried
    <3>3. CASE DrainStep(i)
      BY <3>0, <3>3, DrainFacts DEF DrainStep, Carried
    <3>4. CASE DrainDone(i) \/ StopStep(i)
      BY <3>4 DEF DrainDone, StopStep, chanVars, Carried
    <3>5. CASE ExitStep(i)
      BY <3>0, <3>5, ExitFacts DEF ExitStep, Carried
    <3> QED BY <3>1, <3>2, <3>3, <3>4, <3>5, StageCases
  <2> QED BY <1>2, <2>2, <2>3
<1>3. CASE j # i /\ PushStep(i) /\ f = Head(cont[i]).env /\ j = Target(i, f)
  <2>1. /\ f \in Envelope /\ f \in Carried(i)
    BY <1>3, TodoFacts DEF PushStep, Carried
  <2>2. CASE i \in Bridges \cup {Last}
    BY <2>1, <2>2 DEF DownInv
  <2>3. CASE i \notin Bridges \cup {Last}
    <3> SUFFICES ASSUME f.dir = "up" PROVE FALSE
      BY <2>1 DEF Envelope
    <3>1. j = Prev[i]
      BY <1>3, <2>3 DEF Target
    <3>2. Prev[i] < i
      BY PrevAssumption
    <3>3. i # 0
      BY <1>0, <3>1, <3>2, ChainAssumption DEF Stages
    <3>4. i \in 1 .. (Last - 1)
      BY <2>3, <3>3, ChainAssumption DEF Stages
    <3>5. j \notin Bridges
      BY <3>1, <3>4 DEF FlatAssumption
    <3>6. j # Last
      BY <3>1, <3>2, <3>4, ChainAssumption
    <3> QED BY <3>5, <3>6
  <2> QED BY <2>2, <2>3
<1> QED BY <1>0, <1>1, <1>2, <1>3, CarriedStage

LEMMA DownInject ==
  ASSUME TypeOK, DownInv, NEW kind \in Injected, Inject(kind)
  PROVE  DownInv'
<1> SUFFICES ASSUME NEW j \in Bridges \cup {Last}, NEW f \in Carried(j)' PROVE f.dir = "down"
  BY DEF DownInv
<1>0. j \in Stages /\ j # 0
  BY ChainAssumption DEF Stages
<1> QED BY <1>0, CarriedInject DEF DownInv

-----------------------------------------------------------------------------
(* The end of the task is never lost.                                      *)

\* Once the terminal frame has reached a stage, it stays so until the stage has
\* returned.
LEMMA ReachedStage ==
  ASSUME TypeOK, NoStop, OpsInv, NEW i \in Stages, StageStep(i), NEW j \in Stages, Reached(j)
  PROVE  Reached(j)'
<1>0. ChannelsOK /\ live \in [Stages -> BOOLEAN]
  BY DEF TypeOK
<1>x. \A e : Exit(e).op = "exit"
  BY OpKinds
<1>1. CASE Handles(i)
  <2> DEFINE e == Received(i)
  <2>1. /\ Ready(i) /\ Receive(i) /\ Only(i) /\ Range(cont[i]) = {} /\ live' = live
        /\ e \in Envelope
    BY <1>1, HandlesFacts
  <2>2. /\ \A k \in Stages : k # i => sys'[k] = sys[k] /\ norm'[k] = norm[k]
        /\ Range(sys[i]) \cup Range(norm[i]) = {e} \cup Range(sys'[i]) \cup Range(norm'[i])
    BY <1>0, <2>1, ReceiveFacts
  <2>3. CASE j # i
    BY <2>1, <2>2, <2>3 DEF Reached, Leaving, Only
  <2>4. CASE j = i /\ ~ IsEnd(e)
    BY <2>1, <2>2, <2>4 DEF Reached, Leaving
  <2>5. CASE j = i /\ IsEnd(e)
    <3>1. /\ Terminal(e.kind) /\ e.dir = "down" /\ e.kind # "Stop"
          /\ e.kind \notin {"Start", "Interruption", "InputAudio"}
      BY <2>5 DEF IsEnd, Terminal
    <3>2. ~ ToProcessFrame(i)
      BY <3>1 DEF ToProcessFrame
    <3>3. RecvTerminal(i) \/ BridgeForward(i)
      BY <1>1, <3>1, <3>2 DEF Handles, RecvStart, RecvInterruption, UserProcess,
                             SourceProcess, SinkProcess, BargeIn
    <3>4. Exit(e) \in Range(cont'[i])
      <4>1. CASE RecvTerminal(i)
        BY <2>1, <3>1, <4>1, TerminalRecvOps, OpsOK
      <4>2. CASE BridgeForward(i)
        <5>1. cont'[i] = <<Push(e), Exit(e)>>
          BY <3>1, <4>2, BridgeOps
        <5>2. Push(e) \in Op /\ Exit(e) \in Op
          BY <2>1, OpsOK
        <5> QED BY <5>1, <5>2, RangeTwo
      <4> QED BY <3>3, <4>1, <4>2
    <3> QED BY <2>5, <3>4, <1>x DEF Reached, Leaving
  <2> QED BY <2>3, <2>4, <2>5
<1>2. CASE PushStep(i)
  <2>1. /\ Range(cont[i]) = {Head(cont[i])} \cup Range(Tail(cont[i]))
        /\ Head(cont[i]).op = "push" /\ Head(cont[i]).env \in Envelope
    BY <1>2, TodoFacts DEF PushStep
  <2>2. Only(i) /\ cont'[i] = Tail(cont[i]) /\ live' = live
    BY <1>2, ContinueOps DEF PushStep
  <2>3. Range(sys[j]) \subseteq Range(sys'[j]) /\ Range(norm[j]) \subseteq Range(norm'[j])
    <3>1. Send(Target(i, Head(cont[i]).env), Head(cont[i]).env)
      BY <1>2 DEF PushStep
    <3> QED BY <1>0, <2>1, <3>1, TargetInt, SendFacts
  <2> QED BY <2>1, <2>2, <2>3 DEF Reached, Leaving, Only
<1>3. CASE DrainStep(i)
  <2> DEFINE h == Head(norm[i])
  <2>1. /\ Range(cont[i]) = {Head(cont[i])} \cup Range(Tail(cont[i]))
        /\ Head(cont[i]).op = "drain"
    BY <1>3, TodoFacts DEF DrainStep
  <2>2. /\ sys' = sys /\ h \in Envelope /\ live' = live
        /\ \A k \in Stages : k # i => norm'[k] = norm[k]
        /\ Range(norm[i]) = {h} \cup Range(norm'[i])
    BY <1>0, <1>3, DrainFacts DEF DrainStep
  <2>3. Only(i)
    BY <1>3, ContinueOps
  <2>4. CASE j # i
    BY <2>2, <2>3, <2>4 DEF Reached, Leaving, Only
  <2>5. CASE j = i
    <3>1. ~ Leaving(i)
      BY <2>1 DEF OpsInv, Leaving
    <3>2. CASE ~ IsEnd(h)
      BY <2>2, <2>5, <3>1, <3>2 DEF Reached
    <3>3. CASE IsEnd(h)
      <4>1. h.kind \notin System
        BY <1>0, <2>2 DEF ChannelsOK
      <4>2. h.kind = "End" /\ h.dir = "down"
        BY <3>3, <4>1 DEF IsEnd, System
      <4>3. Range(TerminalOps(h)) \subseteq Range(cont'[i])
        BY <1>3, <4>2, ContinueOps DEF Uninterruptible, Terminal
      <4>4. Exit(h) \in Range(cont'[i])
        BY <2>2, <4>2, <4>3, OpsOK
      <4> QED BY <2>5, <4>4, <1>x DEF Reached, Leaving
    <3> QED BY <3>2, <3>3
  <2> QED BY <2>4, <2>5
<1>4. CASE DrainDone(i)
  <2>1. /\ Range(cont[i]) = {Head(cont[i])} \cup Range(Tail(cont[i]))
        /\ Head(cont[i]).op = "drain"
    BY <1>4, TodoFacts DEF DrainDone
  <2>2. ~ Leaving(i)
    BY <2>1 DEF OpsInv, Leaving
  <2>3. sys' = sys /\ norm' = norm /\ live' = live /\ Only(i)
    BY <1>4, ContinueOps DEF DrainDone, chanVars
  <2> QED BY <2>2, <2>3 DEF Reached, Leaving, Only
<1>5. CASE StopStep(i)
  <2>1. /\ Range(cont[i]) = {Head(cont[i])} \cup Range(Tail(cont[i]))
        /\ Head(cont[i]).op = "stop"
    BY <1>5, TodoFacts DEF StopStep
  <2>2. /\ sys' = sys /\ norm' = norm /\ live' = live /\ Only(i)
        /\ Range(Tail(cont[i])) \subseteq Range(cont'[i])
    BY <1>5, ContinueOps DEF StopStep, chanVars
  <2> QED BY <2>1, <2>2 DEF Reached, Leaving, Only
<1>6. CASE ExitStep(i)
  <2>1. \A k \in Stages : k # i => sys'[k] = sys[k] /\ norm'[k] = norm[k]
    BY <1>0, <1>6, ExitFacts DEF ExitStep
  <2>2. Only(i) /\ live' = [live EXCEPT ![i] = FALSE]
    BY <1>6, ContinueOps DEF ExitStep
  <2> QED BY <1>0, <2>1, <2>2 DEF Reached, Leaving, Only
<1> QED BY <1>1, <1>2, <1>3, <1>4, <1>5, <1>6, StageCases

\* What the task has been shown stays shown.
LEMMA ShownStage ==
  ASSUME TypeOK, NEW i \in Stages, StageStep(i), NEW kinds, Shown(kinds)
  PROVE  Shown(kinds)'
<1>1. tap \in Seq(Kinds)
  BY DEF TypeOK
<1>2. tap' = tap \/ \E kind \in Kinds : tap' = Append(tap, kind)
  <2>1. CASE RecvStart(i)
    BY <2>1 DEF RecvStart, Tap, Kinds, System
  <2>2. CASE StopStep(i)
    <3>1. Head(cont[i]).env \in Envelope
      BY <2>2, TodoFacts DEF StopStep
    <3> QED BY <2>2, <3>1 DEF StopStep, Tap, Envelope
  <2>3. CASE i = Last /\ SinkProcess
    <3>1. Received(Last) \in Envelope
      BY <2>3, ReceivedOps DEF SinkProcess, ToProcessFrame
    <3> QED BY <2>3, <3>1 DEF SinkProcess, Tap, Envelope
  <2> QED BY <2>1, <2>2, <2>3 DEF StageStep, RecvInterruption, RecvTerminal, UserProcess,
            BridgeForward, PushStep, DrainStep, DrainDone, ExitStep, SourceProcess, BargeIn
<1>3. Range(tap) \subseteq Range(tap')
  <2>1. ASSUME NEW kind \in Kinds, tap' = Append(tap, kind) PROVE Range(tap) \subseteq Range(tap')
    BY <1>1, <2>1, RangeAppend
  <2> QED BY <1>2, <2>1
<1> QED BY <1>3 DEF Shown

\* A stage that is leaving has forwarded the terminal frame or still has to.
LEMMA LeaveStage ==
  ASSUME TypeOK, NoStop, OpsInv, DownInv, LeaveInv, NEW i \in Stages, StageStep(i),
         NEW j \in 0 .. (Last - 1), Leaving(j)'
  PROVE  \/ Reached(j + 1)'
         \/ \E o \in Range(cont'[j]) : o.op = "push" /\ IsEnd(o.env)
<1>0. j \in Stages /\ j + 1 \in Stages /\ j # Last
  BY ChainAssumption DEF Stages
<1>k. ChannelsOK
  BY DEF TypeOK
<1>r. Reached(j + 1) => Reached(j + 1)'
  BY <1>0, ReachedStage
<1>o. \A e : /\ Push(e).op = "push" /\ Push(e).env = e /\ Drain(e).op = "drain"
             /\ StopHook(e).op = "stop" /\ Exit(e).op = "exit" /\ ErrorUp.op = "push"
  BY OpKinds DEF Push
<1>1. CASE Leaving(j) /\ Range(cont[j]) \subseteq Range(cont'[j])
  BY <1>r, <1>1 DEF LeaveInv
<1>2. CASE i # j
  <2>1. Only(i)
    BY StageCases, HandlesFacts, ContinueOps
  <2>2. cont'[j] = cont[j]
    BY <1>0, <1>2, <2>1 DEF Only
  <2> QED BY <1>1, <2>2 DEF Leaving
<1>3. CASE i = j /\ Handles(i)
  <2> DEFINE e == Received(i)
  <2>1. Ready(i) /\ Receive(i) /\ e \in Envelope
    BY <1>3, HandlesFacts
  <2>2. e \in Carried(i) /\ e.kind # "Stop"
    BY <2>1, ReceiveFacts, <1>k DEF NoStop, Carried
  <2>3. CASE RecvTerminal(i)
    <3>1. IsEnd(e)
      BY <2>2, <2>3 DEF RecvTerminal, Terminal, IsEnd
    <3>2. Push(e) \in Range(cont'[i])
      BY <2>1, <2>3, TerminalRecvOps, OpsOK
    <3> QED BY <1>3, <3>1, <3>2, <1>o
  <2>4. CASE BridgeForward(i)
    <3>1. PICK o \in Range(cont'[i]) : o.op = "exit"
      BY <1>3 DEF Leaving
    <3>2. o = Exit(e)
      BY <2>4, <3>1, BridgeOps, <1>o
    <3>3. Terminal(e.kind)
      <4> SUFFICES ASSUME ~ Terminal(e.kind) PROVE FALSE
        OBVIOUS
      <4>1. cont'[i] = <<Push(e)>>
        BY <2>4, BridgeOps
      <4>2. Push(e) \in Op
        BY <2>1, OpsOK
      <4>3. Range(cont'[i]) = {Push(e)}
        BY <4>1, <4>2, RangeOne
      <4> QED BY <3>1, <4>3, <1>o
    <3>4. e.dir = "down"
      BY <2>2, <2>4 DEF BridgeForward, DownInv
    <3>5. IsEnd(e)
      BY <2>2, <3>3, <3>4 DEF Terminal, IsEnd
    <3>6. Push(e) \in Range(cont'[i])
      BY <2>4, BridgeOps
    <3> QED BY <1>3, <3>5, <3>6, <1>o
  <2>5. CASE ~ RecvTerminal(i) /\ ~ BridgeForward(i)
    <3>1. \A o \in Range(cont'[i]) : o.op # "exit"
      <4>1. CASE RecvStart(i)
        BY <4>1, StartOps, <1>o
      <4>2. CASE RecvInterruption(i)
        BY <4>2, InterruptionOps, <1>o
      <4>3. CASE UserProcess(i)
        BY <4>3, UserOps, <1>o
      <4>4. CASE i = 0 /\ SourceProcess
        BY <4>4, SourceOps, <1>o
      <4>5. CASE i = Vad /\ BargeIn
        BY <4>5, BargeOps, <1>o
      <4> QED BY <1>0, <1>3, <2>5, <4>1, <4>2, <4>3, <4>4, <4>5 DEF Handles
    <3> QED BY <1>3, <3>1 DEF Leaving
  <2> QED BY <2>3, <2>4, <2>5
<1>4. CASE i = j /\ PushStep(i)
  <2> DEFINE e == Head(cont[i]).env
  <2>1. /\ Range(cont[i]) = {Head(cont[i])} \cup Range(Tail(cont[i]))
        /\ Head(cont[i]).op = "push" /\ e \in Envelope
    BY <1>4, TodoFacts DEF PushStep
  <2>2. cont'[i] = Tail(cont[i]) /\ live' = live
    BY <1>4, ContinueOps DEF PushStep
  <2>3. Leaving(j)
    BY <1>4, <2>1, <2>2 DEF Leaving
  <2>4. CASE IsEnd(e)
    <3>1. Send(j + 1, e)
      BY <1>4, <2>4 DEF PushStep, Target, IsEnd
    <3>2. Open(j + 1) => e \in Range(sys'[j + 1]) \cup Range(norm'[j + 1])
      BY <1>0, <1>k, <2>1, <3>1, SendFacts
    <3> QED BY <1>0, <2>2, <2>4, <3>2 DEF Reached, Open
  <2>5. CASE ~ IsEnd(e)
    BY <1>4, <1>r, <2>1, <2>2, <2>3, <2>5 DEF LeaveInv
  <2> QED BY <2>4, <2>5
<1>5. CASE i = j /\ DrainStep(i)
  <2> DEFINE h == Head(norm[i])
  <2>1. /\ Range(cont[i]) = {Head(cont[i])} \cup Range(Tail(cont[i]))
        /\ Head(cont[i]).op = "drain"
    BY <1>5, TodoFacts DEF DrainStep
  <2>2. \A o \in Range(cont[i]) : o.op # "exit"
    BY <2>1 DEF OpsInv
  <2>3. h \in Envelope /\ h \in Range(norm[i])
    BY <1>k, <1>5, DrainFacts DEF DrainStep
  <2>4. CASE Uninterruptible(h.kind) /\ h.dir = "down" /\ Terminal(h.kind)
    <3>1. Push(h) \in Range(cont'[i])
      BY <1>5, <2>3, <2>4, ContinueOps, OpsOK
    <3>2. IsEnd(h)
      BY <2>3, <2>4 DEF NoStop, Carried, Terminal, IsEnd
    <3> QED BY <1>5, <3>1, <3>2, <1>o
  <2>5. CASE ~ (Uninterruptible(h.kind) /\ h.dir = "down" /\ Terminal(h.kind))
    <3>1. cont'[i] = cont[i] \/ Range(cont'[i]) = {Push(h)} \cup Range(cont[i])
      BY <1>5, <2>5, ContinueOps
    <3>2. \A o \in Range(cont'[i]) : o.op # "exit"
      BY <2>2, <3>1, <1>o
    <3> QED BY <1>5, <3>2 DEF Leaving
  <2> QED BY <2>4, <2>5
<1>6. CASE i = j /\ DrainDone(i)
  <2>1. \A o \in Range(cont'[i]) : o.op # "exit"
    BY <1>6, ContinueOps, <1>o
  <2> QED BY <1>6, <2>1 DEF Leaving
<1>7. CASE i = j /\ StopStep(i)
  <2>1. /\ Range(cont[i]) = {Head(cont[i])} \cup Range(Tail(cont[i]))
        /\ Head(cont[i]).op = "stop"
    BY <1>7, TodoFacts DEF StopStep
  <2>2. /\ Range(Tail(cont[i])) \subseteq Range(cont'[i])
        /\ Range(cont'[i]) \subseteq Range(Tail(cont[i])) \cup {ErrorUp}
    BY <1>7, ContinueOps
  <2>3. Leaving(j)
    BY <1>7, <2>1, <2>2, <1>o DEF Leaving
  <2> QED BY <1>7, <1>r, <2>1, <2>2, <2>3 DEF LeaveInv
<1>8. CASE i = j /\ ExitStep(i)
  BY <1>8, ContinueOps, RangeNone DEF Leaving
<1> QED BY <1>2, <1>3, <1>4, <1>5, <1>6, <1>7, <1>8, StageCases

\* The Sink has shown the terminal frame to the task or still has to.
LEMMA LeaveSink ==
  ASSUME TypeOK, NoStop, OpsInv, LeaveInv, NEW i \in Stages, StageStep(i), Leaving(Last)'
  PROVE  \/ Shown({"End", "Cancel"})'
         \/ \E o \in Range(cont'[Last]) : o.op = "stop" /\ o.env.kind \in {"End", "Cancel"}
<1>0. /\ Last \in Stages /\ Last \notin Bridges /\ Last \notin 1 .. (Last - 1) /\ Last # 0
      /\ Last # Vad
  BY ChainAssumption DEF Stages
<1>k. ChannelsOK
  BY DEF TypeOK
<1>s. Shown({"End", "Cancel"}) => Shown({"End", "Cancel"})'
  BY ShownStage
<1>o. \A e : /\ Push(e).op = "push" /\ StopHook(e).op = "stop" /\ StopHook(e).env = e
             /\ Drain(e).op = "drain" /\ ErrorUp.op = "push"
  BY OpKinds DEF StopHook
<1>1. CASE Leaving(Last) /\ \A o \in Range(cont[Last]) : o.op = "stop" => o \in Range(cont'[Last])
  BY <1>s, <1>1 DEF LeaveInv
<1>2. CASE i # Last
  <2>1. Only(i)
    BY StageCases, HandlesFacts, ContinueOps
  <2>2. cont'[Last] = cont[Last]
    BY <1>0, <1>2, <2>1 DEF Only
  <2> QED BY <1>1, <2>2 DEF Leaving
<1>3. CASE i = Last /\ Handles(i)
  <2> DEFINE e == Received(i)
  <2>1. Ready(i) /\ Receive(i) /\ e \in Envelope
    BY <1>3, HandlesFacts
  <2>2. e.kind # "Stop"
    BY <2>1, ReceiveFacts, <1>k DEF NoStop, Carried
  <2>3. CASE RecvTerminal(i)
    <3>1. e.kind \in {"End", "Cancel"}
      BY <2>2, <2>3 DEF RecvTerminal, Terminal
    <3>2. StopHook(e) \in Range(cont'[i])
      BY <2>1, <2>3, TerminalRecvOps, OpsOK
    <3> QED BY <1>3, <3>1, <3>2, <1>o
  <2>4. CASE ~ RecvTerminal(i)
    <3>1. \A o \in Range(cont'[i]) : o.op # "exit"
      <4>1. CASE RecvStart(i)
        BY <4>1, StartOps, <1>o
      <4>2. CASE RecvInterruption(i)
        BY <4>2, InterruptionOps, <1>o
      <4>3. CASE SinkProcess
        BY <1>0, <1>3, <4>3, SinkOps, <1>o
      <4>4. CASE UserProcess(i)
        BY <1>0, <1>3, <4>4 DEF UserProcess
      <4>5. CASE BridgeForward(i)
        BY <1>0, <1>3, <4>5 DEF BridgeForward
      <4> QED BY <1>0, <1>3, <2>4, <4>1, <4>2, <4>3, <4>4, <4>5 DEF Handles
    <3> QED BY <1>3, <3>1 DEF Leaving
  <2> QED BY <2>3, <2>4
<1>4. CASE i = Last /\ PushStep(i)
  <2>1. /\ Range(cont[i]) = {Head(cont[i])} \cup Range(Tail(cont[i]))
        /\ Head(cont[i]).op = "push"
    BY <1>4, TodoFacts DEF PushStep
  <2>2. cont'[i] = Tail(cont[i])
    BY <1>4, ContinueOps
  <2> QED BY <1>1, <1>4, <2>1, <2>2 DEF Leaving
<1>5. CASE i = Last /\ DrainStep(i)
  <2> DEFINE h == Head(norm[i])
  <2>1. /\ Range(cont[i]) = {Head(cont[i])} \cup Range(Tail(cont[i]))
        /\ Head(cont[i]).op = "drain"
    BY <1>5, TodoFacts DEF DrainStep
  <2>2. \A o \in Range(cont[i]) : o.op # "exit"
    BY <2>1 DEF OpsInv
  <2>3. h \in Envelope /\ h \in Range(norm[i])
    BY <1>k, <1>5, DrainFacts DEF DrainStep
  <2>4. CASE Uninterruptible(h.kind) /\ h.dir = "down" /\ Terminal(h.kind)
    <3>1. StopHook(h) \in Range(cont'[i])
      BY <1>5, <2>3, <2>4, ContinueOps, OpsOK
    <3>2. h.kind \in {"End", "Cancel"}
      BY <2>3, <2>4 DEF NoStop, Carried, Terminal
    <3> QED BY <1>5, <3>1, <3>2, <1>o
  <2>5. CASE ~ (Uninterruptible(h.kind) /\ h.dir = "down" /\ Terminal(h.kind))
    <3>1. cont'[i] = cont[i] \/ Range(cont'[i]) = {Push(h)} \cup Range(cont[i])
      BY <1>5, <2>5, ContinueOps
    <3>2. \A o \in Range(cont'[i]) : o.op # "exit"
      BY <2>2, <3>1, <1>o
    <3> QED BY <1>5, <3>2 DEF Leaving
  <2> QED BY <2>4, <2>5
<1>6. CASE i = Last /\ DrainDone(i)
  <2>1. \A o \in Range(cont'[i]) : o.op # "exit"
    BY <1>6, ContinueOps, <1>o
  <2> QED BY <1>6, <2>1 DEF Leaving
<1>7. CASE i = Last /\ StopStep(i)
  <2> DEFINE e == Head(cont[i]).env
  <2>1. /\ Range(cont[i]) = {Head(cont[i])} \cup Range(Tail(cont[i]))
        /\ Head(cont[i]).op = "stop" /\ e \in Envelope
    BY <1>7, TodoFacts DEF StopStep
  <2>2. cont'[i] = Tail(cont[i])
    BY <1>0, <1>7, ContinueOps
  <2>3. CASE e.kind \in {"End", "Cancel"}
    <3>1. tap \in Seq(Kinds) /\ e.kind \in Kinds /\ tap' = Append(tap, e.kind)
      BY <1>7, <2>1 DEF StopStep, Tap, TypeOK, Envelope
    <3>2. e.kind \in Range(tap')
      BY <3>1, RangeAppend
    <3> QED BY <2>3, <3>2 DEF Shown
  <2>4. CASE e.kind \notin {"End", "Cancel"}
    BY <1>7, <1>s, <2>1, <2>2, <2>4 DEF LeaveInv, Leaving
  <2> QED BY <2>3, <2>4
<1>8. CASE i = Last /\ ExitStep(i)
  BY <1>8, ContinueOps, RangeNone DEF Leaving
<1> QED BY <1>2, <1>3, <1>4, <1>5, <1>6, <1>7, <1>8, StageCases

\* A stage returns with nothing left to do: leaving is its last operation.
LEMMA ReturnStage ==
  ASSUME TypeOK, NoStop, OpsInv, LeaveInv, TerminalNotLost, NEW i \in Stages, StageStep(i)
  PROVE  TerminalNotLost'
<1>k. live \in [Stages -> BOOLEAN] /\ cont \in [Stages -> Seq(Op)]
  BY DEF TypeOK
<1>1. ASSUME NEW j \in Stages, ~ live'[j]
      PROVE  ~ live[j] \/ (i = j /\ ExitStep(i) /\ Leaving(j)
                           /\ \A o \in Range(cont[j]) : o.op = "exit")
  <2> SUFFICES ASSUME live[j] PROVE i = j /\ ExitStep(i) /\ Leaving(j)
                                    /\ \A o \in Range(cont[j]) : o.op = "exit"
    OBVIOUS
  <2>1. live' # live
    BY <1>1
  <2>2. ExitStep(i)
    BY <2>1, StageCases, HandlesFacts DEF PushStep, DrainStep, DrainDone, StopStep
  <2>3. i = j
    BY <1>1, <1>k, <2>2 DEF ExitStep
  <2>4. /\ cont[i] \in Seq(Op) /\ cont[i] # <<>> /\ Head(cont[i]).op = "exit"
        /\ ExitLast(cont[i])
    BY <1>k, <2>2 DEF ExitStep, Todo, OpsInv
  <2>5. Range(cont[i]) = {Head(cont[i])}
    BY <2>4, ExitTail
  <2> QED BY <2>2, <2>3, <2>4, <2>5 DEF Leaving
<1>2. ASSUME NEW j \in 0 .. (Last - 1), ~ live'[j] PROVE Reached(j + 1)'
  <2>1. j \in Stages /\ j + 1 \in Stages
    BY ChainAssumption DEF Stages
  <2>2. Reached(j + 1)
    BY <1>1, <1>2, <2>1 DEF TerminalNotLost, LeaveInv
  <2> QED BY <2>1, <2>2, ReachedStage
<1>3. ASSUME ~ live'[Last] PROVE Shown({"End", "Cancel"})'
  <2>1. Shown({"End", "Cancel"})
    BY <1>1, <1>3, StagesOK DEF TerminalNotLost, LeaveInv
  <2> QED BY <2>1, ShownStage
<1> QED BY <1>2, <1>3 DEF TerminalNotLost

LEMMA EndInit == Init => EndInv
<1> SUFFICES ASSUME Init PROVE EndInv
  OBVIOUS
<1>1. NoStop /\ OpsInv /\ DownInv
  BY NoStopInit, OpsInit, DownInit
<1>2. \A i \in Stages : live[i] /\ cont[i] = <<>>
  BY DEF Init
<1>3. \A i \in Stages : ~ Leaving(i)
  BY <1>2, RangeNone DEF Leaving
<1>4. Last \in Stages /\ \A i \in 0 .. (Last - 1) : i \in Stages
  BY ChainAssumption DEF Stages
<1>5. LeaveInv /\ TerminalNotLost
  BY <1>2, <1>3, <1>4 DEF LeaveInv, TerminalNotLost
<1> QED BY <1>1, <1>5 DEF EndInv

\* A frame sent to the head disturbs nothing that is on its way.
LEMMA EndInject ==
  ASSUME TypeOK, FlatAssumption, EndInv, NEW kind \in Injected, Inject(kind)
  PROVE  EndInv'
<1> USE DEF hookVars, boundVars
<1>1. NoStop' /\ DownInv'
  BY NoStopInject, DownInject DEF EndInv, FlatAssumption
<1>2. cont' = cont /\ live' = live /\ tap' = tap
  BY DEF Inject
<1>3. OpsInv'
  BY <1>2 DEF EndInv, OpsInv
<1>4. \A j \in Stages : Range(sys[j]) \subseteq Range(sys'[j])
                        /\ Range(norm[j]) \subseteq Range(norm'[j])
  <2>1. Env(kind, "down", 0) \in Envelope
    BY ChainAssumption, EnvOK
  <2>2. Send(0, Env(kind, "down", 0)) /\ ChannelsOK /\ 0 \in Int
    BY DEF Inject, TypeOK
  <2> QED BY <2>1, <2>2, SendFacts
<1>5. \A j \in Stages : Reached(j) => Reached(j)'
  BY <1>2, <1>4 DEF Reached, Leaving
<1>6. \A j \in 0 .. (Last - 1) : j + 1 \in Stages
  BY ChainAssumption DEF Stages
<1>7. LeaveInv'
  BY <1>2, <1>5, <1>6 DEF EndInv, LeaveInv, Leaving, Shown
<1>8. TerminalNotLost'
  BY <1>2, <1>5, <1>6 DEF EndInv, TerminalNotLost, Shown
<1> QED BY <1>1, <1>3, <1>7, <1>8 DEF EndInv

\* The end of the task is never lost between two stages, in every chain in which
\* nothing goes upstream through a bridge and Stop is not used.
THEOREM EndArrives ==
  ASSUME FlatAssumption
  PROVE  Spec => []TerminalNotLost
<1>1. Init => EndInv
  BY EndInit
<1>2. TypeOK /\ EndInv /\ [Next]_vars => EndInv'
  <2> SUFFICES ASSUME TypeOK, EndInv, [Next]_vars PROVE EndInv'
    OBVIOUS
  <2>1. ASSUME NEW i \in Stages, StageStep(i), UNCHANGED injects PROVE EndInv'
    <3>1. NoStop /\ OpsInv /\ DownInv /\ LeaveInv /\ TerminalNotLost
      BY DEF EndInv
    <3>2. NoStop' /\ OpsInv' /\ DownInv'
      BY <2>1, <3>1, NoStopStage, OpsStage, DownStage
    <3>3. LeaveInv'
      BY <2>1, <3>1, LeaveStage, LeaveSink DEF LeaveInv
    <3>4. TerminalNotLost'
      BY <2>1, <3>1, ReturnStage
    <3> QED BY <3>2, <3>3, <3>4 DEF EndInv
  <2>2. ASSUME NEW kind \in Injected, Inject(kind) PROVE EndInv'
    BY <2>2, EndInject
  <2>3. CASE UNCHANGED vars
    <3>1. UNCHANGED <<sys, norm, cont, live, tap>>
      BY <2>3 DEF vars, chainVars
    <3> QED BY <3>1 DEF EndInv, NoStop, OpsInv, DownInv, LeaveInv, TerminalNotLost, Carried,
                        Reached, Leaving, Shown
  <2> QED BY <2>1, <2>2, <2>3 DEF Next
<1>3. EndInv => TerminalNotLost
  BY DEF EndInv
<1> QED BY <1>1, <1>2, <1>3, TypeCorrect, PTL DEF Spec
-----------------------------------------------------------------------------
(* The hooks run in order and once.                                        *)

\* A list without the stop hook has it at most once.
LEMMA StopFree ==
  ASSUME NEW s \in Seq(Op), \A o \in Range(s) : o.op # "stop"
  PROVE  OneStop(s)
<1>1. Range(s) = {s[k] : k \in 1 .. Len(s)}
  BY RangeEquality
<1> QED BY <1>1 DEF OneStop

\* The rest of a list with one stop hook has at most that one, and none if it was the first.
LEMMA StopTail ==
  ASSUME NEW s \in Seq(Op), s # <<>>, OneStop(s)
  PROVE  /\ OneStop(Tail(s))
         /\ Head(s).op = "stop" => \A o \in Range(Tail(s)) : o.op # "stop"
<1>1. /\ Len(s) \in Nat /\ Len(s) # 0
      /\ Head(s) = s[1] /\ Tail(s) \in Seq(Op)
      /\ Len(Tail(s)) = Len(s) - 1
      /\ \A k \in 1 .. (Len(s) - 1) : Tail(s)[k] = s[k + 1]
  BY HeadTailProperties, LenProperties, EmptySeq
<1>2. \A k \in 1 .. Len(Tail(s)) : k + 1 \in 1 .. Len(s) /\ Tail(s)[k] = s[k + 1] /\ k \in Nat
  BY <1>1
<1>3. OneStop(Tail(s))
  <2> SUFFICES ASSUME NEW k \in 1 .. Len(Tail(s)), NEW l \in 1 .. Len(Tail(s)),
                      Tail(s)[k].op = "stop", Tail(s)[l].op = "stop"
               PROVE  k = l
    BY DEF OneStop
  <2>1. k + 1 = l + 1
    BY <1>2 DEF OneStop
  <2> QED BY <1>2, <2>1
<1>4. ASSUME Head(s).op = "stop", NEW o \in Range(Tail(s)), o.op = "stop" PROVE FALSE
  <2>0. Range(Tail(s)) = {Tail(s)[k] : k \in 1 .. Len(Tail(s))}
    BY <1>1, RangeEquality
  <2>1. PICK k \in 1 .. Len(Tail(s)) : o = Tail(s)[k]
    BY <1>4, <2>0
  <2>2. 1 \in 1 .. Len(s) /\ s[1].op = "stop" /\ s[k + 1].op = "stop"
    BY <1>1, <1>2, <1>4, <2>1
  <2>3. k + 1 = 1
    BY <1>2, <2>2 DEF OneStop
  <2> QED BY <2>3
<1> QED BY <1>3, <1>4

\* A push in front does not count.
LEMMA StopPrefix ==
  ASSUME NEW s \in Seq(Op), NEW a \in Op, a.op # "stop", OneStop(s)
  PROVE  OneStop(<<a>> \o s)
<1> DEFINE t == <<a>> \o s
<1>1. /\ <<a>> \in Seq(Op) /\ Len(<<a>>) = 1 /\ <<a>>[1] = a /\ Len(s) \in Nat
  BY LenProperties
<1>2. /\ Len(t) = 1 + Len(s)
      /\ t[1] = a
      /\ \A k \in 2 .. Len(t) : t[k] = s[k - 1]
  BY <1>1, ConcatProperties
<1> HIDE DEF t
<1> SUFFICES ASSUME NEW k \in 1 .. Len(t), NEW l \in 1 .. Len(t), t[k].op = "stop", t[l].op = "stop"
             PROVE  k = l
  BY DEF OneStop, t
<1>3. k # 1 /\ l # 1
  BY <1>2
<1>4. k \in 2 .. Len(t) /\ k - 1 \in 1 .. Len(s) /\ l \in 2 .. Len(t) /\ l - 1 \in 1 .. Len(s)
  BY <1>1, <1>2, <1>3
<1>5. s[k - 1].op = "stop" /\ s[l - 1].op = "stop"
  BY <1>2, <1>4
<1>6. k - 1 = l - 1
  BY <1>4, <1>5 DEF OneStop
<1> QED BY <1>4, <1>6

\* The terminal arm runs the hook once.
LEMMA StopTerminal ==
  ASSUME NEW e \in Envelope
  PROVE  OneStop(TerminalOps(e))
<1>1. OneStop(<<StopHook(e), Push(e)>>) /\ OneStop(<<StopHook(e), Push(e), Exit(e)>>)
  BY DEF OneStop, Push, Exit, StopHook
<1> QED BY <1>1 DEF TerminalOps

\* A hook that fails adds no second one.
LEMMA StopMayFail ==
  ASSUME TypeOK, NEW i \in Stages, NEW ops \in Seq(Op), MayFail(i, ops), OneStop(ops)
  PROVE  OneStop(cont'[i])
<1>1. OneStop(<<ErrorUp>> \o ops)
  BY EnvOK, OpKinds, StopPrefix
<1>2. <<ErrorUp>> \o ops \in Seq(Op)
  BY EnvOK, RangePrefix
<1>3. Continue(i, ops) \/ Continue(i, <<ErrorUp>> \o ops)
  BY DEF MayFail
<1> QED BY <1>1, <1>2, <1>3, ContinueFacts DEF TypeOK

\* The stop() hook runs once on every way out of the loop.
LEMMA StopStage ==
  ASSUME TypeOK, NoStop, OpsInv, StopInv, NEW i \in Stages, StageStep(i), UNCHANGED injects
  PROVE  StopInv'
<1> DEFINE e == Received(i)
           Has(c, op) == \E o \in Range(c) : o.op = op
           Good(c, v, n) ==
             /\ OneStop(c)
             /\ v /\ ~ Has(c, "exit") => n = 0 /\ ~ Has(c, "stop")
             /\ v /\ Has(c, "exit") => n = IF Has(c, "stop") THEN 0 ELSE 1
             /\ ~ v => n = 1
<1>0. /\ cont \in [Stages -> Seq(Op)] /\ cont' \in [Stages -> Seq(Op)]
      /\ live \in [Stages -> BOOLEAN] /\ stops \in [Stages -> Nat] /\ live[i]
  <2>1. TypeOK'
    BY TypeStage
  <2>2. live[i]
    BY DEF StageStep, RecvStart, RecvInterruption, RecvTerminal, UserProcess, BridgeForward,
           PushStep, DrainStep, DrainDone, StopStep, ExitStep, SourceProcess, SinkProcess,
           BargeIn, ToProcessFrame, Ready, Todo
  <2> QED BY <2>1, <2>2 DEF TypeOK
<1>1. \A j \in Stages \ Bridges : Good(cont[j], live[j], stops[j])
  BY DEF StopInv, Leaving, Stopping
<1>2. SUFFICES /\ Only(i)
               /\ \A j \in Stages : j # i => live'[j] = live[j] /\ stops'[j] = stops[j]
               /\ i \notin Bridges => Good(cont'[i], live'[i], stops'[i])
  BY <1>1, <1>2 DEF StopInv, Leaving, Stopping, Only
<1>3. ASSUME i \notin Bridges, ~ Has(cont[i], "exit"), stops'[i] = stops[i],
             \A o \in Range(cont'[i]) : o.op \in {"push", "drain"}
      PROVE  Good(cont'[i], live[i], stops'[i])
  <2>1. OneStop(cont'[i])
    BY <1>0, <1>3, StopFree
  <2> QED BY <1>0, <1>1, <1>3, <2>1
<1>4. CASE Handles(i)
  <2>1. Only(i) /\ live' = live /\ stops' = stops /\ Range(cont[i]) = {} /\ e \in Envelope
    BY <1>4, HandlesFacts
  <2>2. CASE BridgeForward(i)
    BY <2>1, <2>2 DEF BridgeForward
  <2>3. CASE RecvTerminal(i)
    <3>1. cont'[i] = TerminalOps(e) /\ OneStop(cont'[i])
      BY <2>1, <2>3, TerminalRecvOps, StopTerminal
    <3>2. e.kind # "Stop"
      <4>1. Ready(i) /\ Receive(i)
        BY <2>3 DEF RecvTerminal
      <4>2. e \in Carried(i)
        BY <4>1, ReceiveFacts DEF TypeOK, Carried
      <4> QED BY <4>2 DEF NoStop
    <3>3. Has(cont'[i], "exit") /\ Has(cont'[i], "stop")
      BY <2>1, <3>1, <3>2, OpsOK, OpKinds
    <3>4. i \notin Bridges => stops[i] = 0
      BY <1>0, <1>1, <2>1
    <3> QED BY <1>0, <2>1, <3>1, <3>3, <3>4
  <2>4. CASE ~ BridgeForward(i) /\ ~ RecvTerminal(i)
    <3>1. \A o \in Range(cont'[i]) : o.op \in {"push", "drain"}
      BY <1>4, <2>4, StartOps, InterruptionOps, UserOps, SourceOps, SinkOps, BargeOps, OpKinds,
         StagesOK DEF Handles
    <3> QED BY <1>3, <2>1, <3>1
  <2> QED BY <2>2, <2>3, <2>4
<1>5. CASE PushStep(i)
  <2>1. /\ Only(i) /\ cont'[i] = Tail(cont[i]) /\ cont[i] # <<>>
        /\ Range(cont[i]) = {Head(cont[i])} \cup Range(Tail(cont[i])) /\ Head(cont[i]).op = "push"
        /\ live' = live /\ stops' = stops
    BY <1>5, ContinueOps, TodoFacts DEF PushStep, Todo, hookVars
  <2>2. i \notin Bridges => OneStop(cont'[i])
    BY <1>0, <1>1, <2>1, StopTail
  <2>3. Has(cont'[i], "exit") = Has(cont[i], "exit") /\ Has(cont'[i], "stop") = Has(cont[i], "stop")
    BY <2>1
  <2> QED BY <1>1, <2>1, <2>2, <2>3
<1>6. CASE DrainStep(i) \/ DrainDone(i)
  <2>1. /\ Only(i) /\ live' = live /\ stops' = stops
        /\ Head(cont[i]) \in Range(cont[i]) /\ Head(cont[i]).op = "drain"
        /\ Head(cont[i]).env \in Envelope
    BY <1>6, ContinueOps, TodoFacts DEF DrainStep, DrainDone
  <2>2. \A o \in Range(cont[i]) : o.op \in {"push", "drain"}
    BY <2>1 DEF OpsInv
  <2>3. CASE DrainDone(i) \/ cont'[i] = cont[i]
    <3>1. \A o \in Range(cont'[i]) : o.op \in {"push", "drain"}
      BY <1>6, <2>2, <2>3, ContinueOps, OpKinds
    <3> QED BY <1>3, <2>1, <2>2, <3>1
  <2> DEFINE h == Head(norm[i])
             int == Head(cont[i]).env
  <2>4. CASE DrainStep(i) /\ Range(cont'[i]) = {Push(h)} \cup Range(cont[i])
    <3>1. \A o \in Range(cont'[i]) : o.op \in {"push", "drain"}
      BY <2>2, <2>4, OpKinds
    <3> QED BY <1>3, <2>1, <2>2, <3>1
  <2>5. CASE DrainStep(i) /\ Uninterruptible(h.kind) /\ h.dir = "down" /\ Terminal(h.kind)
    <3>1. MayFail(i, <<Push(int)>> \o TerminalOps(h))
      BY <2>5 DEF DrainStep
    <3>2. h \in Envelope /\ h \in Carried(i)
      BY <2>5, DrainFacts DEF DrainStep, TypeOK, Carried
    <3>3. /\ TerminalOps(h) \in Seq(Op) /\ OneStop(TerminalOps(h))
          /\ Push(int) \in Op /\ Push(int).op # "stop"
      BY <2>1, <3>2, OpsOK, StopTerminal, OpKinds
    <3>4. /\ <<Push(int)>> \o TerminalOps(h) \in Seq(Op)
          /\ OneStop(<<Push(int)>> \o TerminalOps(h))
      BY <3>3, RangePrefix, StopPrefix
    <3>5. OneStop(cont'[i])
      BY <3>1, <3>4, StopMayFail
    <3>6. Range(TerminalOps(h)) \subseteq Range(cont'[i])
      BY <2>5, ContinueOps
    <3>7. Has(cont'[i], "exit") /\ Has(cont'[i], "stop")
      BY <3>2, <3>6, OpsOK, OpKinds DEF NoStop
    <3>8. i \notin Bridges => stops[i] = 0
      BY <1>0, <1>1, <2>2
    <3> QED BY <1>0, <2>1, <3>5, <3>7, <3>8
  <2> QED BY <1>6, <2>3, <2>4, <2>5, ContinueOps
<1>7. CASE StopStep(i)
  <2>1. /\ Only(i) /\ cont[i] # <<>> /\ Head(cont[i]).op = "stop" /\ Tail(cont[i]) \in Seq(Op)
        /\ Range(cont[i]) = {Head(cont[i])} \cup Range(Tail(cont[i]))
        /\ Range(Tail(cont[i])) \subseteq Range(cont'[i])
        /\ Range(cont'[i]) \subseteq Range(Tail(cont[i])) \cup {ErrorUp}
        /\ MayFail(i, Tail(cont[i]))
        /\ live' = live /\ stops' = [stops EXCEPT ![i] = @ + 1]
    BY <1>7, ContinueOps, TodoFacts DEF StopStep, Todo
  <2>2. ASSUME i \notin Bridges PROVE Good(cont'[i], live'[i], stops'[i])
    <3>1. OneStop(Tail(cont[i])) /\ \A o \in Range(Tail(cont[i])) : o.op # "stop"
      BY <1>0, <1>1, <2>1, <2>2, StopTail
    <3>2. OneStop(cont'[i])
      BY <2>1, <3>1, StopMayFail
    <3>3. Has(cont[i], "exit") /\ stops[i] = 0
      BY <1>0, <1>1, <2>1, <2>2
    <3>4. Has(cont'[i], "exit") /\ ~ Has(cont'[i], "stop")
      BY <2>1, <3>1, <3>3, OpKinds
    <3>5. stops'[i] = 1
      BY <1>0, <2>1, <3>3
    <3> QED BY <1>0, <2>1, <3>2, <3>4, <3>5
  <2> QED BY <1>0, <2>1, <2>2
<1>8. CASE ExitStep(i)
  <2>1. /\ Only(i) /\ cont'[i] = <<>> /\ stops' = stops /\ live' = [live EXCEPT ![i] = FALSE]
        /\ Head(cont[i]).op = "exit" /\ cont[i] # <<>> /\ Head(cont[i]) \in Range(cont[i])
    BY <1>8, ContinueOps, TodoFacts DEF ExitStep, Todo, hookVars
  <2>2. Range(cont[i]) = {Head(cont[i])}
    BY <1>0, <2>1, ExitTail DEF OpsInv
  <2>3. i \notin Bridges => stops[i] = 1
    BY <1>0, <1>1, <2>1, <2>2
  <2>4. OneStop(<<>>)
    BY RangeNone, StopFree
  <2> QED BY <1>0, <2>1, <2>3, <2>4
<1> QED BY <1>4, <1>5, <1>6, <1>7, <1>8, StageCases
\* In the beginning Start is at the head and there is nothing else.
LEMMA StartInit == Init => StartInv
<1> SUFFICES ASSUME Init PROVE StartInv
  OBVIOUS
<1>1. /\ Range(<<>>) = {}
      /\ Range(<<Env("Start", "down", 0)>>) = {Env("Start", "down", 0)}
  BY RangeNone, RangeOne
<1>2. ASSUME NEW i \in Stages, NEW e \in Carried(i) PROVE i = 0 /\ e = Env("Start", "down", 0)
  <2>1. cont[i] = <<>> /\ norm[i] = <<>> /\ sys[i] = IF i = 0 THEN <<Env("Start", "down", 0)>> ELSE <<>>
    BY DEF Init
  <2> QED BY <1>1, <1>2, <2>1 DEF Carried
<1>3. \A j \in Stages : ~ (j < 0) /\ ~ started[j] /\ cont[j] = <<>>
  BY DEF Init, Stages
<1> QED BY <1>1, <1>2, <1>3 DEF StartInv, Env

\* Start reaches the stages in their order, and keeps everything else waiting.
LEMMA StartStage ==
  ASSUME TypeOK, StartInv, NEW i \in Stages, StageStep(i)
  PROVE  StartInv'
<1> DEFINE e == Received(i)
           Own == {"Start", "Interruption", "End", "Stop", "Cancel"}
<1>0. started \in [Stages -> BOOLEAN] /\ ChannelsOK /\ cont \in [Stages -> Seq(Op)]
  BY DEF TypeOK
<1>1. /\ \A j \in Stages : \A f \in Carried(j) :
           f.kind = "Start" => f.dir = "down" /\ \A k \in Stages \ Bridges : k < j => started[k]
      /\ \A j \in Stages \ Bridges : \A o \in Range(cont[j]) : o.env.kind = "Start" => started[j]
      /\ \A j \in Stages \ Bridges : started[j] => \A k \in Stages \ Bridges : k < j => started[k]
      /\ (\A j \in Stages \ Bridges : started[j]) \/
           \A j \in Stages : \A f \in Carried(j) : f.dir = "down" => f.kind \in Own
  BY DEF StartInv
<1>3. started' = started \/ (RecvStart(i) /\ started' = [started EXCEPT ![i] = TRUE])
  BY DEF StageStep, RecvStart, RecvInterruption, RecvTerminal, UserProcess, BridgeForward,
         PushStep, DrainStep, DrainDone, StopStep, ExitStep, SourceProcess, SinkProcess, BargeIn,
         hookVars
<1>4. \A j \in Stages : started[j] => started'[j]
  BY <1>0, <1>3
<1>5. \A f \in Carried(i) : f \in Envelope
  BY CarriedOK
<1>6. ASSUME NEW j \in Stages, NEW f \in Carried(j)', f.kind = "Start"
      PROVE  f.dir = "down" /\ \A k \in Stages \ Bridges : k < j => started'[k]
  <2>1. CASE f \in Carried(j)
    BY <1>1, <1>4, <1>6, <2>1
  <2>2. CASE f \in {Env("Error", "up", 0), Env("End", "up", 0),
                    Env("Interruption", "down", gens + 1), Env("Interruption", "up", gens + 1)}
    BY <1>6, <2>2 DEF Env
  <2>3. CASE j = i /\ \E g \in Carried(i) : f = [g EXCEPT !.dir = "down"]
    BY <1>1, <1>4, <1>5, <1>6, <2>3 DEF Envelope
  <2>4. CASE j = i /\ \E g \in Carried(i) : f = Forwarded(i, g)
    BY <1>1, <1>4, <1>5, <1>6, <2>4, ForwardedFacts
  <2>5. CASE PushStep(i) /\ f = Head(cont[i]).env /\ j = Target(i, f)
    <3>1. Head(cont[i]) \in Range(cont[i])
      BY <2>5, TodoFacts DEF PushStep
    <3>2. f \in Carried(i) /\ (i \notin Bridges => started[i])
      BY <1>1, <1>6, <2>5, <3>1 DEF Carried
    <3>3. f.dir = "down" /\ \A k \in Stages \ Bridges : k < i => started[k]
      BY <1>1, <1>6, <3>2
    <3>4. j = i + 1
      BY <2>5, <3>3 DEF Target
    <3>5. \A k \in Stages : k < j => k < i \/ k = i
      BY <3>4 DEF Stages
    <3> QED BY <1>4, <3>2, <3>3, <3>5
  <2> QED BY <2>1, <2>2, <2>3, <2>4, <2>5, CarriedStage
<1>7. ASSUME NEW j \in Stages \ Bridges, NEW o \in Range(cont'[j]), o.env.kind = "Start"
      PROVE  started'[j]
  <2>0. ErrorUp.env.kind = "Error" /\ Env("End", "up", 0).kind = "End"
        /\ \A f : Push(f).env = f /\ Drain(f).env = f /\ StopHook(f).env = f /\ Exit(f).env = f
    BY DEF ErrorUp, Push, Drain, StopHook, Exit, Env
  <2>1. CASE o \in Range(cont[j])
    BY <1>1, <1>4, <1>7, <2>1
  <2>2. CASE j # i
    <3>1. Only(i)
      BY StageCases, HandlesFacts, ContinueOps
    <3> QED BY <2>1, <2>2, <3>1 DEF Only
  <2>3. CASE j = i /\ Handles(i)
    <3>1. Ready(i) /\ Receive(i) /\ e \in Envelope
      BY <2>3, HandlesFacts
    <3>2. CASE RecvStart(i)
      <4>1. started' = [started EXCEPT ![i] = TRUE]
        BY <3>2 DEF RecvStart
      <4> QED BY <1>0, <2>3, <4>1
    <3>3. CASE RecvTerminal(i)
      <4>1. cont'[i] = TerminalOps(e) /\ e.kind # "Start"
        BY <3>3, TerminalRecvOps DEF RecvTerminal, Terminal
      <4>2. o \in {StopHook(e), Push(e), Exit(e)}
        BY <1>7, <2>3, <3>1, <4>1, OpsOK
      <4> QED BY <1>7, <2>0, <4>1, <4>2
    <3>4. CASE RecvInterruption(i)
      <4>1. o = Drain(e) /\ e.kind # "Start"
        BY <1>7, <2>3, <3>4, InterruptionOps DEF RecvInterruption
      <4> QED BY <1>7, <2>0, <4>1
    <3>5. CASE UserProcess(i)
      <4>1. o \in {Push(Forwarded(i, e)), Push(Env("End", "up", 0)), ErrorUp}
        BY <1>7, <2>3, <3>5, UserOps
      <4>2. Forwarded(i, e).kind # "Start"
        BY <3>1, <3>5, ForwardedFacts DEF UserProcess, ToProcessFrame
      <4> QED BY <1>7, <2>0, <4>1, <4>2
    <3>6. CASE i = 0 /\ SourceProcess
      <4>1. e.kind # "Start" /\ [e EXCEPT !.dir = "down"].kind # "Start"
        BY <3>1, <3>6 DEF SourceProcess, ToProcessFrame, Envelope
      <4> DEFINE g == [e EXCEPT !.dir = "down"]
      <4>2. o \in {Push(e), Push(g)}
        BY <1>7, <2>3, <3>6, SourceOps
      <4> HIDE DEF e, g
      <4>3. o.env \in {e, g}
        BY <2>0, <4>2
      <4> QED BY <1>7, <4>1, <4>3 DEF g
    <3>7. CASE i = Last /\ SinkProcess
      <4>1. o = Push(e) /\ e.kind # "Start"
        BY <1>7, <2>3, <3>7, SinkOps DEF SinkProcess, ToProcessFrame
      <4> QED BY <1>7, <2>0, <4>1
    <3>8. CASE i = Vad /\ BargeIn
      <4>1. /\ e.kind # "Start"
            /\ o \in {Push(Env("Interruption", "down", gens + 1)),
                      Push(Env("Interruption", "up", gens + 1)), Push(e)}
        BY <1>7, <2>3, <3>8, BargeOps DEF BargeIn, ToProcessFrame
      <4>2. \A d, g : Env("Interruption", d, g).kind # "Start"
        BY DEF Env
      <4> QED BY <1>7, <2>0, <4>1, <4>2
    <3>9. ~ BridgeForward(i)
      BY <2>3 DEF BridgeForward
    <3> QED BY <2>3, <3>2, <3>3, <3>4, <3>5, <3>6, <3>7, <3>8, <3>9 DEF Handles
  <2>4. CASE j = i /\ (PushStep(i) \/ StopStep(i) \/ ExitStep(i) \/ DrainDone(i))
    <3>1. /\ Range(cont[i]) = {Head(cont[i])} \cup Range(Tail(cont[i])) /\ Range(<<>>) = {}
      BY <2>4, TodoFacts, RangeNone DEF PushStep, StopStep, ExitStep, DrainDone
    <3>2. o \in Range(cont[i]) \/ o = ErrorUp \/ o = Push(Head(cont[i]).env)
      BY <1>7, <2>4, <3>1, ContinueOps
    <3> QED BY <1>1, <1>4, <1>7, <2>0, <2>1, <2>4, <3>1, <3>2
  <2>5. CASE j = i /\ DrainStep(i)
    <3> DEFINE h == Head(norm[i])
    <3>1. Range(cont[i]) = {Head(cont[i])} \cup Range(Tail(cont[i]))
      BY <2>5, TodoFacts DEF DrainStep
    <3>2. h \in Envelope /\ h \in Range(norm[i])
      BY <1>0, <2>5, DrainFacts DEF DrainStep
    <3>3. h.kind # "Start"
      BY <1>0, <3>2 DEF ChannelsOK, System
    <3>4. o \in Range(cont[i]) \/ o \in {ErrorUp, Push(Head(cont[i]).env), Push(h), StopHook(h), Exit(h)}
      BY <1>7, <2>5, <3>2, ContinueOps, OpsOK
    <3> QED BY <1>1, <1>4, <1>7, <2>0, <2>1, <2>5, <3>1, <3>3, <3>4
  <2> QED BY <2>2, <2>3, <2>4, <2>5, StageCases
<1>8. ASSUME NEW j \in Stages \ Bridges, started'[j], NEW k \in Stages \ Bridges, k < j
      PROVE  started'[k]
  <2>1. CASE started[j]
    BY <1>1, <1>4, <1>8, <2>1
  <2>2. CASE j = i /\ RecvStart(i)
    <3>1. e \in Carried(i) /\ e.kind = "Start"
      BY <1>0, <2>2, ReceiveFacts DEF RecvStart, Carried
    <3> QED BY <1>1, <1>4, <1>8, <2>2, <3>1
  <2> QED BY <1>0, <1>3, <1>8, <2>1, <2>2
<1>9. ASSUME ~ \A j \in Stages \ Bridges : started'[j], NEW j \in Stages, NEW f \in Carried(j)',
             f.dir = "down"
      PROVE  f.kind \in Own
  <2>0. \A k \in Stages : \A g \in Carried(k) : g.dir = "down" => g.kind \in Own
    BY <1>1, <1>4, <1>9
  <2>1. CASE f \in Carried(j)
    BY <1>9, <2>0, <2>1
  <2>2. CASE f \in {Env("Error", "up", 0), Env("End", "up", 0),
                    Env("Interruption", "down", gens + 1), Env("Interruption", "up", gens + 1)}
    BY <1>9, <2>2 DEF Env
  <2>3. CASE \E g \in Carried(i) : Terminal(g.kind) /\ f = [g EXCEPT !.dir = "down"]
    BY <1>5, <2>3 DEF Envelope, Terminal
  <2>4. CASE j = i /\ \E g \in Carried(i) : f = Forwarded(i, g)
    BY <1>5, <1>9, <2>0, <2>4, ForwardedFacts
  <2>5. CASE PushStep(i) /\ f = Head(cont[i]).env
    <3>1. f \in Carried(i)
      BY <2>5, TodoFacts DEF PushStep, Carried
    <3> QED BY <1>9, <2>0, <3>1
  <2> QED BY <2>1, <2>2, <2>3, <2>4, <2>5, CarriedStage
<1> QED BY <1>6, <1>7, <1>8, <1>9 DEF StartInv

\* Nothing but Cancel is put in before the last processor has started.
LEMMA StartInject ==
  ASSUME TypeOK, StartInv, NEW kind \in Injected, Inject(kind)
  PROVE  StartInv'
<1>1. started' = started /\ cont' = cont /\ (started[Last] \/ kind = "Cancel")
  BY DEF Inject, hookVars
<1>2. \A j \in Stages : \A f \in Carried(j)' : f \in Carried(j) \/ f = Env(kind, "down", 0)
  BY CarriedInject
<1>3. Env(kind, "down", 0).kind = kind /\ kind # "Start"
  BY ChainAssumption DEF Env
<1>4. \A j \in Stages \ Bridges : j = Last \/ j < Last
  BY ChainAssumption DEF Stages
<1>5. Last \in Stages \ Bridges
  BY ChainAssumption DEF Stages
<1>6. started[Last] => \A j \in Stages \ Bridges : started[j]
  BY <1>4, <1>5 DEF StartInv
<1> QED BY <1>1, <1>2, <1>3, <1>6 DEF StartInv

\* The hooks of every processor run in order and once, in every chain: nested composites and
\* upstream frames included. Only Stop, which keeps the loop going, runs stop() again.
THEOREM HooksRun ==
  ASSUME "Stop" \notin Injected
  PROVE  Spec => []HooksInOrder
<1> DEFINE Inv == NoStop /\ OpsInv /\ StopInv /\ StartInv
<1>1. Init => Inv
  <2> SUFFICES ASSUME Init PROVE Inv
    OBVIOUS
  <2>1. NoStop /\ OpsInv
    BY NoStopInit, OpsInit
  <2>2. Range(<<>>) = {} /\ <<>> \in Seq(Op)
    BY RangeNone
  <2>3. OneStop(<<>>)
    BY <2>2, StopFree
  <2>4. StopInv
    BY <2>2, <2>3 DEF StopInv, Init, Leaving, Stopping
  <2>5. StartInv
    BY StartInit
  <2> QED BY <2>1, <2>4, <2>5
<1>2. TypeOK /\ Inv /\ [Next]_vars => Inv'
  <2> SUFFICES ASSUME TypeOK, Inv, [Next]_vars PROVE Inv'
    OBVIOUS
  <2>1. ASSUME NEW i \in Stages, StageStep(i), UNCHANGED injects PROVE Inv'
    BY <2>1, NoStopStage, OpsStage, StopStage, StartStage
  <2>2. ASSUME NEW kind \in Injected, Inject(kind) PROVE Inv'
    <3>1. UNCHANGED <<cont, live, stops>>
      BY <2>2 DEF Inject, hookVars
    <3>2. OpsInv' /\ StopInv'
      BY <3>1 DEF OpsInv, StopInv, Leaving, Stopping
    <3> QED BY <2>2, <3>2, NoStopInject, StartInject
  <2>3. CASE UNCHANGED vars
    <3>1. UNCHANGED <<sys, norm, cont, live, started, stops>>
      BY <2>3 DEF vars, chainVars
    <3> QED BY <3>1 DEF NoStop, OpsInv, StopInv, StartInv, Carried, Leaving, Stopping
  <2> QED BY <2>1, <2>2, <2>3 DEF Next
<1>3. TypeOK /\ Inv => HooksInOrder
  <2> SUFFICES ASSUME TypeOK, Inv PROVE HooksInOrder
    OBVIOUS
  <2>1. StopOnce
    BY DEF StopInv, StopOnce
  <2>2. StartFirst
    <3> SUFFICES ASSUME NEW i \in Stages, ToProcessFrame(i), Received(i).dir = "down"
                 PROVE  \A j \in Stages \ Bridges : started[j]
      BY DEF StartFirst
    <3> DEFINE e == Received(i)
    <3>1. e.kind \notin {"Start", "Interruption", "End", "Stop", "Cancel"}
      BY DEF ToProcessFrame, Terminal
    <3>2. e \in Carried(i)
      <4>1. sys[i] \in Seq(Envelope) /\ norm[i] \in Seq(Envelope)
        BY DEF TypeOK, ChannelsOK
      <4>2. CASE sys[i] # <<>>
        BY <4>1, <4>2, RangeTail DEF Received, Carried
      <4>3. CASE sys[i] = <<>>
        <5>1. norm[i] # <<>>
          BY <4>3 DEF ToProcessFrame, Ready
        <5> QED BY <4>1, <4>3, <5>1, RangeTail DEF Received, Carried
      <4> QED BY <4>2, <4>3
    <3> QED BY <3>1, <3>2 DEF StartInv
  <2> QED BY <2>1, <2>2 DEF HooksInOrder
<1> QED BY <1>1, <1>2, <1>3, TypeCorrect, PTL DEF Spec
-----------------------------------------------------------------------------
(* Barge-in leaves no text of an earlier turn behind.                      *)

\* The counters move only in the steps that handle an interruption.
LEMMA TurnSteps ==
  ASSUME TypeOK, NEW i \in Stages, StageStep(i)
  PROVE  /\ gens \in Nat /\ gens' \in Nat /\ seen \in [Stages -> Nat]
         /\ gens' = gens \/ (i = Vad /\ BargeIn /\ gens' = gens + 1)
         /\ \/ seen' = seen
            \/ /\ DrainStep(i) \/ DrainDone(i)
               /\ seen' = [seen EXCEPT ![i] = Latest(@, Head(cont[i]).env.gen)]
<1>1. gens \in Nat /\ seen \in [Stages -> Nat]
  BY ChainAssumption DEF TypeOK
<1>2. gens' = gens \/ (i = Vad /\ BargeIn /\ gens' = gens + 1)
  BY DEF StageStep, RecvStart, RecvInterruption, RecvTerminal, UserProcess, BridgeForward,
         PushStep, DrainStep, DrainDone, StopStep, ExitStep, SourceProcess, SinkProcess, BargeIn,
         boundVars
<1>3. CASE ~ DrainStep(i) /\ ~ DrainDone(i)
  <2>1. seen' = seen
    BY <1>3 DEF StageStep, RecvStart, RecvInterruption, RecvTerminal, UserProcess, BridgeForward,
           PushStep, StopStep, ExitStep, SourceProcess, SinkProcess, BargeIn, hookVars
  <2> QED BY <1>1, <1>2, <2>1
<1>4. CASE DrainStep(i)
  BY <1>1, <1>2, <1>4, ContinueOps
<1>5. CASE DrainDone(i)
  BY <1>1, <1>2, <1>5 DEF DrainDone
<1> QED BY <1>3, <1>4, <1>5

\* What a stage drains for is an interruption.
LEMMA DrainStage ==
  ASSUME TypeOK, DrainInv, NEW i \in Stages, StageStep(i)
  PROVE  DrainInv'
<1> SUFFICES ASSUME NEW j \in Stages, NEW o \in Range(cont'[j]), o.op = "drain"
             PROVE  o.env.kind = "Interruption"
  BY DEF DrainInv
<1>1. CASE o \in Range(cont[j])
  BY <1>1 DEF DrainInv
<1>2. CASE j # i
  <2>1. Only(i)
    BY StageCases, HandlesFacts, ContinueOps
  <2> QED BY <1>1, <1>2, <2>1 DEF Only
<1>3. CASE j = i /\ RecvInterruption(i)
  BY <1>3, InterruptionOps DEF Drain, RecvInterruption
<1>4. CASE j = i /\ Handles(i) /\ ~ RecvInterruption(i)
  <2>1. Received(i) \in Envelope
    BY <1>4, HandlesFacts
  <2>2. CASE RecvTerminal(i)
    <3>1. Range(cont'[i]) \subseteq {StopHook(Received(i)), Push(Received(i)), Exit(Received(i))}
      BY <2>1, <2>2, TerminalRecvOps, OpsOK
    <3> QED BY <1>4, <3>1, OpKinds
  <2>3. CASE RecvStart(i) \/ UserProcess(i) \/ BridgeForward(i)
    BY <1>4, <2>3, StartOps, UserOps, BridgeOps, OpKinds
  <2>4. CASE (i = 0 /\ SourceProcess) \/ (i = Last /\ SinkProcess) \/ (i = Vad /\ BargeIn)
    BY <1>4, <2>4, SourceOps, SinkOps, BargeOps, OpKinds, StagesOK
  <2> QED BY <1>4, <2>2, <2>3, <2>4 DEF Handles
<1>5. CASE j = i /\ (PushStep(i) \/ StopStep(i) \/ ExitStep(i) \/ DrainDone(i))
  <2>1. Range(cont[i]) = {Head(cont[i])} \cup Range(Tail(cont[i])) /\ Range(<<>>) = {}
    BY <1>5, TodoFacts, RangeNone DEF PushStep, StopStep, ExitStep, DrainDone
  <2>2. o \in Range(cont[i]) \/ o = ErrorUp \/ o = Push(Head(cont[i]).env)
    BY <1>5, <2>1, ContinueOps
  <2> QED BY <1>1, <1>5, <2>2, OpKinds
<1>6. CASE j = i /\ DrainStep(i)
  <2> DEFINE h == Head(norm[i])
  <2>1. h \in Envelope
    BY <1>6, DrainFacts DEF DrainStep, TypeOK
  <2>2. o \in Range(cont[i]) \/ o \in {ErrorUp, Push(Head(cont[i]).env), Push(h), StopHook(h), Exit(h)}
    BY <1>6, <2>1, ContinueOps, OpsOK
  <2> QED BY <1>1, <1>6, <2>2, OpKinds
<1> QED BY <1>2, <1>3, <1>4, <1>5, <1>6, StageCases

\* The interruption that a stage drains for is one that it carries.
LEMMA DrainedBarge ==
  ASSUME TypeOK, DrainInv, NEW i \in Stages, DrainStep(i) \/ DrainDone(i)
  PROVE  /\ Head(cont[i]).env \in Barges(i) /\ Head(cont[i]).env \in Envelope
         /\ Head(cont[i]).env.kind = "Interruption" /\ Head(cont[i]).env.gen \in Nat
<1>1. /\ Head(cont[i]) \in Range(cont[i]) /\ Head(cont[i]).op = "drain"
      /\ Head(cont[i]).env \in Envelope
  BY TodoFacts DEF DrainStep, DrainDone
<1>2. Head(cont[i]).env \in Carried(i) /\ Head(cont[i]).env.kind = "Interruption"
  BY <1>1 DEF Carried, DrainInv
<1> QED BY <1>1, <1>2, ChainAssumption DEF Barges, Envelope

\* The turns of the stages never go back.
LEMMA TurnGrows ==
  ASSUME TypeOK, DrainInv, NEW i \in Stages, StageStep(i), NEW j \in Stages
  PROVE  Turn(j) \in Nat /\ Turn(j)' \in Nat /\ Turn(j) <= Turn(j)' /\ (j # i => seen'[j] = seen[j])
<1>1. /\ gens \in Nat /\ gens' \in Nat /\ seen \in [Stages -> Nat] /\ gens <= gens'
  BY TurnSteps
<1>2. CASE seen' = seen
  BY <1>1, <1>2 DEF Turn
<1>3. CASE /\ DrainStep(i) \/ DrainDone(i)
           /\ seen' = [seen EXCEPT ![i] = Latest(@, Head(cont[i]).env.gen)]
  <2>1. Head(cont[i]).env.gen \in Nat
    BY <1>3, DrainedBarge
  <2>2. seen'[j] \in Nat /\ seen[j] <= seen'[j] /\ (j # i => seen'[j] = seen[j])
    BY <1>1, <1>3, <2>1 DEF Latest
  <2> QED BY <1>1, <2>2 DEF Turn
<1> QED BY <1>2, <1>3, TurnSteps

\* An interruption comes from the stage itself, from the VAD or from a stage that pushes it.
LEMMA BargeOrigin ==
  ASSUME TypeOK, NEW i \in Stages, StageStep(i), NEW j \in Stages, NEW f \in Barges(j)'
  PROVE  \/ f \in Barges(j)
         \/ j = Vad /\ gens' = gens + 1 /\ f.gen = gens + 1
         \/ /\ PushStep(i) /\ j = Target(i, f)
            /\ f \in Barges(i) /\ Head(cont[i]).env = f
            /\ Head(cont[i]) \in Range(cont[i]) /\ Head(cont[i]).op = "push"
<1>1. f \in Carried(j)' /\ f.kind = "Interruption"
  BY DEF Barges
<1>2. CASE f \in Carried(j)
  BY <1>1, <1>2 DEF Barges
<1>3. CASE f \in {Env("Error", "up", 0), Env("End", "up", 0)}
  BY <1>1, <1>3 DEF Env
<1>4. CASE \E e \in Carried(i) : Terminal(e.kind) /\ f = [e EXCEPT !.dir = "down"]
  <2>1. PICK e \in Carried(i) : Terminal(e.kind) /\ f = [e EXCEPT !.dir = "down"]
    BY <1>4
  <2>2. f.kind = e.kind
    BY <2>1, CarriedOK DEF Envelope
  <2> QED BY <1>1, <2>1, <2>2 DEF Terminal
<1>5. CASE /\ j = Vad /\ gens' = gens + 1
           /\ f \in {Env("Interruption", "down", gens + 1), Env("Interruption", "up", gens + 1)}
  BY <1>5 DEF Env
<1>6. CASE j = i /\ \E e \in Carried(i) : f = Forwarded(i, e)
  <2>1. PICK e \in Carried(i) : f = Forwarded(i, e)
    BY <1>6
  <2>2. e.kind = "Interruption"
    BY <1>1, <2>1, CarriedOK, ForwardedFacts
  <2>3. f = e
    BY <2>1, <2>2 DEF Forwarded, System
  <2> QED BY <1>2, <1>6, <2>3
<1>7. CASE PushStep(i) /\ f = Head(cont[i]).env /\ j = Target(i, f)
  <2>1. Head(cont[i]) \in Range(cont[i]) /\ Head(cont[i]).op = "push"
    BY <1>7, TodoFacts DEF PushStep
  <2> QED BY <1>1, <1>7, <2>1 DEF Barges, Carried
<1> QED BY <1>1, <1>2, <1>3, <1>4, <1>5, <1>6, <1>7, CarriedStage

\* Behind the VAD stage interruptions go down, from stages that have handled them.
LEMMA BargeStage ==
  ASSUME TypeOK, DrainInv, TurnInv, NEW i \in Stages, StageStep(i)
  PROVE  /\ \A j \in Stages : \A f \in Barges(j)' : f.gen <= gens'
         /\ \A j \in (Vad + 1) .. Last :
              /\ \A f \in Barges(j)' : f.dir = "down" /\ f.gen <= Turn(j - 1)'
              /\ seen'[j] <= Turn(j - 1)'
<1>0. /\ Vad \in Nat /\ Last \in Nat /\ Vad < Last /\ Vad > 0 /\ Vad \notin Bridges /\ Stages = 0 .. Last
  BY ChainAssumption DEF Stages
<1>1. gens \in Nat /\ gens' \in Nat /\ gens <= gens' /\ seen \in [Stages -> Nat]
  BY TurnSteps
<1>2. \A j \in Stages : \A f \in Barges(j) : f.gen \in Nat /\ f.gen <= gens
  <2>1. \A j \in Stages : \A f \in Barges(j) : f \in Envelope
    BY CarriedOK DEF Barges
  <2> QED BY <2>1, ChainAssumption DEF Envelope, TurnInv
<1>3. ASSUME NEW j \in Stages, NEW f \in Barges(j)' PROVE f.gen <= gens'
  BY <1>1, <1>2, BargeOrigin
<1>4. ASSUME NEW j \in (Vad + 1) .. Last
      PROVE  /\ \A f \in Barges(j)' : f.dir = "down" /\ f.gen <= Turn(j - 1)'
             /\ seen'[j] <= Turn(j - 1)'
  <2>0. j \in Stages /\ j - 1 \in Stages /\ j # Vad /\ j \in Int
    BY <1>0
  <2>1. /\ Turn(j - 1) \in Nat /\ Turn(j - 1)' \in Nat /\ Turn(j - 1) <= Turn(j - 1)'
        /\ seen[j] <= Turn(j - 1)
        /\ \A f \in Barges(j) : f.dir = "down" /\ f.gen <= Turn(j - 1)
    BY <1>4, <2>0, TurnGrows DEF TurnInv
  <2>2. ASSUME NEW f \in Barges(j)' PROVE f.dir = "down" /\ f.gen <= Turn(j - 1)'
    <3>1. CASE f \in Barges(j)
      <4>1. f.gen \in Nat /\ f.dir = "down" /\ f.gen <= Turn(j - 1)
        BY <1>2, <2>0, <2>1, <3>1
      <4> QED BY <2>1, <4>1
    <3>2. CASE /\ PushStep(i) /\ j = Target(i, f)
               /\ f \in Barges(i) /\ Head(cont[i]).env = f
               /\ Head(cont[i]) \in Range(cont[i]) /\ Head(cont[i]).op = "push"
      <4>1. i >= Vad
        <5>1. Target(i, f) <= i + 1
          BY <1>0, PrevAssumption DEF Target, Stages, NoStage
        <5> QED BY <1>0, <3>2, <5>1
      <4>2. f.dir = "down"
        <5>1. CASE i = Vad
          <6>1. Prev[i] < i /\ Prev[i] \in Int
            BY PrevAssumption DEF Stages, NoStage
          <6>2. f.dir # "down" => j = Prev[i]
            BY <1>0, <3>2, <5>1 DEF Target
          <6> QED BY <1>0, <5>1, <6>1, <6>2
        <5>2. CASE i > Vad
          <6>1. i \in (Vad + 1) .. Last
            BY <1>0, <5>2
          <6> QED BY <3>2, <6>1 DEF TurnInv
        <5> QED BY <1>0, <4>1, <5>1, <5>2
      <4>3. j = i + 1 /\ j - 1 = i
        BY <1>0, <3>2, <4>2 DEF Target
      <4>4. f.kind = "Interruption" /\ f.gen \in Nat
        BY <1>2, <3>2 DEF Barges
      <4>5. i \in Vad .. Last
        BY <1>0, <4>1
      <4>6. f.gen <= Turn(i)
        BY <3>2, <4>2, <4>4, <4>5 DEF TurnInv
      <4> QED BY <2>1, <4>2, <4>3, <4>4, <4>6
    <3> QED BY <2>0, <3>1, <3>2, BargeOrigin
  <2>3. seen'[j] <= Turn(j - 1)'
    <3>1. CASE seen'[j] = seen[j]
      BY <1>1, <2>0, <2>1, <3>1
    <3>2. CASE /\ j = i /\ (DrainStep(i) \/ DrainDone(i))
               /\ seen' = [seen EXCEPT ![i] = Latest(@, Head(cont[i]).env.gen)]
      <4> DEFINE int == Head(cont[i]).env
      <4>1. int \in Barges(j) /\ int.gen \in Nat
        BY <3>2, DrainedBarge
      <4>2. int.gen <= Turn(j - 1)
        BY <2>1, <4>1
      <4>3. seen'[j] = Latest(seen[j], int.gen)
        BY <1>1, <2>0, <3>2
      <4>4. seen'[j] = seen[j] \/ seen'[j] = int.gen
        BY <4>3 DEF Latest
      <4> QED BY <1>1, <2>0, <2>1, <4>1, <4>2, <4>4
    <3> QED BY <2>0, <3>1, <3>2, TurnSteps, TurnGrows
  <2> QED BY <2>2, <2>3
<1> QED BY <1>3, <1>4

\* What a stage behind the VAD is about to push belongs to its turn.
LEMMA PushedStage ==
  ASSUME TypeOK, FlatAssumption, StaleInv, NEW i \in Vad .. Last, StageStep(i),
         NEW o \in Range(cont'[i]), o.op = "push"
  PROVE  /\ BotText(o.env) => o.env.gen >= Turn(i)'
         /\ o.env.kind = "Interruption" /\ o.env.dir = "down" => o.env.gen <= Turn(i)'
<1> DEFINE e == Received(i)
<1>0. /\ Vad \in Nat /\ Last \in Nat /\ Vad < Last /\ Vad > 0 /\ Vad \notin Bridges /\ Stages = 0 .. Last
      /\ i \in Stages /\ i # 0 /\ i \notin Bridges
  BY ChainAssumption DEF Stages, FlatAssumption
<1>p. /\ ErrorUp.env = Env("Error", "up", 0) /\ Env("Error", "up", 0).kind = "Error"
      /\ Env("End", "up", 0).kind = "End"
      /\ \A f : Push(f).env = f /\ StopHook(f).env = f /\ Exit(f).env = f
  BY DEF ErrorUp, Push, Drain, StopHook, Exit, Env
<1>1. gens \in Nat /\ gens' \in Nat /\ gens <= gens' /\ seen \in [Stages -> Nat]
  BY <1>0, TurnSteps
<1>2. /\ \A f \in Carried(i) : f \in Envelope /\ f.gen \in Nat
  BY <1>0, CarriedOK, ChainAssumption DEF Envelope
<1>3. \A q \in Range(cont[i]) : q.op = "push" =>
         /\ BotText(q.env) => q.env.gen >= Turn(i)
         /\ q.env.kind = "Interruption" /\ q.env.dir = "down" => q.env.gen <= Turn(i)
  BY DEF StaleInv, TurnInv
<1>4. CASE o.env.kind \notin {"Text", "Interruption"}
  BY <1>4 DEF BotText
<1>5. CASE Handles(i)
  <2>1. /\ Ready(i) /\ Receive(i) /\ e \in Envelope /\ Range(cont[i]) = {} /\ seen' = seen
    BY <1>0, <1>5, HandlesFacts
  <2>2. e \in Carried(i) /\ (e.kind = "Text" => e \in Range(norm[i]))
    BY <1>0, <2>1, ReceiveFacts DEF TypeOK, Carried, System
  <2>3. i # Vad /\ BotText(e) => e.gen >= seen[i]
    <3> SUFFICES ASSUME i # Vad, BotText(e) PROVE e.gen >= seen[i]
      OBVIOUS
    <3>1. i \in (Vad + 1) .. Last
      BY <1>0
    <3>2. ~ Leaving(i)
      BY <2>1 DEF Leaving
    <3>3. e \in Range(norm[i])
      BY <2>2 DEF BotText
    <3> QED BY <3>1, <3>2, <3>3 DEF StaleInv, NoStaleText
  <2>4. CASE RecvStart(i)
    <3>1. o \in {Push(e), ErrorUp} /\ e.kind = "Start"
      BY <1>0, <2>4, StartOps DEF RecvStart
    <3> QED BY <1>4, <1>p, <3>1
  <2>5. CASE RecvInterruption(i)
    BY <1>0, <2>5, InterruptionOps, OpKinds
  <2>6. CASE RecvTerminal(i)
    <3>1. o \in {StopHook(e), Push(e), Exit(e)} /\ Terminal(e.kind)
      BY <1>0, <2>1, <2>6, TerminalRecvOps, OpsOK DEF RecvTerminal
    <3> QED BY <1>4, <1>p, <3>1 DEF Terminal
  <2>7. CASE UserProcess(i)
    <3>1. o \in {Push(Forwarded(i, e)), Push(Env("End", "up", 0)), ErrorUp} /\ e.kind # "Interruption"
      BY <1>0, <2>7, UserOps DEF UserProcess, ToProcessFrame
    <3>2. CASE o.env = Forwarded(i, e) /\ e.kind = "Text"
      <4>1. o.env.kind = "Text" /\ o.env.dir = e.dir
        BY <2>1, <3>2, ForwardedFacts
      <4>2. gens' = gens
        BY <2>7 DEF UserProcess
      <4>3. CASE i = Vad /\ e.dir = "down"
        <5>1. o.env.gen = gens
          BY <2>1, <3>2, <4>3 DEF Forwarded, Envelope, System
        <5> QED BY <1>1, <4>1, <4>2, <4>3, <5>1 DEF Turn
      <4>4. CASE i # Vad
        <5>1. o.env = e
          BY <3>2, <4>4 DEF Forwarded
        <5> QED BY <2>1, <2>3, <4>1, <4>4, <5>1 DEF Turn
      <4> QED BY <4>1, <4>3, <4>4 DEF BotText
    <3>3. CASE o.env = Forwarded(i, e) /\ e.kind # "Text"
      <4>1. o.env.kind = e.kind
        BY <2>1, <3>3, ForwardedFacts
      <4> QED BY <1>4, <3>1, <3>3, <4>1
    <3> QED BY <1>4, <1>p, <3>1, <3>2, <3>3
  <2>8. CASE i = Last /\ SinkProcess
    <3>1. o = Push(e) /\ e.kind # "Interruption"
      BY <1>0, <2>8, SinkOps DEF SinkProcess, ToProcessFrame
    <3>2. o.env = e
      BY <1>p, <3>1
    <3>3. i # Vad
      BY <1>0, <2>8
    <3> QED BY <2>1, <2>3, <3>1, <3>2, <3>3 DEF Turn
  <2>9. CASE i = Vad /\ BargeIn
    <3>1. /\ o \in {Push(Env("Interruption", "down", gens + 1)),
                    Push(Env("Interruption", "up", gens + 1)), Push(e)}
          /\ e.kind = "InputAudio" /\ gens' = gens + 1
      BY <1>0, <2>9, BargeOps DEF BargeIn
    <3>2. CASE o = Push(e)
      BY <1>4, <1>p, <3>1, <3>2
    <3>3. CASE o # Push(e)
      <4>1. o.env.kind = "Interruption" /\ o.env.gen = gens + 1
        BY <1>p, <3>1, <3>3 DEF Env
      <4> QED BY <1>1, <2>9, <3>1, <4>1 DEF BotText, Turn
    <3> QED BY <3>2, <3>3
  <2>10. ~ BridgeForward(i) /\ ~ (i = 0 /\ SourceProcess)
    BY <1>0 DEF BridgeForward
  <2> QED BY <1>5, <2>4, <2>5, <2>6, <2>7, <2>8, <2>9, <2>10 DEF Handles
<1>6. CASE PushStep(i) \/ StopStep(i) \/ ExitStep(i)
  <2>1. Range(cont[i]) = {Head(cont[i])} \cup Range(Tail(cont[i])) /\ Range(<<>>) = {}
    BY <1>0, <1>6, TodoFacts, RangeNone DEF PushStep, StopStep, ExitStep
  <2>2. o \in Range(cont[i]) \/ o = ErrorUp
    BY <1>0, <1>6, <2>1, ContinueOps
  <2>3. Turn(i)' = Turn(i)
    BY <1>6 DEF PushStep, StopStep, ExitStep, Turn, hookVars, boundVars
  <2> QED BY <1>3, <1>4, <1>p, <2>2, <2>3
<1>7. CASE DrainStep(i) \/ DrainDone(i)
  <2> DEFINE h == Head(norm[i])
             int == Head(cont[i]).env
  <2>1. int \in Barges(i) /\ int.kind = "Interruption" /\ int.gen \in Nat
    BY <1>0, <1>7, DrainedBarge DEF StaleInv
  <2>2. gens' = gens /\ int.gen <= gens
    BY <1>0, <1>7, <2>1 DEF DrainStep, DrainDone, StaleInv, TurnInv
  <2>3. CASE /\ seen' = [seen EXCEPT ![i] = Latest(@, int.gen)]
             /\ o.env \notin {int} => o.env.kind \notin {"Text", "Interruption"}
    <3>1. CASE o.env = int
      <4>1. seen'[i] = Latest(seen[i], int.gen)
        BY <1>0, <1>1, <2>3
      <4>2. int.gen <= Turn(i)'
        BY <1>0, <1>1, <2>1, <2>2, <4>1 DEF Latest, Turn
      <4> QED BY <2>1, <3>1, <4>2 DEF BotText
    <3> QED BY <1>4, <2>3, <3>1
  <2>4. CASE DrainDone(i)
    <3>1. o \in {Push(int), ErrorUp} /\ seen' = [seen EXCEPT ![i] = Latest(@, int.gen)]
      BY <1>0, <2>4, ContinueOps DEF DrainDone
    <3> QED BY <1>p, <2>3, <3>1
  <2>5. CASE DrainStep(i)
    <3>0. h \in Envelope /\ (Uninterruptible(h.kind) => h.kind \notin {"Text", "Interruption"})
      BY <1>0, <2>5, DrainFacts DEF DrainStep, TypeOK, Uninterruptible
    <3>1. CASE o \in Range(cont[i]) /\ seen' = seen
      BY <1>3, <2>2, <3>1 DEF Turn
    <3>2. CASE o = Push(h) /\ Uninterruptible(h.kind)
      BY <1>4, <1>p, <3>0, <3>2
    <3>3. CASE /\ seen' = [seen EXCEPT ![i] = Latest(@, int.gen)] /\ Uninterruptible(h.kind)
               /\ o \in {Push(int), ErrorUp, StopHook(h), Push(h), Exit(h)}
      BY <1>p, <2>3, <3>0, <3>3
    <3> QED BY <1>0, <2>5, <3>0, <3>1, <3>2, <3>3, ContinueOps, OpsOK
  <2> QED BY <1>7, <2>4, <2>5
<1> QED BY <1>0, <1>5, <1>6, <1>7, StageCases

\* A stage that is leaving goes on leaving until its queues are gone.
LEMMA LeavingStage ==
  ASSUME TypeOK, NoStop, NEW i \in Stages, StageStep(i), NEW j \in Stages, Leaving(j)
  PROVE  Leaving(j)' \/ norm'[j] = <<>>
<1>1. PICK o \in Range(cont[j]) : o.op = "exit"
  BY DEF Leaving
<1>2. CASE j # i
  <2>1. Only(i)
    BY StageCases, HandlesFacts, ContinueOps
  <2> QED BY <1>1, <1>2, <2>1 DEF Only, Leaving
<1>3. CASE j = i /\ Handles(i)
  BY <1>1, <1>3, HandlesFacts
<1>4. CASE j = i /\ ExitStep(i)
  BY <1>4 DEF ExitStep, TypeOK, ChannelsOK
<1>5. CASE j = i /\ DrainDone(i)
  BY <1>5 DEF DrainDone, chanVars
<1>6. CASE j = i /\ (PushStep(i) \/ StopStep(i))
  <2>1. /\ Range(cont[i]) = {Head(cont[i])} \cup Range(Tail(cont[i]))
        /\ Head(cont[i]).op # "exit"
    <3>1. Todo(i, "push") \/ Todo(i, "stop")
      BY <1>6 DEF PushStep, StopStep
    <3>2. CASE Todo(i, "push")
      BY <3>2, TodoFacts
    <3>3. CASE Todo(i, "stop")
      BY <3>3, TodoFacts
    <3> QED BY <3>1, <3>2, <3>3
  <2>2. Range(Tail(cont[i])) \subseteq Range(cont'[i])
    BY <1>6, ContinueOps
  <2> QED BY <1>1, <1>6, <2>1, <2>2 DEF Leaving
<1>7. CASE j = i /\ DrainStep(i)
  <2> DEFINE h == Head(norm[i])
  <2>1. h \in Envelope /\ h.kind # "Stop"
    BY <1>7, DrainFacts DEF DrainStep, TypeOK, NoStop, Carried
  <2>2. Exit(h) \in Range(TerminalOps(h)) /\ Exit(h).op = "exit"
    BY <2>1, OpsOK, OpKinds
  <2>3. o \in Range(cont'[i]) \/ Exit(h) \in Range(cont'[i])
    BY <1>1, <1>7, <2>2, ContinueOps
  <2> QED BY <1>1, <1>7, <2>2, <2>3 DEF Leaving
<1> QED BY <1>2, <1>3, <1>4, <1>5, <1>6, <1>7, StageCases

\* A stage behind the VAD keeps no text of a turn before the one it has been told of.
LEMMA StaleStage ==
  ASSUME TypeOK, FlatAssumption, StaleInv, NEW i \in Stages, StageStep(i)
  PROVE  NoStaleText'
<1>0. /\ Vad \in Nat /\ Last \in Nat /\ Vad < Last /\ Vad > 0 /\ Vad \notin Bridges /\ Stages = 0 .. Last
  BY ChainAssumption DEF Stages
<1>1. NoStop /\ DrainInv /\ TurnInv /\ NoStaleText /\ ChannelsOK
  BY DEF StaleInv, TypeOK
<1> SUFFICES ASSUME NEW j \in (Vad + 1) .. Last, ~ Leaving(j)', NEW e \in Range(norm'[j]), BotText(e)
             PROVE  e.gen >= seen'[j]
  BY DEF NoStaleText
<1>2. j \in Stages /\ j # 0 /\ j # Vad /\ j \in Nat /\ j - 1 \in Vad .. Last /\ j - 1 \in Stages
  BY <1>0
<1>3. seen \in [Stages -> Nat]
  BY TurnSteps
<1>4. norm'[j] # <<>> /\ ~ Leaving(j)
  <2>1. norm'[j] # <<>>
    BY RangeNone
  <2> QED BY <1>1, <1>2, <2>1, LeavingStage
<1>5. \A f \in Range(norm[j]) : BotText(f) => f.gen >= seen[j]
  BY <1>1, <1>4 DEF NoStaleText
<1>6. CASE e \in Range(norm[j]) /\ seen'[j] = seen[j]
  BY <1>5, <1>6
<1>7. CASE PushStep(i)
  <2> DEFINE f == Head(cont[i]).env
  <2>1. f \in Envelope /\ Head(cont[i]) \in Range(cont[i]) /\ Head(cont[i]).op = "push"
    BY <1>7, TodoFacts DEF PushStep
  <2>2. Send(Target(i, f), f) /\ seen' = seen /\ Target(i, f) \in Int
    BY <1>7, TargetInt DEF PushStep, hookVars
  <2>3. /\ j # Target(i, f) => norm'[j] = norm[j]
        /\ Range(norm'[j]) \subseteq Range(norm[j]) \cup {f}
    BY <1>1, <1>2, <2>1, <2>2, SendFacts
  <2>4. CASE e = f /\ j = Target(i, f)
    <3>1. f.dir = "down" /\ BotText(f)
      BY <2>4 DEF BotText
    <3>2. i = j - 1
      BY <1>0, <2>4, <3>1 DEF Target
    <3>3. f.gen >= Turn(i)
      BY <1>1, <1>2, <2>1, <3>1, <3>2 DEF TurnInv
    <3>4. Turn(i) >= seen[j]
      BY <1>1, <3>2 DEF TurnInv
    <3>5. f.gen \in Nat /\ Turn(i) \in Nat /\ seen[j] \in Nat
      BY <1>1, <1>2, <1>3, <2>1, ChainAssumption, TurnGrows DEF Envelope
    <3> QED BY <2>2, <2>4, <3>3, <3>4, <3>5
  <2> QED BY <1>6, <2>2, <2>3, <2>4
<1>8. CASE Handles(i)
  <2>1. Range(norm'[j]) \subseteq Range(norm[j])
    BY <1>1, <1>2, <1>8, HandlesFacts, ReceiveFacts
  <2> QED BY <1>6, <1>8, <2>1, HandlesFacts
<1>9. CASE DrainStep(i)
  <2> DEFINE h == Head(norm[i])
  <2>1. /\ Range(norm'[j]) \subseteq Range(norm[j]) /\ h \in Envelope
        /\ Range(norm[i]) = {h} \cup Range(norm'[i])
    BY <1>1, <1>2, <1>9, DrainFacts DEF DrainStep
  <2>2. CASE Uninterruptible(h.kind) /\ h.dir = "down" /\ Terminal(h.kind) /\ j = i
    <3>1. h.kind # "Stop"
      BY <1>1, <2>1 DEF NoStop, Carried
    <3>2. Exit(h) \in Range(TerminalOps(h)) /\ Exit(h).op = "exit"
      BY <2>1, <3>1, OpsOK, OpKinds
    <3>3. Exit(h) \in Range(cont'[i])
      BY <1>9, <2>2, <3>2, ContinueOps
    <3> QED BY <2>2, <3>2, <3>3 DEF Leaving
  <2>3. CASE seen'[j] = seen[j]
    BY <1>6, <2>1, <2>3
  <2> QED BY <1>1, <1>2, <1>9, <2>2, <2>3, ContinueOps, TurnGrows
<1>10. CASE DrainDone(i)
  <2>1. norm' = norm /\ norm[i] = <<>>
    BY <1>10 DEF DrainDone, chanVars
  <2>2. j # i
    BY <1>4, <2>1
  <2> QED BY <1>1, <1>2, <1>6, <2>1, <2>2, TurnGrows
<1>11. CASE StopStep(i)
  BY <1>6, <1>11 DEF StopStep, chanVars
<1>12. CASE ExitStep(i)
  <2>1. norm' = [norm EXCEPT ![i] = <<>>] /\ seen' = seen
    BY <1>12 DEF ExitStep, hookVars
  <2>2. j # i
    BY <1>1, <1>2, <1>4, <2>1 DEF ChannelsOK
  <2> QED BY <1>1, <1>2, <1>6, <2>1, <2>2 DEF ChannelsOK
<1> QED BY <1>7, <1>8, <1>9, <1>10, <1>11, <1>12, StageCases

\* A step of a stage keeps all of the invariant.
LEMMA StaleInvStage ==
  ASSUME TypeOK, FlatAssumption, StaleInv, NEW i \in Stages, StageStep(i)
  PROVE  StaleInv'
<1>1. NoStop /\ DrainInv /\ TurnInv
  BY DEF StaleInv
<1>2. NoStop' /\ DrainInv' /\ NoStaleText'
  BY <1>1, NoStopStage, DrainStage, StaleStage
<1>3. ASSUME NEW j \in Vad .. Last, NEW o \in Range(cont'[j]), o.op = "push"
      PROVE  /\ BotText(o.env) => o.env.gen >= Turn(j)'
             /\ o.env.kind = "Interruption" /\ o.env.dir = "down" => o.env.gen <= Turn(j)'
  <2>1. CASE j = i
    BY <1>3, <2>1, PushedStage
  <2>2. CASE j # i
    <3>0. j \in Stages
      BY ChainAssumption DEF Stages
    <3>1. Only(i)
      BY StageCases, HandlesFacts, ContinueOps
    <3>2. o \in Range(cont[j])
      BY <1>3, <2>2, <3>0, <3>1 DEF Only
    <3>3. /\ BotText(o.env) => o.env.gen >= Turn(j)
          /\ o.env.kind = "Interruption" /\ o.env.dir = "down" => o.env.gen <= Turn(j)
      BY <1>1, <1>3, <3>2 DEF TurnInv
    <3>4. Turn(j) \in Nat /\ Turn(j)' \in Nat /\ Turn(j) <= Turn(j)'
      BY <1>1, <3>0, TurnGrows
    <3>5. o.env \in Envelope /\ o.env.gen \in Nat
      BY <3>0, <3>2, CarriedOK, ChainAssumption DEF Carried, Envelope
    <3>6. Turn(j)' = Turn(j) \/ (j = Vad /\ i = Vad)
      BY <1>1, <2>2, <3>0, TurnSteps, TurnGrows DEF Turn
    <3> QED BY <2>2, <3>3, <3>4, <3>5, <3>6
  <2> QED BY <2>1, <2>2
<1>4. TurnInv'
  BY <1>1, <1>3, BargeStage DEF TurnInv
<1> QED BY <1>2, <1>4 DEF StaleInv

\* Barge-in: a stage that has handled an interruption has nothing of the turn before it left
\* to say and gets nothing more of it, in every chain in which nothing goes upstream through a
\* bridge, no bridge stands behind the VAD stage and Stop is not used.
THEOREM BargeInSilences ==
  ASSUME FlatAssumption
  PROVE  Spec => []NoStaleText
<1>1. Init => StaleInv
  <2> SUFFICES ASSUME Init PROVE StaleInv
    OBVIOUS
  <2>1. NoStop
    BY NoStopInit
  <2>2. Range(<<>>) = {} /\ Range(<<Env("Start", "down", 0)>>) = {Env("Start", "down", 0)}
    BY RangeNone, RangeOne
  <2>3. \A i \in Stages : cont[i] = <<>> /\ norm[i] = <<>> /\ seen[i] = 0 /\ gens = 0
    BY DEF Init
  <2>4. \A i \in Stages : \A e \in Carried(i) : e = Env("Start", "down", 0)
    BY <2>2, <2>3 DEF Carried, Init
  <2>5. \A i \in Stages : Barges(i) = {}
    BY <2>4 DEF Barges, Env
  <2>6. \A i \in Vad .. Last : i \in Stages
    BY ChainAssumption DEF Stages
  <2>7. \A i \in (Vad + 1) .. Last : i \in Vad .. Last /\ i - 1 \in Vad .. Last
    BY ChainAssumption
  <2>8. \A i \in Stages : Turn(i) = 0
    BY <2>3 DEF Turn
  <2>9. TurnInv
    BY <2>2, <2>3, <2>5, <2>6, <2>7, <2>8 DEF TurnInv
  <2>10. DrainInv /\ NoStaleText
    BY <2>2, <2>3, <2>6, <2>7 DEF DrainInv, NoStaleText
  <2> QED BY <2>1, <2>9, <2>10 DEF StaleInv
<1>2. TypeOK /\ StaleInv /\ [Next]_vars => StaleInv'
  <2> SUFFICES ASSUME TypeOK, StaleInv, [Next]_vars PROVE StaleInv'
    OBVIOUS
  <2>1. ASSUME NEW i \in Stages, StageStep(i) PROVE StaleInv'
    BY <2>1, StaleInvStage
  <2>2. ASSUME NEW kind \in Injected, Inject(kind) PROVE StaleInv'
    <3>1. cont' = cont /\ seen' = seen /\ gens' = gens
      BY <2>2 DEF Inject, hookVars, boundVars
    <3>2. \A j \in Stages : Barges(j)' \subseteq Barges(j)
      <4>1. Env(kind, "down", 0).kind # "Interruption"
        BY ChainAssumption DEF Env
      <4> QED BY <2>2, <4>1, CarriedInject DEF Barges
    <3>3. \A i \in Vad .. Last : i \in Stages /\ i # 0
      BY ChainAssumption DEF Stages
    <3>4. \A i \in (Vad + 1) .. Last : i \in Vad .. Last
      BY ChainAssumption
    <3>5. \A j \in Stages : j # 0 => norm'[j] = norm[j]
      <4>1. Send(0, Env(kind, "down", 0)) /\ Env(kind, "down", 0) \in Envelope /\ ChannelsOK /\ 0 \in Int
        BY <2>2, ChainAssumption, EnvOK DEF Inject, TypeOK
      <4> QED BY <4>1, SendFacts
    <3>6. NoStop' BY <2>2, NoStopInject DEF FlatAssumption, StaleInv
    <3>7. DrainInv' BY <3>1 DEF DrainInv, StaleInv
    <3>8. TurnInv' BY <3>1, <3>2, <3>3, <3>4 DEF TurnInv, StaleInv, Turn
    <3>9. NoStaleText' BY <3>1, <3>3, <3>4, <3>5 DEF NoStaleText, StaleInv, Leaving
    <3> QED BY <3>6, <3>7, <3>8, <3>9 DEF StaleInv
  <2>3. CASE UNCHANGED vars
    <3>1. UNCHANGED <<sys, norm, cont, seen, gens>>
      BY <2>3 DEF vars, chainVars
    <3> QED BY <3>1 DEF StaleInv, NoStop, DrainInv, TurnInv, NoStaleText, Carried, Barges, Turn, Leaving
  <2> QED BY <2>1, <2>2, <2>3 DEF Next
<1>3. StaleInv => NoStaleText
  BY DEF StaleInv
<1> QED BY <1>1, <1>2, <1>3, TypeCorrect, PTL DEF Spec
=============================================================================
