--------------------------- MODULE ProcessorChain ---------------------------
(***************************************************************************)
(* The processor runtime of flowcat-core: the two channels in front of     *)
(* every processor task, the loop run_processor that serves them, the      *)
(* Source and the Sink that wrap every pipeline, and the bridge task that  *)
(* link_chain puts in front of a nested composite.                         *)
(*                                                                         *)
(* A stage is one tokio task. Between two await points a task is in the    *)
(* middle of a handler: what it still has to do is cont[i], a sequence of  *)
(* operations (push a frame, go on draining, run the stop hook, leave the  *)
(* loop), so that a push that awaits a full channel, and a drain that      *)
(* interleaves with its neighbours, are steps of their own.                *)
(***************************************************************************)
EXTENDS Integers, Sequences, Functions

CONSTANTS
  Last,        \* the Sink; stage 0 is the Source, the pipeline head
  Bridges,     \* the stages that are bridge tasks of a nested composite
  Prev,        \* upstream neighbour of a stage, as link_chain wires it
  Cap,         \* NORMAL_CHAN_CAP
  Vad,         \* the stage that broadcasts Interruption
  Consumers,   \* the user's stages that may keep a frame instead of forwarding it
  Injected,    \* kinds of the frames that are put in at the head
  MaxInject,   \* bound: frames put in at the head
  MaxGen,      \* bound: interruptions broadcast
  MaxRequests, \* bound: upstream End requests of the user's processors
  MaxErrors    \* bound: hooks or process_frame calls that return Err

Stages == 0 .. Last
NoStage == -1

System == {"Start", "Interruption", "Cancel", "Error", "InputAudio"}
Control == {"End", "Stop", "Heartbeat"}
Data == {"Text", "FunctionCallResult"}
Kinds == System \cup Control \cup Data

ASSUME ChainAssumption ==
  /\ Last \in Nat \ {0}
  /\ Bridges \subseteq 1 .. (Last - 1)
  /\ Cap \in Nat \ {0}
  /\ Vad \in (1 .. (Last - 1)) \ Bridges
  /\ Consumers \subseteq 1 .. (Last - 1)
  /\ Injected \subseteq Kinds \ {"Start", "Interruption"}
  /\ MaxInject \in Nat /\ MaxGen \in Nat
  /\ MaxRequests \in Nat /\ MaxErrors \in Nat

\* The upstream neighbour is an earlier stage, or none for the Source.
ASSUME PrevAssumption ==
  /\ Prev \in [Stages -> Stages \cup {NoStage}]
  /\ \A i \in Stages : Prev[i] < i

Uninterruptible(kind) == kind \in {"End", "Stop", "FunctionCallResult"}
Terminal(kind) == kind \in {"End", "Stop", "Cancel"}

Envelope == [kind : Kinds, dir : {"down", "up"}, gen : 0 .. MaxGen]
Op == [op : {"push", "drain", "stop", "exit"}, env : Envelope]

VARIABLES
  sys,       \* sys[i]: the unbounded system channel of stage i
  norm,      \* norm[i]: its bounded normal channel
  cont,      \* cont[i]: what its task still has to do before it receives again
  live,      \* live[i]: its loop has not been left
  started,   \* started[i]: its start() hook ran
  stops,     \* stops[i]: how often its stop() hook ran
  seen,      \* seen[i]: the latest interruption whose on_interruption() ran
  gens,      \* interruptions broadcast so far
  tap,       \* what the Sink has shown to the PipelineTask and is not read yet
  injects, requests, errors  \* how much of each bound is used up

chanVars == <<sys, norm>>
hookVars == <<started, stops, seen>>
boundVars == <<gens, requests, errors>>
chainVars == <<sys, norm, cont, live, started, stops, seen, gens, tap,
               requests, errors>>
vars == <<chainVars, injects>>

-----------------------------------------------------------------------------
(* Frames, operations and channels.                                        *)

Env(kind, dir, gen) == [kind |-> kind, dir |-> dir, gen |-> gen]
Push(e) == [op |-> "push", env |-> e]
Drain(e) == [op |-> "drain", env |-> e]
StopHook(e) == [op |-> "stop", env |-> e]
Exit(e) == [op |-> "exit", env |-> e]
ErrorUp == Push(Env("Error", "up", 0))

\* Where link.push sends a frame: Last + 1 and NoStage are no stage, the frame
\* falls off the end of the chain. A bridge has one destination, the head of
\* its composite, whatever the direction of the frame.
Target(i, e) == IF e.dir = "down" \/ i \in Bridges THEN i + 1 ELSE Prev[i]

Open(j) == j \in Stages /\ live[j]

\* Mutant of Send: the normal channel has no capacity.
SendUnbounded(j, e) ==
  \/ /\ ~ Open(j)
     /\ UNCHANGED chanVars
  \/ /\ Open(j) /\ e.kind \in System
     /\ sys' = [sys EXCEPT ![j] = Append(@, e)]
     /\ UNCHANGED norm
  \/ /\ Open(j) /\ e.kind \notin System
     /\ norm' = [norm EXCEPT ![j] = Append(@, e)]
     /\ UNCHANGED sys

\* ProcessorTx::send to stage j. A closed channel swallows the frame; only the
\* normal channel makes the sender wait.
Send(j, e) ==
  \/ /\ ~ Open(j)
     /\ UNCHANGED chanVars
  \/ /\ Open(j) /\ e.kind \in System
     /\ sys' = [sys EXCEPT ![j] = Append(@, e)]
     /\ UNCHANGED norm
  \/ /\ Open(j) /\ e.kind \notin System
     /\ Len(norm[j]) < Cap
     /\ norm' = [norm EXCEPT ![j] = Append(@, e)]
     /\ UNCHANGED sys

\* The biased select: the system channel is served first.
Ready(i) == live[i] /\ cont[i] = <<>> /\ (sys[i] # <<>> \/ norm[i] # <<>>)
Received(i) == IF sys[i] # <<>> THEN Head(sys[i]) ELSE Head(norm[i])
Receive(i) ==
  IF sys[i] # <<>>
  THEN sys' = [sys EXCEPT ![i] = Tail(@)] /\ UNCHANGED norm
  ELSE norm' = [norm EXCEPT ![i] = Tail(@)] /\ UNCHANGED sys

Continue(i, ops) == cont' = [cont EXCEPT ![i] = ops]

\* A hook of a user's processor may return Err, which becomes an upstream Error.
MayFail(i, ops) ==
  \/ Continue(i, ops) /\ UNCHANGED errors
  \/ /\ i \in 1 .. (Last - 1)
     /\ errors < MaxErrors /\ errors' = errors + 1
     /\ Continue(i, <<ErrorUp>> \o ops)

\* stop(), then forward the terminal frame, then leave the loop unless it is Stop.
TerminalOps(e) ==
  IF e.kind = "Stop" THEN <<StopHook(e), Push(e)>>
                     ELSE <<StopHook(e), Push(e), Exit(e)>>

\* Only the Sink shows frames to the task; the terminal one is rebuilt from the
\* reason that stop() is given.
Tap(i, kind) == tap' = IF i = Last THEN Append(tap, kind) ELSE tap

-----------------------------------------------------------------------------
(* run_processor: one iteration of the loop, by the kind of the frame.     *)

RecvStart(i) ==
  /\ Ready(i) /\ i \notin Bridges
  /\ Received(i).kind = "Start"
  /\ Receive(i)
  /\ started' = [started EXCEPT ![i] = TRUE]
  /\ Tap(i, "Start")
  /\ MayFail(i, <<Push(Received(i))>>)
  /\ UNCHANGED <<live, stops, seen, gens, requests>>

\* Mutant of RecvInterruption: the hook runs on a queue that was not drained.
RecvInterruptionUndrained(i) ==
  /\ Ready(i) /\ i \notin Bridges
  /\ Received(i).kind = "Interruption"
  /\ Receive(i)
  /\ Continue(i, <<Push(Received(i))>>)
  /\ seen' = [seen EXCEPT ![i] = IF @ < Received(i).gen THEN Received(i).gen ELSE @]
  /\ UNCHANGED <<live, started, stops, boundVars, tap>>

RecvInterruption(i) ==
  /\ Ready(i) /\ i \notin Bridges
  /\ Received(i).kind = "Interruption"
  /\ Receive(i)
  /\ Continue(i, <<Drain(Received(i))>>)
  /\ UNCHANGED <<live, hookVars, boundVars, tap>>

RecvTerminal(i) ==
  /\ Ready(i) /\ i \notin Bridges
  /\ Terminal(Received(i).kind) /\ Received(i).dir = "down"
  /\ Receive(i)
  /\ Continue(i, TerminalOps(Received(i)))
  /\ UNCHANGED <<live, hookVars, boundVars, tap>>

\* Everything else goes to process_frame.
ToProcessFrame(i) ==
  /\ Ready(i) /\ i \notin Bridges
  /\ Received(i).kind \notin {"Start", "Interruption"}
  /\ ~ (Terminal(Received(i).kind) /\ Received(i).dir = "down")

\* The Source turns an upstream request to end into the downstream frame.
SourceProcess ==
  /\ ToProcessFrame(0)
  /\ Receive(0)
  /\ LET e == Received(0) IN
       Continue(0, <<Push(IF Terminal(e.kind) THEN [e EXCEPT !.dir = "down"]
                                              ELSE e)>>)
  /\ UNCHANGED <<live, hookVars, boundVars, tap>>

SinkProcess ==
  /\ ToProcessFrame(Last)
  /\ Receive(Last)
  /\ LET e == Received(Last) IN
       /\ Continue(Last, <<Push(e)>>)
       /\ IF e.dir = "down" THEN Tap(Last, e.kind) ELSE UNCHANGED tap
  /\ UNCHANGED <<live, hookVars, boundVars>>

\* What a user's processor forwards. Past the interrupting stage a frame belongs
\* to the turn in which that stage let it through.
Forwarded(i, e) ==
  IF i = Vad /\ e.dir = "down" /\ e.kind \notin System
  THEN [e EXCEPT !.gen = gens] ELSE e

\* A user's processor forwards the frame (the default), keeps it, asks for the
\* end of the task as well, or fails. A request to end is always forwarded.
UserProcess(i) ==
  /\ ToProcessFrame(i) /\ i \in 1 .. (Last - 1)
  /\ Receive(i)
  /\ LET fwd == Push(Forwarded(i, Received(i))) IN
       \/ Continue(i, <<fwd>>) /\ UNCHANGED <<requests, errors>>
       \/ /\ i \in Consumers /\ ~ Terminal(Received(i).kind)
          /\ Continue(i, <<>>) /\ UNCHANGED <<requests, errors>>
       \/ /\ requests < MaxRequests /\ requests' = requests + 1
          /\ Continue(i, <<fwd, Push(Env("End", "up", 0))>>)
          /\ UNCHANGED errors
       \/ /\ ~ Terminal(Received(i).kind)
          /\ errors < MaxErrors /\ errors' = errors + 1
          /\ Continue(i, <<ErrorUp>>)
          /\ UNCHANGED requests
  /\ UNCHANGED <<live, hookVars, gens, tap>>

\* The VAD stage hears the user over the bot: broadcast, then the audio goes on.
BargeIn ==
  /\ ToProcessFrame(Vad) /\ Vad \notin Bridges
  /\ Received(Vad).kind = "InputAudio"
  /\ gens < MaxGen /\ gens' = gens + 1
  /\ Receive(Vad)
  /\ Continue(Vad, <<Push(Env("Interruption", "down", gens + 1)),
                     Push(Env("Interruption", "up", gens + 1)),
                     Push(Received(Vad))>>)
  /\ UNCHANGED <<live, hookVars, requests, errors, tap>>

\* Mutant of BridgeForward: the loop goes on after a terminal frame.
BridgeForwardForever(i) ==
  /\ Ready(i) /\ i \in Bridges
  /\ Receive(i)
  /\ Continue(i, <<Push(Received(i))>>)
  /\ UNCHANGED <<live, hookVars, boundVars, tap>>

\* bridge(): forwards whatever it receives and leaves on a terminal frame.
BridgeForward(i) ==
  /\ Ready(i) /\ i \in Bridges
  /\ Receive(i)
  /\ LET e == Received(i) IN
       Continue(i, IF Terminal(e.kind) THEN <<Push(e), Exit(e)>>
                                       ELSE <<Push(e)>>)
  /\ UNCHANGED <<live, hookVars, boundVars, tap>>

-----------------------------------------------------------------------------
(* The rest of a handler, one await point at a time.                       *)

Latest(g, h) == IF g < h THEN h ELSE g
Todo(i, op) == live[i] /\ cont[i] # <<>> /\ Head(cont[i]).op = op

PushStep(i) ==
  /\ Todo(i, "push")
  /\ Send(Target(i, Head(cont[i]).env), Head(cont[i]).env)
  /\ Continue(i, Tail(cont[i]))
  /\ UNCHANGED <<live, hookVars, boundVars, tap>>

\* Mutant of DrainStep: a kept terminal frame is forwarded like any other.
DrainStepBlind(i) ==
  /\ Todo(i, "drain")
  /\ norm[i] # <<>>
  /\ norm' = [norm EXCEPT ![i] = Tail(@)]
  /\ LET e == Head(norm[i]) IN
       IF Uninterruptible(e.kind) THEN Continue(i, <<Push(e)>> \o cont[i])
                                  ELSE UNCHANGED cont
  /\ UNCHANGED <<sys, live, hookVars, boundVars, tap>>

\* Mutant of DrainStep: a kept terminal frame ends the task without stop().
DrainStepUnstopped(i) ==
  /\ Todo(i, "drain")
  /\ norm[i] # <<>>
  /\ norm' = [norm EXCEPT ![i] = Tail(@)]
  /\ LET e == Head(norm[i]) IN
       IF ~ Uninterruptible(e.kind) THEN UNCHANGED cont
       ELSE IF e.dir = "down" /\ Terminal(e.kind)
            THEN Continue(i, <<Push(Head(cont[i]).env), Push(e), Exit(e)>>)
            ELSE Continue(i, <<Push(e)>> \o cont[i])
  /\ UNCHANGED <<sys, live, hookVars, boundVars, tap>>

\* drain_on_interruption: one try_recv of the normal channel.
DrainStep(i) ==
  /\ Todo(i, "drain")
  /\ norm[i] # <<>>
  /\ norm' = [norm EXCEPT ![i] = Tail(@)]
  /\ LET e == Head(norm[i])
         int == Head(cont[i]).env IN
       IF ~ Uninterruptible(e.kind)
       THEN UNCHANGED <<cont, seen, errors>>
       ELSE IF e.dir = "down" /\ Terminal(e.kind)
            THEN /\ seen' = [seen EXCEPT ![i] = Latest(@, int.gen)]
                 /\ MayFail(i, <<Push(int)>> \o TerminalOps(e))
            ELSE /\ Continue(i, <<Push(e)>> \o cont[i])
                 /\ UNCHANGED <<seen, errors>>
  /\ UNCHANGED <<sys, live, started, stops, gens, requests, tap>>

\* The normal channel is empty: on_interruption() runs, then the frame goes on.
DrainDone(i) ==
  /\ Todo(i, "drain")
  /\ norm[i] = <<>>
  /\ seen' = [seen EXCEPT ![i] = Latest(@, Head(cont[i]).env.gen)]
  /\ MayFail(i, <<Push(Head(cont[i]).env)>>)
  /\ UNCHANGED <<chanVars, live, started, stops, gens, requests, tap>>

StopStep(i) ==
  /\ Todo(i, "stop")
  /\ stops' = [stops EXCEPT ![i] = @ + 1]
  /\ Tap(i, Head(cont[i]).env.kind)
  /\ MayFail(i, Tail(cont[i]))
  /\ UNCHANGED <<chanVars, live, started, seen, gens, requests>>

\* The task returns and its receivers are dropped.
ExitStep(i) ==
  /\ Todo(i, "exit")
  /\ live' = [live EXCEPT ![i] = FALSE]
  /\ sys' = [sys EXCEPT ![i] = <<>>]
  /\ norm' = [norm EXCEPT ![i] = <<>>]
  /\ Continue(i, <<>>)
  /\ UNCHANGED <<hookVars, boundVars, tap>>

StageStep(i) ==
  \/ RecvStart(i) \/ RecvInterruption(i) \/ RecvTerminal(i)
  \/ UserProcess(i) \/ BridgeForward(i)
  \/ PushStep(i) \/ DrainStep(i) \/ DrainDone(i) \/ StopStep(i) \/ ExitStep(i)
  \/ i = 0 /\ SourceProcess
  \/ i = Last /\ SinkProcess
  \/ i = Vad /\ BargeIn

-----------------------------------------------------------------------------
(* The specification: the stages under any frames sent to the head.        *)

Init ==
  /\ sys = [i \in Stages |-> IF i = 0 THEN <<Env("Start", "down", 0)>> ELSE <<>>]
  /\ norm = [i \in Stages |-> <<>>]
  /\ cont = [i \in Stages |-> <<>>]
  /\ live = [i \in Stages |-> TRUE]
  /\ started = [i \in Stages |-> FALSE]
  /\ stops = [i \in Stages |-> 0]
  /\ seen = [i \in Stages |-> 0]
  /\ gens = 0 /\ tap = <<>>
  /\ injects = 0 /\ requests = 0 /\ errors = 0

\* The PipelineTask sends a frame to the head. It waits for Start to reach the
\* Sink first, unless its cancel token fires.
Inject(kind) ==
  /\ injects < MaxInject /\ injects' = injects + 1
  /\ started[Last] \/ kind = "Cancel"
  /\ Send(0, Env(kind, "down", 0))
  /\ UNCHANGED <<cont, live, hookVars, boundVars, tap>>

Next ==
  \/ \E i \in Stages : StageStep(i) /\ UNCHANGED injects
  \/ \E kind \in Injected : Inject(kind)

\* Every stage is a task of its own that the scheduler keeps running.
Fairness == \A i \in Stages : WF_vars(StageStep(i) /\ UNCHANGED injects)

Spec == Init /\ [][Next]_vars
FairSpec == Spec /\ Fairness

-----------------------------------------------------------------------------
(* Properties.                                                             *)

\* A channel holds envelopes of its class, the normal one at most Cap of them.
ChannelsOK ==
  /\ sys \in [Stages -> Seq(Envelope)]
  /\ norm \in [Stages -> Seq(Envelope)]
  /\ \A i \in Stages :
       /\ Len(norm[i]) <= Cap
       /\ \A e \in Range(sys[i]) : e.kind \in System
       /\ \A e \in Range(norm[i]) : e.kind \notin System

\* The channels are well formed and every counter stays within its bound.
TypeOK ==
  /\ ChannelsOK
  /\ cont \in [Stages -> Seq(Op)]
  /\ live \in [Stages -> BOOLEAN]
  /\ started \in [Stages -> BOOLEAN]
  /\ stops \in [Stages -> Nat]
  /\ seen \in [Stages -> 0 .. MaxGen]
  /\ gens \in 0 .. MaxGen
  /\ tap \in Seq(Kinds)
  /\ injects \in 0 .. MaxInject
  /\ requests \in 0 .. MaxRequests
  /\ errors \in 0 .. MaxErrors

Leaving(i) == \E o \in Range(cont[i]) : o.op = "exit"
IsEnd(e) == e.dir = "down" /\ e.kind \in {"End", "Cancel"}
Reached(i) == \/ ~ live[i] \/ Leaving(i)
              \/ \E e \in Range(sys[i]) \cup Range(norm[i]) : IsEnd(e)
Shown(kinds) == \E kind \in Range(tap) : kind \in kinds
BotText(e) == e.dir = "down" /\ e.kind = "Text"

\* Barge-in: once a stage has handled an interruption, no interruptible frame of
\* an earlier turn is left in its queue or can still arrive there, unless the
\* stage is already on its way out (runtime.rs, the Interruption arm).
NoStaleText ==
  \A i \in (Vad + 1) .. Last :
    Leaving(i) \/ \A e \in Range(norm[i]) : BotText(e) => e.gen >= seen[i]

\* The end of the task is never lost between two stages, whatever interruption,
\* full channel or second terminal frame it meets: when a stage has returned,
\* the next one has returned, is returning or has the terminal frame in a queue,
\* and when the Sink has returned the task has been shown it.
TerminalNotLost ==
  /\ \A i \in 0 .. (Last - 1) : ~ live[i] => Reached(i + 1)
  /\ ~ live[Last] => Shown({"End", "Cancel"})

\* stop() runs exactly once in a processor that has returned, although the
\* terminal frame may come in through two arms of the loop.
StopOnce == \A i \in Stages \ Bridges : ~ live[i] => stops[i] = 1

\* No processor is given a downstream frame before the start() hook of every
\* processor ran, the ones behind it included: the task waits for Start to reach
\* the Sink before it sends anything else.
StartFirst ==
  \A i \in Stages : ToProcessFrame(i) /\ Received(i).dir = "down"
                      => \A j \in Stages \ Bridges : started[j]

\* The hooks of a processor run in order and once, whatever the frames do (run_processor).
HooksInOrder == StopOnce /\ StartFirst

\* An End or Cancel that was sent to the head brings every task to its end.
EndStopsAll ==
  (\E e \in Range(sys[0]) \cup Range(norm[0]) : IsEnd(e))
    ~> \A i \in Stages : ~ live[i]

\* The same whatever comes in between (runtime.rs, the comment on upstream End).
RequestEndsTask == (requests > 0) ~> Shown({"End", "Cancel"})

-----------------------------------------------------------------------------
(* The inductive invariants behind NoStaleText and TerminalNotLost, for a  *)
(* task whose composites do not stand in the way (see the README).         *)

\* No frame of kind Stop and no frame that goes upstream through a bridge.
FlatAssumption ==
  /\ "Stop" \notin Injected
  /\ \A i \in 1 .. (Last - 1) : Prev[i] \notin Bridges
  /\ \A i \in Bridges : i < Vad

Carried(i) == Range(sys[i]) \cup Range(norm[i]) \cup {o.env : o \in Range(cont[i])}
NoStop == \A i \in Stages : \A e \in Carried(i) : e.kind # "Stop"

\* The turn a stage is in: what it pushes from now on belongs to it.
Turn(i) == IF i = Vad THEN gens ELSE seen[i]
Barges(i) == {e \in Carried(i) : e.kind = "Interruption"}

\* A drain is on behalf of an interruption.
DrainInv ==
  \A i \in Stages : \A o \in Range(cont[i]) : o.op = "drain" => o.env.kind = "Interruption"

TurnInv ==
  \* an interruption belongs to a turn that has begun
  /\ \A i \in Stages : \A e \in Barges(i) : e.gen <= gens
  \* behind the VAD stage interruptions go downstream, and arrive from a stage
  \* that has handled them
  /\ \A i \in (Vad + 1) .. Last :
       /\ \A e \in Barges(i) : e.dir = "down" /\ e.gen <= Turn(i - 1)
       /\ seen[i] <= Turn(i - 1)
  \* what is still to be pushed is of the sender's turn
  /\ \A i \in Vad .. Last : \A o \in Range(cont[i]) :
       o.op = "push" =>
         /\ BotText(o.env) => o.env.gen >= Turn(i)
         /\ o.env.kind = "Interruption" /\ o.env.dir = "down" => o.env.gen <= Turn(i)

StaleInv == NoStop /\ DrainInv /\ TurnInv /\ NoStaleText

\* A list of operations ends with leaving the loop, if it holds that at all, and
\* a drain is followed by nothing of its stage's end.
ExitLast(ops) == \A k \in 1 .. Len(ops) : ops[k].op = "exit" => k = Len(ops)
OpsInv ==
  \A i \in Stages :
    /\ ExitLast(cont[i])
    /\ (\E o \in Range(cont[i]) : o.op = "drain")
         => \A o \in Range(cont[i]) : o.op \in {"push", "drain"}
    /\ i \in Bridges => \A o \in Range(cont[i]) : o.op \in {"push", "exit"}

\* Nothing goes upstream through a bridge or out of the Sink.
DownInv == \A i \in Bridges \cup {Last} : \A e \in Carried(i) : e.dir = "down"

\* A stage that is leaving still has the terminal frame to push, or has pushed it;
\* the Sink still has it to show, or has shown it.
LeaveInv ==
  /\ \A i \in 0 .. (Last - 1) : Leaving(i) =>
       Reached(i + 1) \/ \E o \in Range(cont[i]) : o.op = "push" /\ IsEnd(o.env)
  /\ Leaving(Last) =>
       \/ Shown({"End", "Cancel"})
       \/ \E o \in Range(cont[Last]) : o.op = "stop" /\ o.env.kind \in {"End", "Cancel"}

EndInv == NoStop /\ OpsInv /\ DownInv /\ LeaveInv /\ TerminalNotLost
-----------------------------------------------------------------------------
(* The inductive invariants behind HooksInOrder.                           *)

\* The stop() hook of a processor is in its list once, together with the exit, or has run.
OneStop(ops) ==
  \A k, l \in 1 .. Len(ops) : ops[k].op = "stop" /\ ops[l].op = "stop" => k = l
Stopping(i) == \E o \in Range(cont[i]) : o.op = "stop"
StopInv ==
  \A i \in Stages \ Bridges :
    /\ OneStop(cont[i])
    /\ live[i] /\ ~ Leaving(i) => stops[i] = 0 /\ ~ Stopping(i)
    /\ live[i] /\ Leaving(i) => stops[i] = IF Stopping(i) THEN 0 ELSE 1
    /\ ~ live[i] => stops[i] = 1

\* Start goes from stage to stage and leaves started processors behind; until the last
\* one has started, nothing else goes downstream but what the runtime itself handles.
StartInv ==
  /\ \A i \in Stages : \A e \in Carried(i) :
       e.kind = "Start" => e.dir = "down" /\ \A j \in Stages \ Bridges : j < i => started[j]
  /\ \A i \in Stages \ Bridges : \A o \in Range(cont[i]) : o.env.kind = "Start" => started[i]
  /\ \A i \in Stages \ Bridges : started[i] => \A j \in Stages \ Bridges : j < i => started[j]
  /\ (\A j \in Stages \ Bridges : started[j]) \/
       \A i \in Stages : \A e \in Carried(i) :
         e.dir = "down" => e.kind \in {"Start", "Interruption", "End", "Stop", "Cancel"}
=============================================================================
