---------------------------- MODULE PipelineTask ----------------------------
(***************************************************************************)
(* PipelineTask::run over the stages of ProcessorChain: the Start          *)
(* handshake, the pump that moves queued frames to the head and watches    *)
(* the Sink's tap, the idle watcher, the heartbeat, the cancel token of    *)
(* the runner, and the bounded join at the end. The pump is one task: while*)
(* it waits for room in the head's normal channel it looks at nothing else.*)
(***************************************************************************)
EXTENDS ProcessorChain, FiniteSets

CONSTANTS
  Queued,        \* kinds of the frames that embedders queue
  MaxQueued,     \* bound: frames queued by embedders
  Signals,       \* whether the runner's signal handler may fire the cancel token
  IdleWatch,     \* whether the idle watcher runs (idle_timeout is set)
  Heartbeats,    \* enable_heartbeats
  Fatal          \* whether processors report their errors as fatal

ASSUME TaskAssumption ==
  /\ Queued \subseteq Kinds \ {"Start", "Interruption"}
  /\ MaxQueued \in Nat
  /\ Signals \in BOOLEAN /\ IdleWatch \in BOOLEAN
  /\ Heartbeats \in BOOLEAN /\ Fatal \in BOOLEAN
  \* what run() sends to the head is among the frames that the chain is specified for
  /\ Queued \cup {"Cancel", "Heartbeat"} \subseteq Injected

VARIABLES
  phase,     \* where run() is
  queue,     \* the unbounded head-injection queue
  sending,   \* the frame the pump is putting into the head
  token,     \* the cancel token has fired
  tapRead,   \* how much of the Sink's tap run() has read
  reason,    \* the StopReason that on_finished gets
  idle,      \* the idle watcher: on, fired or off
  log        \* every frame embedders queued so far, in order

taskVars == <<phase, queue, sending, token, tapRead, reason, idle, log>>
allVars == <<vars, taskVars>>

None == "none"
Pumping == phase \in {"pumping", "sending"}

TaskInit ==
  /\ Init
  /\ phase = "starting" /\ queue = <<>> /\ sending = None /\ token = FALSE
  /\ tapRead = 0 /\ reason = None /\ log = <<>>
  /\ idle = IF IdleWatch THEN "on" ELSE "off"

\* head.send: waits for room, unless the frame is of the system class.
ToHead(kind) ==
  /\ injects < MaxInject /\ injects' = injects + 1
  /\ Send(0, Env(kind, "down", 0))
  /\ UNCHANGED <<cont, live, hookVars, boundVars, tap>>

\* Mutant of ReadStart: run() goes on without waiting for the handshake.
ReadStartNever ==
  /\ phase = "starting"
  /\ phase' = "pumping"
  /\ UNCHANGED <<vars, queue, sending, token, tapRead, reason, idle, log>>

\* wait_for: run() reads the tap until Start has reached the Sink.
ReadStart ==
  /\ phase = "starting" /\ tapRead < Len(tap)
  /\ tapRead' = tapRead + 1
  /\ phase' = IF tap[tapRead'] = "Start" THEN "pumping" ELSE phase
  /\ UNCHANGED <<vars, queue, sending, token, reason, idle, log>>

\* wait_for: the token fires first, the pump starts without on_started.
StartCancelled ==
  /\ phase = "starting" /\ token
  /\ phase' = "pumping"
  /\ UNCHANGED <<vars, queue, sending, token, tapRead, reason, idle, log>>

\* Mutant of PumpCancel: the token is not looked at while frames are queued.
PumpCancelLast ==
  /\ phase = "pumping" /\ token /\ queue = <<>> /\ tapRead < Len(tap)
  /\ ToHead("Cancel")
  /\ reason' = "Cancel" /\ phase' = "joining"
  /\ UNCHANGED <<queue, sending, token, tapRead, idle, log>>

\* The pump's biased select, first the token: Cancel goes to the head.
PumpCancel ==
  /\ phase = "pumping" /\ token
  /\ ToHead("Cancel")
  /\ reason' = "Cancel" /\ phase' = "joining"
  /\ UNCHANGED <<queue, sending, token, tapRead, idle, log>>

\* ... then the queue: the pump is busy until the head has taken the frame,
PumpQueue ==
  /\ phase = "pumping" /\ ~ token /\ queue # <<>>
  /\ sending' = Head(queue) /\ queue' = Tail(queue)
  /\ phase' = "sending"
  /\ UNCHANGED <<vars, token, tapRead, reason, idle, log>>

PumpSend ==
  /\ phase = "sending"
  /\ ToHead(sending)
  /\ sending' = None /\ phase' = "pumping"
  /\ UNCHANGED <<queue, token, tapRead, reason, idle, log>>

\* Mutant of PumpTap: the first End that is queued is taken for the last frame.
PumpTapHasty ==
  /\ phase = "pumping" /\ ~ token /\ queue = <<>> /\ tapRead < Len(tap)
  /\ tapRead' = tapRead + 1
  /\ IF Terminal(tap[tapRead']) \/ \E kind \in Range(log) : kind = "End"
     THEN reason' = "End" /\ phase' = "joining" /\ UNCHANGED vars
     ELSE UNCHANGED <<vars, reason, phase>>
  /\ UNCHANGED <<queue, sending, token, idle, log>>

\* ... then the tap: a terminal frame ends the loop, a fatal error cancels.
PumpTap ==
  /\ phase = "pumping" /\ ~ token /\ queue = <<>> /\ tapRead < Len(tap)
  /\ tapRead' = tapRead + 1
  /\ LET f == tap[tapRead'] IN
       IF Terminal(f)
       THEN reason' = f /\ phase' = "joining" /\ UNCHANGED vars
       ELSE /\ UNCHANGED <<reason, phase>>
            /\ IF f = "Error" /\ Fatal THEN ToHead("Cancel") ELSE UNCHANGED vars
  /\ UNCHANGED <<queue, sending, token, idle, log>>

\* All stages have returned, or the grace window is over and they are aborted.
Join ==
  /\ phase = "joining"
  /\ phase' = "done" /\ token' = TRUE
  /\ idle' = IF idle = "on" THEN "off" ELSE idle
  /\ UNCHANGED <<vars, queue, sending, tapRead, reason, log>>

-----------------------------------------------------------------------------
(* What goes on beside the pump.                                           *)

\* queue_frame, stop_when_done, cancel, SourceHandle: into the unbounded queue.
QueueFrame(kind) ==
  /\ phase # "done" /\ Len(log) < MaxQueued
  /\ queue' = Append(queue, kind) /\ log' = Append(log, kind)
  /\ UNCHANGED <<vars, phase, sending, token, tapRead, reason, idle>>

\* PipelineRunner: a signal, or cancel_all, fires the token.
FireToken ==
  /\ Signals /\ phase # "done" /\ ~ token
  /\ token' = TRUE
  /\ UNCHANGED <<vars, phase, queue, sending, tapRead, reason, idle, log>>

\* Nobody spoke for a whole idle_timeout: the watcher queues a Cancel.
IdleTimeout ==
  /\ Pumping /\ ~ token /\ idle = "on"
  /\ idle' = "fired" /\ queue' = Append(queue, "Cancel")
  /\ UNCHANGED <<vars, phase, sending, token, tapRead, reason, log>>

\* The heartbeat, like the idle watcher, listens on a child of the cancel token.
HeartbeatTick ==
  /\ Heartbeats /\ Pumping /\ ~ token
  /\ ToHead("Heartbeat")
  /\ UNCHANGED taskVars

Stage(i) == phase # "done" /\ StageStep(i) /\ UNCHANGED <<injects, taskVars>>
Pump == ReadStart \/ StartCancelled \/ PumpCancel \/ PumpQueue \/ PumpSend \/ PumpTap \/ Join

TaskNext ==
  \/ \E i \in Stages : Stage(i)
  \/ ReadStart \/ StartCancelled
  \/ PumpCancel \/ PumpQueue \/ PumpSend \/ PumpTap \/ Join
  \/ \E kind \in Queued : QueueFrame(kind)
  \/ FireToken \/ IdleTimeout \/ HeartbeatTick

\* Every stage and run() are tasks that the scheduler keeps running; nothing makes
\* an embedder queue a frame, a signal come or the call fall silent.
TaskSpec == TaskInit /\ [][TaskNext]_allVars
TaskFairness ==
  /\ \A i \in Stages : WF_allVars(Stage(i))
  /\ WF_allVars(Pump)
FairTaskSpec == TaskSpec /\ TaskFairness

-----------------------------------------------------------------------------
(* Properties.                                                             *)

\* The pump holds a frame exactly while it is sending, and has read no more of
\* the tap than there is.
TaskTypeOK ==
  /\ phase \in {"starting", "pumping", "sending", "joining", "done"}
  /\ (sending = None) <=> (phase # "sending")
  /\ tapRead \in 0 .. Len(tap)
  /\ reason \in {None, "End", "Stop", "Cancel"}

BeforeEnd(k) == \A m \in 1 .. k : log[m] # "End"
TextsIn(s, n) == Cardinality({k \in 1 .. n : s[k] = "Text"})

\* stop_when_done drains: if a task that nobody interrupts reports the end of
\* the task, as many texts came out at the Sink as were queued before the End.
DrainBeforeEnd ==
  phase = "done" /\ reason = "End" /\ gens = 0 /\ errors = 0 /\ requests = 0 =>
    \A n \in 0 .. Len(log) :
      BeforeEnd(n) => TextsIn(log, n) <= TextsIn(tap, Len(tap))

\* The pump never holds a frame it does not send, and a task that ends has drained.
PumpDrains == TaskTypeOK /\ DrainBeforeEnd

\* Whatever the pump does is a behaviour of the chain: in particular no frame but
\* Cancel is sent to the head before Start has reached the Sink.
ChainSpec == Spec

EndAsked ==
  token \/ idle = "fired" \/ \E kind \in Range(log) : kind \in {"End", "Cancel"}

\* An End or Cancel that an embedder queues, a cancel token that fires, or an idle
\* watcher that finds the call silent ends the task, whatever barge-in or signal
\* comes in between; and so does a request to end of one of its processors,
\* unless a barge-in does come in between.
TaskEnds ==
  /\ EndAsked ~> phase = "done"
  /\ requests > 0 ~> phase = "done" \/ gens > 0

\* run() ends when the cancel token fires (the doc of PipelineTask::run).
TokenEnds == token ~> phase = "done"
=============================================================================
