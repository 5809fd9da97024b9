--------------------------- MODULE RollingContext ---------------------------
(***************************************************************************)
(* The rolling LLM context of the cascaded call, shared behind a mutex by  *)
(* four tasks: the user aggregator, which also starts the summarizer, the  *)
(* assistant aggregator, the tool bridge, and the summarizer itself, which *)
(* takes the history, lets the model summarize its older part and splices  *)
(* the summary in when it is there. A step is one holding of the mutex.    *)
(***************************************************************************)
EXTENDS Integers, Sequences, SequencesExt, FiniteSetsExt

CONSTANTS
  MaxCalls, \* bound: tool calls that the model makes
  Trigger,  \* trigger_after_messages
  Keep,     \* keep_recent_messages
  MaxLog    \* bound: messages of the conversation

ASSUME ContextAssumption ==
  /\ Trigger \in Nat /\ Keep \in Nat
  /\ MaxCalls \in Nat /\ MaxLog \in Nat

Calls == 1 .. MaxCalls
NoCall == 0
NoJob == [at |-> "none", older |-> <<>>]
Summary == [role |-> "summary", call |-> NoCall, nr |-> 0]

VARIABLES
  messages,   \* the history, oldest first
  pending,    \* the tool bridge's calls that wait for their result
  inFlight,   \* summarize_in_flight
  job,        \* the summarizer task
  log,        \* every message ever pushed
  covered     \* the messages that the summaries in use were made from

contextVars == <<messages, pending, inFlight, job, log, covered>>

ContextInit ==
  /\ messages = <<>> /\ log = <<>> /\ covered = {}
  /\ pending = {}
  /\ inFlight = FALSE /\ job = NoJob

Message(role, call, k) == [role |-> role, call |-> call, nr |-> Len(log) + k]

Push(new) ==
  /\ Len(log) + Len(new) <= MaxLog
  /\ messages' = messages \o new /\ log' = log \o new

-----------------------------------------------------------------------------
(* The aggregators and the tool bridge.                                    *)

\* maybe_summarize: one summarizer at a time.
UserPush ==
  /\ Push(<<Message("user", NoCall, 1)>>)
  /\ LET starts == Len(messages') >= Trigger /\ ~ inFlight IN
       /\ inFlight' = (inFlight \/ starts)
       /\ job' = IF starts THEN [NoJob EXCEPT !.at = "spawned"] ELSE job
  /\ UNCHANGED <<pending, covered>>

AssistantPush ==
  /\ Push(<<Message("assistant", NoCall, 1)>>)
  /\ UNCHANGED <<pending, inFlight, job, covered>>

\* A call has an id of its own, as all providers but Gemini give it; calls and results are
\* system frames, which no barge-in drops.
FunctionCallsStarted(c) ==
  /\ c \notin pending
  /\ \A k \in DOMAIN log : log[k].call # c
  /\ pending' = pending \union {c}
  /\ UNCHANGED <<messages, inFlight, job, log, covered>>

\* The result of a workflow tool: the call and the result, in one go.
ToolResult(c) ==
  /\ c \in pending /\ pending' = pending \ {c}
  /\ Push(<<Message("call", c, 1), Message("tool", c, 2)>>)
  /\ UNCHANGED <<inFlight, job, covered>>

\* The ACK of a transition, stay or end.
TransitionAck(c) ==
  /\ c \in pending /\ pending' = pending \ {c}
  /\ UNCHANGED <<messages, inFlight, job, log, covered>>

-----------------------------------------------------------------------------
(* The summarizer task.                                                    *)

\* All but the most recent messages of the history.
Older == SubSeq(messages, 1, Len(messages) - Keep)

\* Mutant of JobSnapshot: nothing old to fold leaves the flag set.
JobSnapshotStuck ==
  /\ job.at = "spawned"
  /\ job' = IF Older = <<>> THEN NoJob ELSE [at |-> "asked", older |-> Older]
  /\ UNCHANGED <<inFlight, messages, pending, log, covered>>

\* The older part of the copy goes to the summarizer; nothing old ends the task.
JobSnapshot ==
  /\ job.at = "spawned"
  /\ job' = IF Older = <<>> THEN NoJob ELSE [at |-> "asked", older |-> Older]
  /\ inFlight' = (Older # <<>>)
  /\ UNCHANGED <<messages, pending, log, covered>>

\* Where the kept tail begins: past the results whose call is in the older part.
Cut(from) ==
  Min({k \in from .. Len(messages) : k = Len(messages) \/ messages[k + 1].role # "tool"})

\* Mutant of Splice: the tail is counted from the history as it is by now.
SpliceLate ==
  messages' = <<Summary>> \o SubSeq(messages, Cut(Len(messages) - Keep) + 1, Len(messages))

\* The older part of the copy is replaced by the summary.
Splice ==
  LET cut == Cut(Min({Len(job.older), Len(messages)})) IN
  messages' = <<Summary>> \o SubSeq(messages, cut + 1, Len(messages))

\* The summarizer answers, with a summary or with none.
JobAnswer ==
  /\ job.at = "asked"
  /\ job' = [job EXCEPT !.at = "release"]
  /\ \/ Splice /\ covered' = covered \union Range(job.older)
     \/ UNCHANGED <<messages, covered>>
  /\ UNCHANGED <<pending, inFlight, log>>

JobRelease ==
  /\ job.at = "release"
  /\ job' = NoJob /\ inFlight' = FALSE
  /\ UNCHANGED <<messages, pending, log, covered>>

ContextNext ==
  \/ UserPush \/ AssistantPush
  \/ \E c \in Calls : FunctionCallsStarted(c) \/ ToolResult(c) \/ TransitionAck(c)
  \/ JobSnapshot \/ JobAnswer \/ JobRelease

ContextSpec == ContextInit /\ [][ContextNext]_contextVars

\* The summarizer's task runs, and the model answers or fails.
ContextFairness == WF_contextVars(JobSnapshot \/ JobAnswer \/ JobRelease)

-----------------------------------------------------------------------------
(* Properties.                                                             *)

\* A tool message answers the call right before it: the provider rejects any other
\* history, and every later turn of the conversation with it.
ToolsPaired ==
  \A k \in DOMAIN messages : messages[k].role = "tool" =>
    k > 1 /\ messages[k - 1].role = "call" /\ messages[k - 1].call = messages[k].call

\* What the turns say is not lost, though the history grows while the model works on
\* the summary: a user or assistant message is in the history or in a summary.
TurnsRemembered ==
  \A m \in Range(log) : m.role \in {"user", "assistant"} => m \in Range(messages) \union covered

\* A summarizer that has nothing to do, fails or answers late does not block the next.
SummarizerFreed == inFlight ~> ~ inFlight

\* Whatever the aggregators, the bridge and the summarizer do to it, the history is one that
\* the provider accepts and that forgets no turn.
HistoryWhole == ToolsPaired /\ TurnsRemembered
=============================================================================
