-------------------------- MODULE ParallelPipeline --------------------------
(***************************************************************************)
(* The tasks that link_parallel spawns around the branches of a            *)
(* ParallelPipeline: fan_out copies every frame into every branch, fan_in  *)
(* merges what comes out, once per frame id, and holds a lifecycle frame   *)
(* back until every branch has passed it. A branch is one processor run by *)
(* run_processor; its handling of a frame is one step here, and the pushes *)
(* that follow are steps of their own (ProcessorChain has the finer grain).*)
(***************************************************************************)
EXTENDS Integers, SequencesExt, FiniteSets, Functions

CONSTANTS
  Branches,   \* the branches of the block
  Cap,        \* NORMAL_CHAN_CAP
  Entering,   \* kinds of the frames that come in behind Start
  EarlyCancel,  \* whether the cancel token may fire before Start is through
  MaxIds        \* bound: frame ids handed out, Start's included

ASSUME ParallelAssumption ==
  /\ IsFiniteSet(Branches) /\ Branches # {} /\ Branches \cap {"head", "fanin"} = {}
  /\ Cap \in Nat \ {0} /\ MaxIds \in Nat \ {0}
  /\ EarlyCancel \in BOOLEAN
  /\ Entering \subseteq {"Interruption", "End", "Cancel", "Text"}

SystemKinds == {"Start", "Interruption", "Cancel"}
Lifecycle == {"Start", "End", "Cancel"}
Terminal(kind) == kind \in {"End", "Cancel"}
BlockFrame == [kind : Lifecycle \cup {"Interruption", "Text"}, id : 1 .. MaxIds]

Channels == {"head", "fanin"} \cup Branches
NoLifecycle == [kind |-> "none", count |-> 0]

VARIABLES
  sys, norm,   \* the two channels in front of fan_out, fan_in and each branch
  ids,         \* frame ids handed out so far
  copying,     \* what fan_out still has to send: a frame and the branches left
  live,        \* the tasks that have not returned
  pushes,        \* pushes[b]: what branch b still has to push before it receives
  seenIds,     \* fan_in: ids already forwarded or buffered
  pending,     \* fan_in: the lifecycle frame that is syncing, and its count
  buffer,      \* fan_in: output held back meanwhile
  flushing,    \* fan_in: what it still has to send before it receives
  out          \* everything sent to the next processor, in order

chans == <<sys, norm>>
fanInVars == <<seenIds, pending, buffer, flushing, out>>
parallelVars == <<chans, ids, copying, live, pushes, fanInVars>>

ParallelInit ==
  /\ sys = [c \in Channels |-> IF c = "head" THEN <<[kind |-> "Start", id |-> 1]>> ELSE <<>>]
  /\ norm = [c \in Channels |-> <<>>]
  /\ ids = 1
  /\ copying = <<>>
  /\ live = Branches \cup {"head", "fanin"}
  /\ pushes = [b \in Branches |-> <<>>]
  /\ seenIds = {} /\ pending = NoLifecycle
  /\ buffer = <<>> /\ flushing = <<>> /\ out = <<>>

\* ProcessorTx::send: a channel whose task has returned swallows the frame.
Send(c, f) ==
  \/ c \notin live /\ UNCHANGED chans
  \/ /\ c \in live /\ f.kind \in SystemKinds
     /\ sys' = [sys EXCEPT ![c] = Append(@, f)] /\ UNCHANGED norm
  \/ /\ c \in live /\ f.kind \notin SystemKinds /\ Len(norm[c]) < Cap
     /\ norm' = [norm EXCEPT ![c] = Append(@, f)] /\ UNCHANGED sys

\* The biased select of every one of these loops.
Waiting(c) == c \in live /\ (sys[c] # <<>> \/ norm[c] # <<>>)
Received(c) == IF sys[c] # <<>> THEN Head(sys[c]) ELSE Head(norm[c])
Receive(c) ==
  IF sys[c] # <<>> THEN sys' = [sys EXCEPT ![c] = Tail(@)] /\ UNCHANGED norm
                   ELSE norm' = [norm EXCEPT ![c] = Tail(@)] /\ UNCHANGED sys

\* The processor in front pushes a frame into the block, until it has returned.
\* The PipelineTask lets only a Cancel in before Start has come out.
Emitted(kind) == \E f \in Range(out) : f.kind = kind
Ended ==
  \/ \E c \in Channels : \E f \in Range(sys[c]) \cup Range(norm[c]) : Terminal(f.kind)
  \/ copying # <<>> /\ Terminal(Head(copying).frame.kind)
Enter(kind) ==
  /\ "head" \in live /\ ~ Ended
  /\ Emitted("Start") \/ (EarlyCancel /\ kind = "Cancel")
  /\ ids < MaxIds /\ ids' = ids + 1
  /\ Send("head", [kind |-> kind, id |-> ids'])
  /\ UNCHANGED <<copying, live, pushes, fanInVars>>

-----------------------------------------------------------------------------
(* fan_out.                                                                *)

FanOutRecv ==
  /\ Waiting("head") /\ copying = <<>>
  /\ Receive("head")
  /\ LET f == Received("head")
         heads == SetToSeq(Branches) IN
       copying' = [k \in DOMAIN heads |-> [frame |-> f, to |-> heads[k]]]
  /\ UNCHANGED <<ids, live, pushes, fanInVars>>

\* One head after the other, each with backpressure; a terminal frame is the last.
FanOutSend ==
  /\ copying # <<>>
  /\ Send(Head(copying).to, Head(copying).frame)
  /\ copying' = Tail(copying)
  /\ live' = IF Len(copying) = 1 /\ Terminal(Head(copying).frame.kind)
             THEN live \ {"head"} ELSE live
  /\ UNCHANGED <<ids, pushes, fanInVars>>

-----------------------------------------------------------------------------
(* A branch.                                                               *)

Idle(b) == b \in live /\ pushes[b] = <<>> /\ Waiting(b)
Then(b, frames) == pushes' = [pushes EXCEPT ![b] = frames]

\* drain_on_interruption keeps the first End it meets and drains no further; what is left
\* behind it is dropped with the channel.
KeptEnd(q) ==
  LET ends == {k \in DOMAIN q : q[k].kind = "End"} IN
    IF ends = {} THEN <<>> ELSE <<q[Min(ends)]>>

\* The drain, then the interruption, then the End that was kept.
BranchBargeIn(b) ==
  /\ Idle(b) /\ Received(b).kind = "Interruption"
  /\ sys' = [sys EXCEPT ![b] = Tail(@)]
  /\ norm' = [norm EXCEPT ![b] = <<>>]
  /\ Then(b, <<Received(b)>> \o KeptEnd(norm[b]))
  /\ UNCHANGED <<ids, copying, live, fanInVars>>

\* Start and the terminal frames are passed on; their hooks are not modelled here.
BranchLifecycle(b) ==
  /\ Idle(b) /\ Received(b).kind \in Lifecycle
  /\ Receive(b)
  /\ Then(b, <<Received(b)>>)
  /\ UNCHANGED <<ids, copying, live, fanInVars>>

\* process_frame of the branch: forward the frame under its id, keep it, or push
\* one of its own, which gets a fresh id.
BranchProcess(b) ==
  /\ Idle(b) /\ Received(b).kind = "Text"
  /\ Receive(b)
  /\ \/ Then(b, <<Received(b)>>) /\ UNCHANGED ids
     \/ Then(b, <<>>) /\ UNCHANGED ids
     \/ /\ ids < MaxIds /\ ids' = ids + 1
        /\ Then(b, <<[kind |-> "Text", id |-> ids']>>)
  /\ UNCHANGED <<copying, live, fanInVars>>

\* After a terminal frame the branch returns and its channels are dropped.
BranchPush(b) ==
  /\ pushes[b] # <<>>
  /\ LET f == Head(pushes[b]) IN
       /\ \/ f.kind \in SystemKinds
          \/ Len(norm["fanin"]) < Cap
       /\ live' = IF Terminal(f.kind) THEN live \ {b} ELSE live
       /\ sys' = [c \in Channels |->
            IF c = "fanin" /\ f.kind \in SystemKinds THEN Append(sys[c], f)
            ELSE IF c \in live' THEN sys[c] ELSE <<>>]
       /\ norm' = [c \in Channels |->
            IF c = "fanin" /\ f.kind \notin SystemKinds THEN Append(norm[c], f)
            ELSE IF c \in live' THEN norm[c] ELSE <<>>]
  /\ Then(b, Tail(pushes[b]))
  /\ UNCHANGED <<ids, copying, fanInVars>>

-----------------------------------------------------------------------------
(* fan_in.                                                                 *)

FanInReady(kinds) ==
  /\ flushing = <<>> /\ Waiting("fanin")
  /\ Received("fanin").kind \in kinds
  /\ Receive("fanin")

\* Mutant of FanInSync: the first branch's lifecycle frame goes straight through.
FanInSyncFirst ==
  /\ FanInReady(Lifecycle)
  /\ LET f == Received("fanin") IN
       \/ /\ pending.kind = f.kind
          /\ pending' = NoLifecycle
          /\ flushing' = buffer /\ buffer' = <<>>
       \/ /\ pending.kind \notin {"none", f.kind}
          /\ buffer' = Append(buffer, f) /\ UNCHANGED <<pending, flushing>>
       \/ /\ pending.kind = "none"
          /\ pending' = [kind |-> f.kind, count |-> 1]
          /\ flushing' = <<f>>
          /\ UNCHANGED buffer
  /\ UNCHANGED <<ids, copying, live, pushes, seenIds, out>>

\* A lifecycle frame of one branch: count it; the last one goes on, followed by
\* what was held back. One of another kind is held back like any other output.
FanInSync ==
  /\ FanInReady(Lifecycle)
  /\ LET f == Received("fanin")
         same == pending.kind = f.kind
         count == IF same THEN pending.count + 1 ELSE 1
         complete == count >= Cardinality(Branches) IN
       \/ /\ same \/ pending.kind = "none"
          /\ pending' = IF complete THEN NoLifecycle ELSE [kind |-> f.kind, count |-> count]
          /\ flushing' = IF complete THEN <<f>> \o buffer ELSE <<>>
          /\ buffer' = IF complete THEN <<>> ELSE buffer
       \/ /\ ~ same /\ pending.kind # "none"
          /\ buffer' = Append(buffer, f) /\ UNCHANGED <<pending, flushing>>
  /\ UNCHANGED <<ids, copying, live, pushes, seenIds, out>>

\* Other output: the first copy of an id goes on, or into the buffer.
FanInOutput ==
  /\ FanInReady({"Interruption", "Text"})
  /\ LET f == Received("fanin")
         first == f.id \notin seenIds IN
       /\ seenIds' = seenIds \cup {f.id}
       /\ buffer' = IF first /\ pending # NoLifecycle THEN Append(buffer, f) ELSE buffer
       /\ flushing' = IF first /\ pending = NoLifecycle THEN <<f>> ELSE <<>>
  /\ UNCHANGED <<ids, copying, live, pushes, pending, out>>

\* forward_one: next.send may wait, the loop waits with it.
FanInSend ==
  /\ flushing # <<>>
  /\ out' = Append(out, Head(flushing)) /\ flushing' = Tail(flushing)
  /\ UNCHANGED <<chans, ids, copying, live, pushes, seenIds, pending, buffer>>

BranchStep(b) == BranchBargeIn(b) \/ BranchLifecycle(b) \/ BranchProcess(b) \/ BranchPush(b)
FanOut == FanOutRecv \/ FanOutSend
FanIn == FanInSync \/ FanInOutput \/ FanInSend

ParallelNext ==
  \/ \E kind \in Entering : Enter(kind)
  \/ FanOutRecv \/ FanOutSend
  \/ \E b \in Branches :
       BranchBargeIn(b) \/ BranchLifecycle(b) \/ BranchProcess(b) \/ BranchPush(b)
  \/ FanInSync \/ FanInOutput \/ FanInSend

ParallelSpec == ParallelInit /\ [][ParallelNext]_parallelVars

-----------------------------------------------------------------------------
(* Properties.                                                             *)

\* The count never reaches the number of branches, output is held back only while
\* a lifecycle frame is syncing, and every held-back frame is in seenIds.
FanInTypeOK ==
  /\ out \in Seq(BlockFrame) /\ buffer \in Seq(BlockFrame) /\ seenIds \subseteq 1 .. MaxIds
  /\ pending = NoLifecycle \/ pending.count \in 1 .. (Cardinality(Branches) - 1)
  /\ pending = NoLifecycle => buffer = <<>>

\* A frame that was copied into every branch leaves the block once.
EmitOnce == \A j, k \in DOMAIN out : out[j] = out[k] => j = k

\* A terminal frame leaves the block only after every branch has passed it and returned,
\* and an End only when fan_in has all that they ever sent: what it had to hold back while
\* it counted follows the End, and nothing else does. (What a branch sent in front of a
\* Cancel, which overtakes it, may still be waiting.)
EndAfterAllBranches ==
  /\ Emitted("End") \/ Emitted("Cancel") => live \cap Branches = {}
  /\ Emitted("End") => sys["fanin"] = <<>> /\ norm["fanin"] = <<>>

\* As the doc of the block has it, a fast branch's End cannot shut down what a slow branch
\* still has output for: nothing comes behind an End. It does not hold, the output that
\* was held back is flushed behind it (fan_in).
EndLast == \A j, k \in DOMAIN out : j < k => out[j].kind # "End"

\* Whatever barge-in hits the branches, a terminal frame that enters the block
\* leaves it.
EndLeaves == Ended ~> Emitted("End") \/ Emitted("Cancel")

\* No output of a branch is lost in the fan-in, not even what arrived while a
\* lifecycle frame was syncing.
OutputLeaves ==
  \A i \in 1 .. MaxIds :
    (\E f \in Range(norm["fanin"]) : f.kind = "Text" /\ f.id = i)
      ~> (\E f \in Range(out) : f.id = i)

\* A block of parallel branches is one stage to its neighbours: it counts its branches right,
\* lets each frame out once, and the end when all branches have returned and their output is
\* out or held back; what was held back comes behind the end.
BlockInOrder == FanInTypeOK /\ EmitOnce /\ EndAfterAllBranches
=============================================================================
