------------------------ MODULE BotSpeakingNotifier ------------------------
(***************************************************************************)
(* BotSpeakingNotifier of the duplex cascaded call: the sink tells the VAD *)
(* stage, through frames queued at the head, whether the bot is speaking.  *)
(* Three kinds of tasks share its atomics: the sink (note_audio per chunk, *)
(* on_interruption on the frame path), the barge-in reactor                *)
(* (on_interruption out of band) and one playout watchdog per burst. One   *)
(* step is one access to an atomic, the mutex or the head's queue.         *)
(***************************************************************************)
EXTENDS Integers, Sequences

CONSTANTS
  Interrupters,  \* the tasks that call on_interruption: "sink", "reactor"
  MaxChunks,     \* bound: chunks of bot audio played
  MaxInterrupts  \* bound: calls of on_interruption

ASSUME NotifierAssumption ==
  /\ Interrupters \subseteq {"sink", "reactor"}
  /\ MaxChunks \in Nat /\ MaxInterrupts \in Nat

MaxGen == MaxChunks + MaxInterrupts
Actors == {"sink", "reactor"}

VARIABLES
  speaking, generation,  \* the two atomics
  until,      \* bot_until: None, in the future ("playing") or in the past ("over")
  pc,         \* pc[a]: where actor a is in note_audio or on_interruption
  dog,        \* dog[g]: where the watchdog of generation g is, or "none"
  edges,      \* the edge frames on their way to the VAD stage
  vadBot,     \* VadProcessor's bot_speaking
  chunks, interrupts

notifierVars == <<speaking, generation, until, pc, dog, edges, vadBot, chunks, interrupts>>
bounds == <<chunks, interrupts>>

NotifierInit ==
  /\ speaking = FALSE /\ generation = 0 /\ until = "none"
  /\ pc = [a \in Actors |-> "idle"]
  /\ dog = [g \in 1 .. MaxGen |-> "none"]
  /\ edges = <<>> /\ vadBot = FALSE
  /\ chunks = 0 /\ interrupts = 0

Goto(a, from, to) == pc[a] = from /\ pc' = [pc EXCEPT ![a] = to]
DogGoto(g, from, to) == dog[g] = from /\ dog' = [dog EXCEPT ![g] = to]

-----------------------------------------------------------------------------
(* note_audio, in the sink.                                                *)

\* advance_playout under the mutex.
NoteUntil ==
  /\ chunks < MaxChunks /\ chunks' = chunks + 1
  /\ Goto("sink", "idle", "note")
  /\ until' = "playing"
  /\ UNCHANGED <<speaking, generation, dog, edges, vadBot, interrupts>>

\* speaking.swap(true): only the first chunk of a burst goes on.
NoteClaim ==
  /\ Goto("sink", "note", IF speaking THEN "idle" ELSE "start")
  /\ speaking' = TRUE
  /\ UNCHANGED <<generation, until, dog, edges, vadBot, bounds>>

NoteStarted ==
  /\ Goto("sink", "start", "spawn")
  /\ edges' = Append(edges, "started")
  /\ UNCHANGED <<speaking, generation, until, dog, vadBot, bounds>>

\* Mutant of NoteSpawn: the watchdog takes the generation before it is bumped.
NoteSpawnStale ==
  /\ Goto("sink", "spawn", "idle")
  /\ generation' = generation + 1
  /\ dog' = IF generation = 0 THEN dog ELSE [dog EXCEPT ![generation] = "check"]
  /\ UNCHANGED <<speaking, until, edges, vadBot, bounds>>

NoteSpawn ==
  /\ Goto("sink", "spawn", "idle")
  /\ generation' = generation + 1
  /\ dog' = [dog EXCEPT ![generation'] = "check"]
  /\ UNCHANGED <<speaking, until, edges, vadBot, bounds>>

-----------------------------------------------------------------------------
(* on_interruption, in the sink or in the reactor.                         *)

InterruptBump(a) ==
  /\ interrupts < MaxInterrupts /\ interrupts' = interrupts + 1
  /\ Goto(a, "idle", "clear")
  /\ generation' = generation + 1
  /\ UNCHANGED <<speaking, until, dog, edges, vadBot, chunks>>

InterruptClear(a) ==
  /\ Goto(a, "clear", "release")
  /\ until' = "none"
  /\ UNCHANGED <<speaking, generation, dog, edges, vadBot, bounds>>

InterruptRelease(a) ==
  /\ Goto(a, "release", IF speaking THEN "stop" ELSE "idle")
  /\ speaking' = FALSE
  /\ UNCHANGED <<generation, until, dog, edges, vadBot, bounds>>

InterruptStopped(a) ==
  /\ Goto(a, "stop", "idle")
  /\ edges' = Append(edges, "stopped")
  /\ UNCHANGED <<speaking, generation, until, dog, vadBot, bounds>>

-----------------------------------------------------------------------------
(* The watchdog of generation g.                                           *)

DogCheck(g) ==
  /\ DogGoto(g, "check", IF generation = g THEN "read" ELSE "none")
  /\ UNCHANGED <<speaking, generation, until, pc, edges, vadBot, bounds>>

\* Mutant of DogRead: an estimate in the past is waited for as well.
DogReadForever(g) ==
  /\ DogGoto(g, "read", IF until # "none" THEN "check" ELSE "last")
  /\ UNCHANGED <<speaking, generation, until, pc, edges, vadBot, bounds>>

\* Sleep while the estimate is in the future, otherwise leave the loop.
DogRead(g) ==
  /\ DogGoto(g, "read", IF until = "playing" THEN "check" ELSE "last")
  /\ UNCHANGED <<speaking, generation, until, pc, edges, vadBot, bounds>>

DogLast(g) ==
  /\ DogGoto(g, "last", IF generation = g THEN "release" ELSE "none")
  /\ UNCHANGED <<speaking, generation, until, pc, edges, vadBot, bounds>>

DogRelease(g) ==
  /\ DogGoto(g, "release", IF speaking THEN "stop" ELSE "none")
  /\ speaking' = FALSE
  /\ UNCHANGED <<generation, until, pc, edges, vadBot, bounds>>

DogStopped(g) ==
  /\ DogGoto(g, "stop", "none")
  /\ edges' = Append(edges, "stopped")
  /\ UNCHANGED <<speaking, generation, until, pc, vadBot, bounds>>

-----------------------------------------------------------------------------
(* Time, and the VAD stage.                                                *)

PlayedOut ==
  /\ until = "playing" /\ until' = "over"
  /\ UNCHANGED <<speaking, generation, pc, dog, edges, vadBot, bounds>>

\* end_rx, the head and the stages up to the VAD keep system frames in order.
VadEdge ==
  /\ edges # <<>>
  /\ vadBot' = (Head(edges) = "started")
  /\ edges' = Tail(edges)
  /\ UNCHANGED <<speaking, generation, until, pc, dog, bounds>>

Dog(g) == DogCheck(g) \/ DogRead(g) \/ DogLast(g) \/ DogRelease(g) \/ DogStopped(g)

NotifierNext ==
  \/ NoteUntil \/ NoteClaim \/ NoteStarted \/ NoteSpawn
  \/ \E a \in Interrupters :
       InterruptBump(a) \/ InterruptClear(a) \/ InterruptRelease(a) \/ InterruptStopped(a)
  \/ \E g \in 1 .. MaxGen :
       DogCheck(g) \/ DogRead(g) \/ DogLast(g) \/ DogRelease(g) \/ DogStopped(g)
  \/ PlayedOut \/ VadEdge

NotifierSpec == NotifierInit /\ [][NotifierNext]_notifierVars

\* A task that has begun a call finishes it, the scheduler runs every watchdog and
\* the VAD stage, and time passes. Nothing makes a new chunk or a barge-in come.
NotifierFairness ==
  /\ WF_notifierVars(NoteClaim \/ NoteStarted \/ NoteSpawn)
  /\ \A a \in Interrupters :
       WF_notifierVars(InterruptClear(a) \/ InterruptRelease(a) \/ InterruptStopped(a))
  /\ \A g \in 1 .. MaxGen : WF_notifierVars(Dog(g))
  /\ WF_notifierVars(PlayedOut) /\ WF_notifierVars(VadEdge)

NotifierFairSpec == NotifierSpec /\ NotifierFairness

-----------------------------------------------------------------------------
(* Properties.                                                             *)

\* Every watchdog belongs to a generation that was handed out, and a bot that is
\* speaking is watched: by the task that set the flag, or by a live watchdog, or
\* by the interruption that superseded it and has yet to clear the flag.
SpeakingIsWatched ==
  /\ \A g \in 1 .. MaxGen : dog[g] # "none" => g <= generation
  /\ speaking =>
       \/ pc["sink"] \in {"start", "spawn"}
       \/ generation > 0 /\ dog[generation] # "none"
       \/ \E a \in Interrupters : pc[a] \in {"clear", "release"}

\* The flag does not outlive the audio, whatever barge-in supersedes the watchdog.
SpeakingEnds == speaking ~> ~ speaking

\* In a call without a barge-in, however the bursts of audio race the watchdogs, the
\* VAD stage comes to know that the bot is silent for good.
SilenceHeard ==
  <>[](until # "playing" /\ interrupts = 0) => <>[](~ vadBot)

\* The same whatever barge-ins there were: the watchdog "emits BotStoppedSpeaking once
\* the estimate runs dry" (the doc of note_audio).
VadSettles == <>[](until # "playing") => <>[](~ vadBot)

\* Both sides of the notifier come to rest: its own flag, and what the VAD stage believes.
SpeakingSettles == SpeakingEnds /\ SilenceHeard
=============================================================================
