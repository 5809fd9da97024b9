------------------------ MODULE CascadedParts_proofs ------------------------
(***************************************************************************)
(* Proofs about the machines of the cascaded call that MCCascadedParts     *)
(* checks side by side: the speaking flag of BotSpeakingNotifier, the lock *)
(* of TurnMute and the history of RollingContext. Each machine is proved   *)
(* for its own specification, whatever the bounds.                         *)
(***************************************************************************)
EXTENDS BotSpeakingNotifier, TurnMute, RollingContext, SequenceFacts, TLAPS

-----------------------------------------------------------------------------
(* BotSpeakingNotifier.                                                    *)

DogLive == {"check", "read", "last", "release"}

NotifierTypes ==
  /\ speaking \in BOOLEAN /\ vadBot \in BOOLEAN
  /\ generation \in Nat /\ chunks \in Nat /\ interrupts \in Nat
  /\ until \in {"none", "playing", "over"}
  /\ pc \in [Actors -> {"idle", "note", "start", "spawn", "clear", "release", "stop"}]
  /\ dog \in [1 .. MaxGen -> DogLive \union {"none", "stop"}]
  /\ edges \in Seq({"started", "stopped"})

\* Every generation was paid for by a chunk or an interruption, and the sink still owes
\* one while it is in note_audio: so the next generation has a watchdog of its own.
GenerationPaid ==
  /\ chunks <= MaxChunks /\ interrupts <= MaxInterrupts
  /\ generation + (IF pc["sink"] \in {"note", "start", "spawn"} THEN 1 ELSE 0) <= chunks + interrupts

\* SpeakingIsWatched, and the watchdog that watches has not cleared the flag yet.
SpeakingIsLive ==
  speaking =>
    \/ pc["sink"] \in {"start", "spawn"}
    \/ generation > 0 /\ dog[generation] \in DogLive
    \/ \E a \in Interrupters : pc[a] \in {"clear", "release"}

NotifierInv ==
  /\ NotifierTypes /\ GenerationPaid
  /\ \A g \in 1 .. MaxGen : dog[g] # "none" => g <= generation
  /\ SpeakingIsLive

\* What an interruption does keeps the notifier's invariant.
LEMMA NotifierInterrupt ==
  ASSUME NotifierInv, NEW a \in Interrupters,
         InterruptBump(a) \/ InterruptClear(a) \/ InterruptRelease(a) \/ InterruptStopped(a)
  PROVE  NotifierInv'
<1> USE NotifierAssumption DEF NotifierInv, MaxGen, Actors, Goto, bounds
<1>1. CASE InterruptBump(a)
  BY <1>1 DEF InterruptBump, NotifierTypes, GenerationPaid, SpeakingIsLive
<1>2. CASE InterruptClear(a)
  BY <1>2 DEF InterruptClear, NotifierTypes, GenerationPaid, SpeakingIsLive
<1>3. CASE InterruptRelease(a)
  BY <1>3 DEF InterruptRelease, NotifierTypes, GenerationPaid, SpeakingIsLive
<1>4. CASE InterruptStopped(a)
  BY <1>4 DEF InterruptStopped, NotifierTypes, GenerationPaid, SpeakingIsLive
<1> QED BY <1>1, <1>2, <1>3, <1>4

\* What a watchdog does keeps the notifier's invariant.
LEMMA NotifierDog ==
  ASSUME NotifierInv, NEW g \in 1 .. MaxGen, Dog(g)
  PROVE  NotifierInv'
<1> USE NotifierAssumption DEF NotifierInv, MaxGen, DogGoto, DogLive, bounds
<1>1. CASE DogCheck(g)
  BY <1>1 DEF DogCheck, NotifierTypes, GenerationPaid, SpeakingIsLive
<1>2. CASE DogRead(g)
  BY <1>2 DEF DogRead, NotifierTypes, GenerationPaid, SpeakingIsLive
<1>3. CASE DogLast(g)
  BY <1>3 DEF DogLast, NotifierTypes, GenerationPaid, SpeakingIsLive
<1>4. CASE DogRelease(g)
  BY <1>4 DEF DogRelease, NotifierTypes, GenerationPaid, SpeakingIsLive
<1>5. CASE DogStopped(g)
  BY <1>5 DEF DogStopped, NotifierTypes, GenerationPaid, SpeakingIsLive
<1> QED BY <1>1, <1>2, <1>3, <1>4, <1>5 DEF Dog

\* What note_audio does keeps the notifier's invariant.
LEMMA NotifierNote ==
  ASSUME NotifierInv, NoteUntil \/ NoteClaim \/ NoteStarted \/ NoteSpawn
  PROVE  NotifierInv'
<1> USE NotifierAssumption DEF NotifierInv, MaxGen, Actors, Goto, DogLive, bounds
<1>1. CASE NoteUntil
  BY <1>1 DEF NoteUntil, NotifierTypes, GenerationPaid, SpeakingIsLive
<1>2. CASE NoteClaim
  BY <1>2 DEF NoteClaim, NotifierTypes, GenerationPaid, SpeakingIsLive
<1>3. CASE NoteStarted
  BY <1>3 DEF NoteStarted, NotifierTypes, GenerationPaid, SpeakingIsLive
<1>4. CASE NoteSpawn
  BY <1>4 DEF NoteSpawn, NotifierTypes, GenerationPaid, SpeakingIsLive
<1> QED BY <1>1, <1>2, <1>3, <1>4

\* However the sink, the reactor and the watchdogs interleave, a speaking flag that is set
\* always has a task left that will clear it.
THEOREM SpeakingWatched == NotifierSpec => []SpeakingIsWatched
<1>1. NotifierInit => NotifierInv
  <2> SUFFICES ASSUME NotifierInit PROVE NotifierInv
    OBVIOUS
  <2> USE NotifierAssumption DEF NotifierInit
  <2>1. NotifierTypes
    <3>1. dog \in [1 .. MaxGen -> DogLive \union {"none", "stop"}] OBVIOUS
    <3>2. edges \in Seq({"started", "stopped"}) OBVIOUS
    <3> QED BY <3>1, <3>2 DEF NotifierTypes
  <2>2. GenerationPaid BY DEF GenerationPaid, Actors
  <2>3. SpeakingIsLive BY DEF SpeakingIsLive
  <2> QED BY <2>1, <2>2, <2>3 DEF NotifierInv
<1>2. NotifierInv /\ [NotifierNext]_notifierVars => NotifierInv'
  <2> SUFFICES ASSUME NotifierInv, [NotifierNext]_notifierVars PROVE NotifierInv'
    OBVIOUS
  <2>1. CASE NoteUntil \/ NoteClaim \/ NoteStarted \/ NoteSpawn
    BY <2>1, NotifierNote
  <2>2. CASE \E a \in Interrupters :
               InterruptBump(a) \/ InterruptClear(a) \/ InterruptRelease(a) \/ InterruptStopped(a)
    BY <2>2, NotifierInterrupt
  <2>3. CASE \E g \in 1 .. MaxGen :
               DogCheck(g) \/ DogRead(g) \/ DogLast(g) \/ DogRelease(g) \/ DogStopped(g)
    BY <2>3, NotifierDog DEF Dog
  <2>4. CASE PlayedOut
    BY <2>4 DEF PlayedOut, NotifierInv, NotifierTypes, GenerationPaid, SpeakingIsLive, bounds
  <2>5. CASE VadEdge
    BY <2>5 DEF VadEdge, NotifierInv, NotifierTypes, GenerationPaid, SpeakingIsLive, bounds
  <2>6. CASE UNCHANGED notifierVars
    BY <2>6 DEF notifierVars, NotifierInv, NotifierTypes, GenerationPaid, SpeakingIsLive
  <2> QED BY <2>1, <2>2, <2>3, <2>4, <2>5, <2>6 DEF NotifierNext
<1>3. NotifierInv => SpeakingIsWatched
  BY DEF NotifierInv, SpeakingIsLive, SpeakingIsWatched, DogLive
<1> QED BY <1>1, <1>2, <1>3, PTL DEF NotifierSpec

-----------------------------------------------------------------------------
(* TurnMute.                                                               *)

LockDogLive == {"check", "read", "last", "release"}

MuteTypes ==
  /\ muted \in BOOLEAN /\ stt \in BOOLEAN /\ kickedOff \in BOOLEAN
  /\ lockGeneration \in Nat /\ turns \in Nat /\ owed \in Nat
  /\ botUntil \in {"none", "playing", "over"}
  /\ beginPc \in [Beginners -> {"idle", "mute", "reset", "spawn"}]
  /\ lockDog \in [Gens -> LockDogLive \union {"none", "unmute"}]
  /\ late \subseteq Gens /\ msgs \in Seq(BOOLEAN)

\* Every turn takes at most one generation, and a beginner in begin has yet to take its own.
TurnsCounted ==
  /\ turns <= MaxBegins /\ lockGeneration <= turns
  /\ \A b \in Beginners : beginPc[b] # "idle" => lockGeneration < turns

\* The four parts of LockIsWatched, without the sets.
LockHeld ==
  muted <=> \/ \E b \in Beginners : beginPc[b] # "idle"
            \/ \E g \in Gens : lockDog[g] \in LockDogLive
OneHolder ==
  /\ \A b, c \in Beginners : beginPc[b] # "idle" /\ beginPc[c] # "idle" => b = c
  /\ \A g \in Gens : lockDog[g] \in LockDogLive =>
       g = lockGeneration /\ \A b \in Beginners : beginPc[b] = "idle"

MuteInv == MuteTypes /\ TurnsCounted /\ LockHeld /\ OneHolder

\* What a beginner does in begin keeps the lock's invariant.
LEMMA MuteBegin ==
  ASSUME MuteInv, NEW b \in Beginners,
         BeginClaim(b) \/ BeginMute(b) \/ BeginReset(b) \/ BeginSpawn(b)
  PROVE  MuteInv'
<1> USE TurnMuteAssumption DEF MuteInv, Gens, BeginGoto, LockDogLive, atomics, turnVars
<1>1. CASE BeginClaim(b)
  <2>1. MuteTypes' BY <1>1 DEF BeginClaim, Run, MuteTypes
  <2>2. TurnsCounted' BY <1>1 DEF BeginClaim, TurnsCounted, MuteTypes, LockHeld
  <2>3. LockHeld' BY <1>1 DEF BeginClaim, LockHeld, MuteTypes
  <2>4. OneHolder' BY <1>1 DEF BeginClaim, OneHolder, LockHeld, MuteTypes
  <2> QED BY <2>1, <2>2, <2>3, <2>4
<1>2. CASE BeginMute(b)
  BY <1>2 DEF BeginMute, MuteTypes, TurnsCounted, LockHeld, OneHolder
<1>3. CASE BeginReset(b)
  BY <1>3 DEF BeginReset, MuteTypes, TurnsCounted, LockHeld, OneHolder
<1>4. CASE BeginSpawn(b)
  <2>1. MuteTypes'
    <3>1. owed' \in Nat BY <1>4 DEF BeginSpawn, Run, MuteTypes
    <3>2. lockDog' \in [Gens -> LockDogLive \union {"none", "unmute"}]
      BY <1>4 DEF BeginSpawn, MuteTypes
    <3> QED BY <1>4, <3>1, <3>2 DEF BeginSpawn, MuteTypes
  <2>2. TurnsCounted' BY <1>4 DEF BeginSpawn, TurnsCounted, OneHolder, MuteTypes
  <2>3. lockGeneration' \in Gens BY <1>4 DEF BeginSpawn, TurnsCounted, MuteTypes
  <2>4. LockHeld' BY <1>4, <2>3 DEF BeginSpawn, LockHeld, MuteTypes
  <2>5. OneHolder' BY <1>4, <2>3 DEF BeginSpawn, OneHolder, MuteTypes
  <2> QED BY <2>1, <2>2, <2>4, <2>5
<1> QED BY <1>1, <1>2, <1>3, <1>4

\* What a watchdog does keeps the lock's invariant.
LEMMA MuteDog ==
  ASSUME MuteInv, NEW g \in Gens, LockDog(g)
  PROVE  MuteInv'
<1> USE TurnMuteAssumption DEF MuteInv, LockDogGoto, LockDogLive, atomics, turnVars
<1>1. CASE LockDogCheck(g)
  BY <1>1 DEF LockDogCheck, MuteTypes, TurnsCounted, LockHeld, OneHolder
<1>2. CASE LockDogRead(g)
  BY <1>2 DEF LockDogRead, MuteTypes, TurnsCounted, LockHeld, OneHolder
<1>3. CASE LockDogLast(g)
  BY <1>3 DEF LockDogLast, MuteTypes, TurnsCounted, LockHeld, OneHolder
<1>4. CASE LockDogRelease(g)
  BY <1>4 DEF LockDogRelease, MuteTypes, TurnsCounted, LockHeld, OneHolder
<1>5. CASE LockDogUnmute(g)
  BY <1>5 DEF LockDogUnmute, MuteTypes, TurnsCounted, LockHeld, OneHolder
<1> QED BY <1>1, <1>2, <1>3, <1>4, <1>5 DEF LockDog

\* However the turns race the watchdogs of the turns before them, a lock that is held has
\* exactly one task that will release it, and one that is free has none.
THEOREM LockWatched == MuteSpec => []LockIsWatched
<1>1. MuteInit => MuteInv
  <2> SUFFICES ASSUME MuteInit PROVE MuteInv
    OBVIOUS
  <2> USE TurnMuteAssumption DEF MuteInit, LockDogLive
  <2>1. MuteTypes
    <3>1. lockDog \in [Gens -> LockDogLive \union {"none", "unmute"}] OBVIOUS
    <3>2. msgs \in Seq(BOOLEAN) OBVIOUS
    <3> QED BY <3>1, <3>2 DEF MuteTypes
  <2>2. TurnsCounted BY DEF TurnsCounted
  <2>3. LockHeld /\ OneHolder BY DEF LockHeld, OneHolder
  <2> QED BY <2>1, <2>2, <2>3 DEF MuteInv
<1>2. MuteInv /\ [MuteNext]_muteVars => MuteInv'
  <2> SUFFICES ASSUME MuteInv, [MuteNext]_muteVars PROVE MuteInv'
    OBVIOUS
  <2> USE DEF MuteInv, MuteTypes, TurnsCounted, LockHeld, OneHolder, atomics, turnVars
  <2>1. CASE \E b \in Beginners : BeginClaim(b) \/ BeginMute(b) \/ BeginReset(b) \/ BeginSpawn(b)
    BY <2>1, MuteBegin
  <2>2. CASE \E g \in Gens : LockDog(g)
    BY <2>2, MuteDog
  <2>3. CASE \E g \in Gens : NoAudioTimeout(g)
    BY <2>3 DEF NoAudioTimeout
  <2>4. CASE NoteBotAudio
    BY <2>4 DEF NoteBotAudio
  <2>5. CASE ReplyPlayedOut
    BY <2>5 DEF ReplyPlayedOut
  <2>6. CASE SttMute
    BY <2>6 DEF SttMute
  <2>7. CASE UNCHANGED muteVars
    BY <2>7 DEF muteVars
  <2> QED BY <2>1, <2>2, <2>3, <2>4, <2>5, <2>6, <2>7 DEF MuteNext, LockDog
<1>3. MuteInv => LockIsWatched
  BY DEF MuteInv, LockHeld, OneHolder, LockIsWatched, LockDogLive
<1> QED BY <1>1, <1>2, <1>3, PTL DEF MuteSpec

-----------------------------------------------------------------------------
(* RollingContext.                                                         *)

Msg == [role : {"user", "assistant", "call", "tool", "summary"}, call : Nat, nr : Nat]

ContextTypes ==
  /\ messages \in Seq(Msg) /\ log \in Seq(Msg) /\ covered \subseteq Msg
  /\ pending \subseteq Calls /\ inFlight \in BOOLEAN
  /\ job \in [at : {"none", "spawned", "asked", "release"}, older : Seq(Msg)]

\* One summarizer at a time: the flag is set exactly while a task is at work.
OneSummarizer == inFlight <=> job.at # "none"

\* While the model works on it, the copy stays the beginning of a history that only grows.
CopyIsPrefix ==
  job.at = "asked" =>
    /\ Len(job.older) <= Len(messages)
    /\ \A k \in 1 .. Len(job.older) : messages[k] = job.older[k]

ContextInv == ContextTypes /\ OneSummarizer /\ CopyIsPrefix /\ HistoryWhole

\* What pushing messages does to the history and to the log.
LEMMA PushFacts ==
  ASSUME ContextTypes, NEW new \in Seq(Msg), Push(new)
  PROVE  /\ messages' \in Seq(Msg) /\ log' \in Seq(Msg)
         /\ Len(messages') = Len(messages) + Len(new)
         /\ \A k \in 1 .. Len(messages) : messages'[k] = messages[k]
         /\ \A k \in 1 .. Len(messages') : k > Len(messages) => messages'[k] = new[k - Len(messages)]
         /\ Range(messages') = Range(messages) \cup Range(new)
         /\ Range(log') = Range(log) \cup Range(new)
<1>1. messages \in Seq(Msg) /\ log \in Seq(Msg) /\ messages' = messages \o new /\ log' = log \o new
  BY DEF ContextTypes, Push
<1>2. /\ messages \o new \in Seq(Msg) /\ log \o new \in Seq(Msg)
      /\ Len(messages \o new) = Len(messages) + Len(new)
      /\ \A i \in 1 .. Len(messages) + Len(new) :
           (messages \o new)[i] = IF i <= Len(messages) THEN messages[i] ELSE new[i - Len(messages)]
  BY <1>1, ConcatProperties
<1>3. /\ Range(messages \o new) = Range(messages) \cup Range(new)
      /\ Range(log \o new) = Range(log) \cup Range(new)
  BY <1>1, RangeConcatenation
<1> QED BY <1>1, <1>2, <1>3

\* A push keeps the copy a prefix and forgets no turn.
LEMMA PushKeeps ==
  ASSUME ContextInv, NEW new \in Seq(Msg), Push(new),
         UNCHANGED covered, job'.at = "asked" => UNCHANGED job
  PROVE  CopyIsPrefix' /\ TurnsRemembered'
<1>1. CopyIsPrefix'
  BY PushFacts DEF ContextInv, ContextTypes, CopyIsPrefix
<1>2. TurnsRemembered'
  BY PushFacts DEF ContextInv, HistoryWhole, TurnsRemembered
<1> QED BY <1>1, <1>2

\* A turn's message keeps every tool message behind its call.
LEMMA PushTurn ==
  ASSUME ContextInv, NEW m \in Msg, m.role # "tool", Push(<<m>>)
  PROVE  ToolsPaired'
<1>1. /\ messages' \in Seq(Msg) /\ Len(messages') = Len(messages) + 1
      /\ \A k \in 1 .. Len(messages) : messages'[k] = messages[k]
      /\ messages'[Len(messages) + 1] = m
  <2> DEFINE new == <<m>>
  <2>1. new \in Seq(Msg) /\ Len(new) = 1 /\ new[1] = m /\ Push(new) OBVIOUS
  <2> HIDE DEF new
  <2>2. Len(messages) \in Nat BY DEF ContextInv, ContextTypes
  <2>3. /\ messages' \in Seq(Msg) /\ Len(messages') = Len(messages) + Len(new)
        /\ \A k \in 1 .. Len(messages) : messages'[k] = messages[k]
        /\ \A k \in 1 .. Len(messages') : k > Len(messages) => messages'[k] = new[k - Len(messages)]
    BY <2>1, PushFacts DEF ContextInv
  <2>4. /\ Len(messages) + 1 \in 1 .. Len(messages') /\ (Len(messages) + 1) - Len(messages) = 1
        /\ Len(messages) + 1 > Len(messages)
    BY <2>1, <2>2, <2>3
  <2> QED BY <2>1, <2>3, <2>4
<1>2. messages \in Seq(Msg) /\ ToolsPaired
  BY DEF ContextInv, ContextTypes, HistoryWhole
<1> SUFFICES ASSUME NEW k \in 1 .. Len(messages) + 1, messages'[k].role = "tool"
             PROVE  k > 1 /\ messages'[k - 1].role = "call" /\ messages'[k - 1].call = messages'[k].call
  BY <1>1 DEF ToolsPaired
<1>3. k \in 1 .. Len(messages) BY <1>1, <1>2
<1>4. k > 1 /\ messages[k - 1].role = "call" /\ messages[k - 1].call = messages[k].call
  <2>1. messages[k].role = "tool" /\ k \in DOMAIN messages BY <1>1, <1>2, <1>3
  <2> QED BY <1>2, <2>1 DEF ToolsPaired
<1>5. k - 1 \in 1 .. Len(messages) BY <1>3, <1>4
<1> QED BY <1>1, <1>3, <1>4, <1>5

\* So does a call with its result.
LEMMA PushResult ==
  ASSUME ContextInv, NEW m \in Msg, NEW n \in Msg, m.role = "call", m.call = n.call, Push(<<m, n>>)
  PROVE  ToolsPaired'
<1>1. /\ messages' \in Seq(Msg) /\ Len(messages') = Len(messages) + 2
      /\ \A k \in 1 .. Len(messages) : messages'[k] = messages[k]
      /\ messages'[Len(messages) + 1] = m /\ messages'[Len(messages) + 2] = n
  <2> DEFINE new == <<m, n>>
  <2>1. new \in Seq(Msg) /\ Len(new) = 2 /\ new[1] = m /\ new[2] = n /\ Push(new) OBVIOUS
  <2> HIDE DEF new
  <2>2. Len(messages) \in Nat BY DEF ContextInv, ContextTypes
  <2>3. /\ messages' \in Seq(Msg) /\ Len(messages') = Len(messages) + Len(new)
        /\ \A k \in 1 .. Len(messages) : messages'[k] = messages[k]
        /\ \A k \in 1 .. Len(messages') : k > Len(messages) => messages'[k] = new[k - Len(messages)]
    BY <2>1, PushFacts DEF ContextInv
  <2>4. /\ Len(messages) + 1 \in 1 .. Len(messages') /\ (Len(messages) + 1) - Len(messages) = 1
        /\ Len(messages) + 2 \in 1 .. Len(messages') /\ (Len(messages) + 2) - Len(messages) = 2
        /\ Len(messages) + 1 > Len(messages) /\ Len(messages) + 2 > Len(messages)
    BY <2>1, <2>2, <2>3
  <2> QED BY <2>1, <2>3, <2>4
<1>2. messages \in Seq(Msg) /\ ToolsPaired
  BY DEF ContextInv, ContextTypes, HistoryWhole
<1> SUFFICES ASSUME NEW k \in 1 .. Len(messages) + 2, messages'[k].role = "tool"
             PROVE  k > 1 /\ messages'[k - 1].role = "call" /\ messages'[k - 1].call = messages'[k].call
  BY <1>1 DEF ToolsPaired
<1>3. CASE k \in 1 .. Len(messages)
  <2>1. k > 1 /\ messages[k - 1].role = "call" /\ messages[k - 1].call = messages[k].call
    <3>1. messages[k].role = "tool" /\ k \in DOMAIN messages BY <1>1, <1>2, <1>3
    <3> QED BY <1>2, <3>1 DEF ToolsPaired
  <2>2. k - 1 \in 1 .. Len(messages) BY <1>3, <2>1
  <2> QED BY <1>1, <1>3, <2>1, <2>2
<1>4. CASE k = Len(messages) + 2
  <2>1. Len(messages) \in Nat /\ k - 1 = Len(messages) + 1 BY <1>2, <1>4
  <2> QED BY <1>1, <1>4, <2>1
<1> QED BY <1>1, <1>2, <1>3, <1>4

\* The kept tail begins behind the older part and at no result of a tool, and only
\* results are dropped between the two.
LEMMA CutFacts ==
  ASSUME ContextTypes, NEW from \in 0 .. Len(messages)
  PROVE  /\ Cut(from) \in from .. Len(messages)
         /\ Cut(from) < Len(messages) => messages[Cut(from) + 1].role # "tool"
         /\ \A k \in from + 1 .. Cut(from) : messages[k].role = "tool"
<1> DEFINE ends == {k \in from .. Len(messages) : k = Len(messages) \/ messages[k + 1].role # "tool"}
<1>1. Len(messages) \in Nat BY DEF ContextTypes
<1>2. ends \in SUBSET Nat /\ Len(messages) \in ends BY <1>1
<1>3. Cut(from) = Min(ends) BY DEF Cut
<1>4. Min(ends) \in ends /\ \A y \in ends : Min(ends) <= y
  <2> HIDE DEF ends
  <2> QED BY <1>2, MinNat
<1>5. ASSUME NEW k \in from + 1 .. Cut(from) PROVE messages[k].role = "tool"
  <2>1. k - 1 \in from .. Len(messages) /\ k - 1 < Cut(from) /\ k - 1 + 1 = k
    BY <1>1, <1>3, <1>4
  <2>2. k - 1 \notin ends BY <1>1, <1>3, <1>4, <2>1
  <2> QED BY <2>1, <2>2
<1>6. Cut(from) \in from .. Len(messages) BY <1>3, <1>4
<1>7. Cut(from) < Len(messages) => messages[Cut(from) + 1].role # "tool" BY <1>1, <1>3, <1>4
<1> QED BY <1>5, <1>6, <1>7

\* The splice keeps every tool message behind its call, and the turns it drops are those
\* that the summary was made from.
LEMMA SpliceKeeps ==
  ASSUME ContextInv, job.at = "asked", Splice, covered' = covered \union Range(job.older), UNCHANGED log
  PROVE  messages' \in Seq(Msg) /\ ToolsPaired' /\ TurnsRemembered'
<1> DEFINE from == Min({Len(job.older), Len(messages)})
           cut == Cut(from)
           kept == SubSeq(messages, cut + 1, Len(messages))
<1>1. messages \in Seq(Msg) /\ job.older \in Seq(Msg) /\ Len(messages) \in Nat /\ Len(job.older) \in Nat
  BY DEF ContextInv, ContextTypes
<1>2. from = Len(job.older) /\ from \in 0 .. Len(messages)
  <2>1. Len(job.older) <= Len(messages) BY DEF ContextInv, CopyIsPrefix
  <2>2. from \in {Len(job.older), Len(messages)} /\ from <= Len(job.older) /\ from <= Len(messages)
    BY <1>1, MinNat
  <2> QED BY <1>1, <2>1, <2>2
<1>3. /\ cut \in from .. Len(messages)
      /\ cut < Len(messages) => messages[cut + 1].role # "tool"
      /\ \A k \in from + 1 .. cut : messages[k].role = "tool"
  BY <1>2, CutFacts DEF ContextInv
<1>4. messages' = <<Summary>> \o kept BY DEF Splice
<1> HIDE DEF cut, from
<1>5. /\ kept \in Seq(Msg)
      /\ Len(kept) = Len(messages) - cut
      /\ \A i \in 1 .. Len(messages) - cut : kept[i] = messages[cut + i]
  <2>1. \A i \in cut + 1 .. Len(messages) : messages[i] \in Msg BY <1>1, <1>2, <1>3
  <2> QED BY <1>1, <1>2, <1>3, <2>1, SubSeqProperties
<1> HIDE DEF kept
<1>6. Summary \in Msg BY DEF Summary, Msg, NoCall
<1>7. /\ messages' \in Seq(Msg)
      /\ Len(messages') = Len(kept) + 1 /\ messages'[1] = Summary
      /\ \A i \in 2 .. Len(kept) + 1 : messages'[i] = kept[i - 1]
  BY <1>4, <1>5, <1>6, ConcatProperties
<1>8. Range(messages') = {Summary} \cup Range(kept)
  BY <1>4, <1>5, <1>6, RangePrefix
<1>9. ToolsPaired'
  <2> SUFFICES ASSUME NEW k \in 1 .. Len(kept) + 1, messages'[k].role = "tool"
               PROVE  k > 1 /\ messages'[k - 1].role = "call" /\ messages'[k - 1].call = messages'[k].call
    BY <1>7 DEF ToolsPaired
  <2>1. k > 1 BY <1>7 DEF Summary
  <2>2. messages'[k] = messages[cut + (k - 1)]
    <3>1. k - 1 \in 1 .. Len(messages) - cut /\ k \in 2 .. Len(kept) + 1 BY <1>1, <1>2, <1>3, <1>5, <2>1
    <3> QED BY <1>5, <1>7, <3>1
  <2>3. k # 2 BY <1>1, <1>2, <1>3, <1>5, <2>2
  <2>4. messages'[k - 1] = messages[cut + (k - 2)]
    <3>1. /\ (k - 1) - 1 \in 1 .. Len(messages) - cut /\ k - 1 \in 2 .. Len(kept) + 1
          /\ (k - 1) - 1 = k - 2
      BY <1>1, <1>2, <1>3, <1>5, <2>1, <2>3
    <3> QED BY <1>5, <1>7, <3>1
  <2>5. cut + (k - 1) \in 1 .. Len(messages) /\ (cut + (k - 1)) - 1 = cut + (k - 2)
    BY <1>1, <1>2, <1>3, <1>5, <2>1
  <2>6. ToolsPaired BY DEF ContextInv, HistoryWhole
  <2>7. messages[cut + (k - 1)].role = "tool" BY <2>2
  <2>8. /\ messages[(cut + (k - 1)) - 1].role = "call"
        /\ messages[(cut + (k - 1)) - 1].call = messages[cut + (k - 1)].call
    BY <1>1, <2>5, <2>6, <2>7 DEF ToolsPaired
  <2> QED BY <2>1, <2>2, <2>4, <2>5, <2>8
<1>10. TurnsRemembered'
  <2> SUFFICES ASSUME NEW m \in Range(log), m.role \in {"user", "assistant"}
               PROVE  m \in Range(messages') \union covered'
    BY DEF TurnsRemembered
  <2>1. CASE m \in covered BY <2>1
  <2>2. CASE m \in Range(messages)
    <3>1. PICK k \in 1 .. Len(messages) : m = messages[k] BY <1>1, <2>2 DEF Range
    <3>2. CASE k <= from
      <4>1. k \in DOMAIN job.older /\ job.older[k] = m
        BY <1>1, <1>2, <3>1, <3>2 DEF ContextInv, CopyIsPrefix
      <4> QED BY <4>1 DEF Range
    <3>3. CASE k > cut
      <4>1. k - cut \in 1 .. Len(messages) - cut /\ cut + (k - cut) = k
        BY <1>1, <1>2, <1>3, <3>1, <3>3
      <4>2. k - cut \in DOMAIN kept /\ kept[k - cut] = m BY <1>5, <3>1, <4>1
      <4> QED BY <1>8, <4>2 DEF Range
    <3>4. CASE k \in from + 1 .. cut BY <1>3, <3>1, <3>4
    <3> QED BY <1>1, <1>2, <1>3, <3>1, <3>2, <3>3, <3>4
  <2> QED BY <2>1, <2>2 DEF ContextInv, HistoryWhole, TurnsRemembered
<1> QED BY <1>7, <1>9, <1>10

\* What the aggregators and the tool bridge do keeps the invariant.
LEMMA ContextPush ==
  ASSUME ContextInv,
         \/ UserPush \/ AssistantPush
         \/ \E c \in Calls : FunctionCallsStarted(c) \/ ToolResult(c) \/ TransitionAck(c)
  PROVE  ContextInv'
<1> USE ContextAssumption DEF ContextInv, HistoryWhole
<1>1. /\ log \in Seq(Msg) /\ Len(log) \in Nat
      /\ \A r \in {"user", "assistant", "call", "tool"}, c \in Nat, k \in {1, 2} :
           Message(r, c, k) \in Msg /\ Message(r, c, k).role = r /\ Message(r, c, k).call = c
  BY DEF ContextTypes, Message, Msg
<1>2. CASE UserPush
  <2> DEFINE m == Message("user", NoCall, 1)
  <2>1. m \in Msg /\ m.role # "tool" BY <1>1 DEF NoCall
  <2> HIDE DEF m
  <2>2. Push(<<m>>) BY <1>2 DEF UserPush, m
  <2>3. <<m>> \in Seq(Msg) BY <2>1
  <2>4. messages' \in Seq(Msg) /\ log' \in Seq(Msg) BY <2>2, <2>3, PushFacts
  <2>5. ToolsPaired' BY <2>1, <2>2, PushTurn
  <2>6. UNCHANGED covered /\ (job'.at = "asked" => UNCHANGED job)
    BY <1>2 DEF UserPush, NoJob, ContextTypes
  <2>7. CopyIsPrefix' /\ TurnsRemembered' BY <2>2, <2>3, <2>6, PushKeeps
  <2>8. job' \in [at : {"none", "spawned", "asked", "release"}, older : Seq(Msg)]
    BY <1>2, RangeNone DEF UserPush, NoJob, ContextTypes
  <2>9. ContextTypes' BY <1>2, <2>4, <2>8 DEF UserPush, ContextTypes
  <2>10. OneSummarizer' BY <1>2 DEF UserPush, NoJob, OneSummarizer, ContextTypes
  <2> QED BY <2>5, <2>7, <2>9, <2>10
<1>3. CASE AssistantPush
  <2> DEFINE m == Message("assistant", NoCall, 1)
  <2>1. m \in Msg /\ m.role # "tool" BY <1>1 DEF NoCall
  <2> HIDE DEF m
  <2>2. Push(<<m>>) BY <1>3 DEF AssistantPush, m
  <2>3. <<m>> \in Seq(Msg) BY <2>1
  <2>4. messages' \in Seq(Msg) /\ log' \in Seq(Msg) BY <2>2, <2>3, PushFacts
  <2>5. ToolsPaired' BY <2>1, <2>2, PushTurn
  <2>6. UNCHANGED <<covered, job, inFlight, pending>> BY <1>3 DEF AssistantPush
  <2>7. CopyIsPrefix' /\ TurnsRemembered' BY <2>2, <2>3, <2>6, PushKeeps
  <2> QED BY <2>4, <2>5, <2>6, <2>7 DEF ContextTypes, OneSummarizer
<1>4. ASSUME NEW c \in Calls, ToolResult(c) PROVE ContextInv'
  <2> DEFINE m == Message("call", c, 1)
             n == Message("tool", c, 2)
  <2>1. m \in Msg /\ n \in Msg /\ m.role = "call" /\ m.call = n.call
    <3>1. c \in Nat BY DEF Calls
    <3> QED BY <1>1, <3>1
  <2> HIDE DEF m, n
  <2>2. Push(<<m, n>>) BY <1>4 DEF ToolResult, m, n
  <2>3. <<m, n>> \in Seq(Msg) BY <2>1
  <2>4. messages' \in Seq(Msg) /\ log' \in Seq(Msg) BY <2>2, <2>3, PushFacts
  <2>5. ToolsPaired' BY <2>1, <2>2, PushResult
  <2>6. UNCHANGED <<covered, job, inFlight>> BY <1>4 DEF ToolResult
  <2>7. CopyIsPrefix' /\ TurnsRemembered' BY <2>2, <2>3, <2>6, PushKeeps
  <2>8. pending' \subseteq Calls BY <1>4 DEF ToolResult, ContextTypes
  <2> QED BY <2>4, <2>5, <2>6, <2>7, <2>8 DEF ContextTypes, OneSummarizer
<1>5. ASSUME NEW c \in Calls, FunctionCallsStarted(c) \/ TransitionAck(c) PROVE ContextInv'
  BY <1>5
  DEF FunctionCallsStarted, TransitionAck, ContextTypes, OneSummarizer, CopyIsPrefix, ToolsPaired, TurnsRemembered
<1> QED BY <1>2, <1>3, <1>4, <1>5

\* What the summarizer does keeps the invariant.
LEMMA ContextJob ==
  ASSUME ContextInv, JobSnapshot \/ JobAnswer \/ JobRelease
  PROVE  ContextInv'
<1> USE ContextAssumption DEF ContextInv, HistoryWhole
<1>1. CASE JobSnapshot
  <2>1. messages \in Seq(Msg) /\ Len(messages) \in Nat /\ Keep \in Nat BY DEF ContextTypes
  <2>2. /\ Older \in Seq(Msg)
        /\ Len(Older) = IF 1 <= Len(messages) - Keep THEN Len(messages) - Keep ELSE 0
        /\ \A i \in 1 .. Len(messages) - Keep : Older[i] = messages[i]
    <3>1. \A i \in 1 .. Len(messages) - Keep : messages[i] \in Msg BY <2>1
    <3> QED BY <2>1, <3>1, SubSeqProperties DEF Older
  <2>3. ContextTypes' BY <1>1, <2>2 DEF JobSnapshot, ContextTypes, NoJob
  <2>4. OneSummarizer' BY <1>1 DEF JobSnapshot, OneSummarizer, NoJob
  <2>5. CopyIsPrefix' BY <1>1, <2>1, <2>2 DEF JobSnapshot, CopyIsPrefix, NoJob
  <2>6. ToolsPaired' /\ TurnsRemembered' BY <1>1 DEF JobSnapshot, ToolsPaired, TurnsRemembered
  <2> QED BY <2>3, <2>4, <2>5, <2>6
<1>2. CASE JobAnswer
  <2>1. CopyIsPrefix' /\ OneSummarizer' BY <1>2 DEF JobAnswer, CopyIsPrefix, OneSummarizer, ContextTypes
  <2>2. CASE Splice /\ covered' = covered \union Range(job.older)
    <3>1. messages' \in Seq(Msg) /\ ToolsPaired' /\ TurnsRemembered'
      BY <1>2, <2>2, SpliceKeeps DEF JobAnswer
    <3>2. ContextTypes' BY <1>2, <2>2, <3>1 DEF JobAnswer, ContextTypes, Range
    <3> QED BY <2>1, <3>1, <3>2
  <2>3. CASE UNCHANGED <<messages, covered>>
    BY <1>2, <2>1, <2>3 DEF JobAnswer, ContextTypes, ToolsPaired, TurnsRemembered
  <2> QED BY <1>2, <2>2, <2>3 DEF JobAnswer
<1>3. CASE JobRelease
  <2>1. ContextTypes' BY <1>3, RangeNone DEF JobRelease, NoJob, ContextTypes
  <2>2. OneSummarizer' /\ CopyIsPrefix' BY <1>3 DEF JobRelease, NoJob, OneSummarizer, CopyIsPrefix
  <2>3. ToolsPaired' /\ TurnsRemembered' BY <1>3 DEF JobRelease, ToolsPaired, TurnsRemembered
  <2> QED BY <2>1, <2>2, <2>3
<1> QED BY <1>1, <1>2, <1>3

\* Whatever the aggregators, the bridge and the summarizer do to it while the model works on
\* a summary, the history keeps every tool message behind its call and forgets no turn.
THEOREM HistoryKept == ContextSpec => []HistoryWhole
<1>1. ContextInit => ContextInv
  <2> SUFFICES ASSUME ContextInit PROVE ContextInv
    OBVIOUS
  <2> USE DEF ContextInit, NoJob
  <2>1. <<>> \in Seq(Msg) /\ Range(<<>>) = {} BY RangeNone
  <2>2. ContextTypes BY <2>1 DEF ContextTypes
  <2>3. OneSummarizer /\ CopyIsPrefix BY DEF OneSummarizer, CopyIsPrefix
  <2>4. ToolsPaired /\ TurnsRemembered BY <2>1 DEF ToolsPaired, TurnsRemembered
  <2> QED BY <2>2, <2>3, <2>4 DEF ContextInv, HistoryWhole
<1>2. ContextInv /\ [ContextNext]_contextVars => ContextInv'
  <2> SUFFICES ASSUME ContextInv, [ContextNext]_contextVars PROVE ContextInv'
    OBVIOUS
  <2>1. CASE UNCHANGED contextVars
    BY <2>1 DEF contextVars, ContextInv, HistoryWhole, ContextTypes, OneSummarizer, CopyIsPrefix,
       ToolsPaired, TurnsRemembered
  <2> QED BY <2>1, ContextPush, ContextJob DEF ContextNext
<1>3. ContextInv => HistoryWhole BY DEF ContextInv
<1> QED BY <1>1, <1>2, <1>3, PTL DEF ContextSpec
=============================================================================
