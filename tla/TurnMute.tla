----------------------------- MODULE TurnMute -----------------------------
(***************************************************************************)
(* TurnMute, the turn lock of the half-duplex cascaded call: from the      *)
(* start of a turn until its reply has played out, STT is muted by SttMute *)
(* frames queued at the head. The user aggregator and the kickoff stage    *)
(* begin turns, the sink extends the playout estimate, and every turn has  *)
(* a watchdog that unmutes. One step is one access to an atomic, the mutex *)
(* or the head's queue.                                                    *)
(***************************************************************************)
EXTENDS Integers, Sequences

CONSTANTS
  MaxBegins,  \* bound: calls of begin
  MaxReply    \* bound: chunks of bot audio that one turn brings

ASSUME TurnMuteAssumption == MaxBegins \in Nat /\ MaxReply \in Nat

Beginners == {"user", "kickoff"}  \* the user aggregator, and the kickoff stage once
Gens == 1 .. MaxBegins

VARIABLES
  muted, lockGeneration,  \* the two atomics
  botUntil,               \* bot_until: None, in the future ("playing") or in the past ("over")
  beginPc,                \* beginPc[b]: where beginner b is in begin
  lockDog,                \* lockDog[g]: where the watchdog of generation g is, or "none"
  late,                   \* generations whose no_audio_timeout has expired
  msgs,                   \* SttMute frames on their way to the STT stage
  stt,                    \* whether the STT service is muted
  owed,                   \* chunks of the replies to the turns begun that are still to be sent
  turns,                  \* calls of begin so far
  kickedOff               \* the kickoff stage has greeted

atomics == <<muted, lockGeneration, botUntil>>
turnVars == <<owed, turns, kickedOff>>
muteVars == <<atomics, beginPc, lockDog, late, msgs, stt, turnVars>>

MuteInit ==
  /\ muted = FALSE /\ lockGeneration = 0 /\ botUntil = "none"
  /\ beginPc = [b \in Beginners |-> "idle"]
  /\ lockDog = [g \in Gens |-> "none"] /\ late = {}
  /\ msgs = <<>> /\ stt = FALSE
  /\ owed = 0 /\ turns = 0 /\ kickedOff = FALSE

BeginGoto(b, from, to) == beginPc[b] = from /\ beginPc' = [beginPc EXCEPT ![b] = to]
LockDogGoto(g, from, to) == lockDog[g] = from /\ lockDog' = [lockDog EXCEPT ![g] = to]

-----------------------------------------------------------------------------
(* begin, in the user aggregator or the kickoff stage.                     *)

\* begin has returned: the LLM runs, and its reply is on its way to the sink.
Run == \E n \in 0 .. MaxReply : owed' = owed + n

\* muted.swap(true): a turn in flight makes begin a no-op, the LLM runs in any case.
BeginClaim(b) ==
  /\ turns < MaxBegins /\ turns' = turns + 1
  /\ b = "kickoff" => ~ kickedOff
  /\ kickedOff' = (kickedOff \/ b = "kickoff")
  /\ BeginGoto(b, "idle", IF muted THEN "idle" ELSE "mute")
  /\ muted' = TRUE
  /\ IF muted THEN Run ELSE UNCHANGED owed
  /\ UNCHANGED <<lockGeneration, botUntil, lockDog, late, msgs, stt>>

BeginMute(b) ==
  /\ BeginGoto(b, "mute", "reset")
  /\ msgs' = Append(msgs, TRUE)
  /\ UNCHANGED <<atomics, lockDog, late, stt, turnVars>>

BeginReset(b) ==
  /\ BeginGoto(b, "reset", "spawn")
  /\ botUntil' = "none"
  /\ UNCHANGED <<muted, lockGeneration, lockDog, late, msgs, stt, turnVars>>

\* Mutant of BeginSpawn: the watchdog holds the generation before its own.
BeginSpawnStale(b) ==
  /\ BeginGoto(b, "spawn", "idle")
  /\ lockGeneration' = lockGeneration + 1
  /\ lockDog' = IF lockGeneration = 0 THEN lockDog ELSE [lockDog EXCEPT ![lockGeneration] = "check"]
  /\ Run
  /\ UNCHANGED <<muted, botUntil, late, msgs, stt, turns, kickedOff>>

BeginSpawn(b) ==
  /\ BeginGoto(b, "spawn", "idle")
  /\ lockGeneration' = lockGeneration + 1
  /\ lockDog' = [lockDog EXCEPT ![lockGeneration'] = "check"]
  /\ Run
  /\ UNCHANGED <<muted, botUntil, late, msgs, stt, turns, kickedOff>>

-----------------------------------------------------------------------------
(* The watchdog of generation g.                                           *)

LockDogCheck(g) ==
  /\ LockDogGoto(g, "check", IF lockGeneration = g THEN "read" ELSE "none")
  /\ UNCHANGED <<atomics, beginPc, late, msgs, stt, turnVars>>

\* Leave the loop when the reply is over, or has not begun within no_audio_timeout.
LockDogRead(g) ==
  /\ LockDogGoto(g, "read", IF botUntil = "over" \/ (botUntil = "none" /\ g \in late)
                        THEN "last" ELSE "check")
  /\ UNCHANGED <<atomics, beginPc, late, msgs, stt, turnVars>>

LockDogLast(g) ==
  /\ LockDogGoto(g, "last", IF lockGeneration = g THEN "release" ELSE "none")
  /\ UNCHANGED <<atomics, beginPc, late, msgs, stt, turnVars>>

LockDogRelease(g) ==
  /\ LockDogGoto(g, "release", IF muted THEN "unmute" ELSE "none")
  /\ muted' = FALSE
  /\ UNCHANGED <<lockGeneration, botUntil, beginPc, late, msgs, stt, turnVars>>

\* Mutant of LockDogUnmute: the unmute frame is not sent.
LockDogUnmuteSilent(g) ==
  /\ LockDogGoto(g, "unmute", "none")
  /\ UNCHANGED <<atomics, beginPc, late, msgs, stt, turnVars>>

LockDogUnmute(g) ==
  /\ LockDogGoto(g, "unmute", "none")
  /\ msgs' = Append(msgs, FALSE)
  /\ UNCHANGED <<atomics, beginPc, late, stt, turnVars>>

-----------------------------------------------------------------------------
(* The sink, time and the STT stage.                                       *)

NoteBotAudio ==
  /\ owed > 0 /\ owed' = owed - 1
  /\ botUntil' = "playing"
  /\ UNCHANGED <<muted, lockGeneration, beginPc, lockDog, late, msgs, stt, turns, kickedOff>>

ReplyPlayedOut ==
  /\ botUntil = "playing" /\ botUntil' = "over"
  /\ UNCHANGED <<muted, lockGeneration, beginPc, lockDog, late, msgs, stt, turnVars>>

NoAudioTimeout(g) ==
  /\ lockDog[g] # "none" /\ late' = late \union {g} /\ late' # late
  /\ UNCHANGED <<atomics, beginPc, lockDog, msgs, stt, turnVars>>

SttMute ==
  /\ msgs # <<>>
  /\ stt' = Head(msgs) /\ msgs' = Tail(msgs)
  /\ UNCHANGED <<atomics, beginPc, lockDog, late, turnVars>>

Begin(b) == BeginMute(b) \/ BeginReset(b) \/ BeginSpawn(b)
LockDog(g) == LockDogCheck(g) \/ LockDogRead(g) \/ LockDogLast(g) \/ LockDogRelease(g) \/ LockDogUnmute(g)

MuteNext ==
  \/ \E b \in Beginners : BeginClaim(b) \/ BeginMute(b) \/ BeginReset(b) \/ BeginSpawn(b)
  \/ \E g \in Gens :
       \/ LockDogCheck(g) \/ LockDogRead(g) \/ LockDogLast(g) \/ LockDogRelease(g) \/ LockDogUnmute(g)
       \/ NoAudioTimeout(g)
  \/ NoteBotAudio \/ ReplyPlayedOut \/ SttMute

MuteSpec == MuteInit /\ [][MuteNext]_muteVars

\* A call of begin finishes, every watchdog and the STT stage run, and time passes.
\* No turn has to begin, and no chunk has to come.
MuteFairness ==
  /\ \A b \in Beginners : WF_muteVars(Begin(b))
  /\ \A g \in Gens : WF_muteVars(LockDog(g)) /\ WF_muteVars(NoAudioTimeout(g))
  /\ WF_muteVars(ReplyPlayedOut) /\ WF_muteVars(SttMute)

MuteFairSpec == MuteSpec /\ MuteFairness

-----------------------------------------------------------------------------
(* Properties.                                                             *)

\* A lock that is held is released by somebody: the stage that is taking it, or the
\* watchdog of the newest generation; and there is never more than one of these.
LockIsWatched ==
  LET holders == {b \in Beginners : beginPc[b] # "idle"}
      watching == {g \in Gens : lockDog[g] \in {"check", "read", "last", "release"}} IN
  /\ muted <=> (holders # {} \/ watching # {})
  /\ \A b, c \in holders : b = c
  /\ watching \subseteq {lockGeneration}
  /\ holders = {} \/ watching = {}

\* The lock cannot deadlock: whether the turn brings audio or none, it is released.
LockReleased == muted ~> ~ muted

\* However the watchdog of a turn races the start of the next one, the caller is
\* always heard again.
SttReopens == stt ~> ~ stt

\* A half-duplex turn ends for the lock and for the STT stage: the caller is heard again.
CallerReheard == LockReleased /\ SttReopens
=============================================================================
