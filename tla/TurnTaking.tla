----------------------------- MODULE TurnTaking -----------------------------
(***************************************************************************)
(* From caller audio to the end of the caller's turn: the VAD stage with   *)
(* its debounced state machine, the turn stage behind it, and the pure     *)
(* strategies that a turn controller feeds with their frames: TurnAnalyzer-*)
(* Stop, SpeechTimeoutStop, MinWordsTurnStart and the mute strategies. The *)
(* repository has the strategies but no controller: it is external, and is *)
(* taken to do what the traits ask of it, that is to reset a strategy that *)
(* has triggered and to feed the analyzer's reports to set_turn_complete.  *)
(* Audio is a sequence of analysis windows, loud or not; both stages cut   *)
(* it alike. A transcript is the number of words it has.                   *)
(***************************************************************************)
EXTENDS Integers, Sequences, FiniteSets

CONSTANTS
  StartFrames, StopFrames,    \* start_secs and stop_secs in windows
  SilenceWindows,             \* stop_secs of the turn tracker in windows
  SttTimeout, SpeechTimeout,  \* in ticks
  MinWords,                   \* word floor of a barge-in
  ToolCalls,                  \* ids of function calls
  FrameWindows,               \* bound: windows in a frame of audio
  MaxTurnFrames               \* bound: edges, turn stops and turn starts

ASSUME TurnAssumption ==
  /\ StartFrames \in Nat \ {0} /\ StopFrames \in Nat \ {0} /\ SilenceWindows \in Nat \ {0}
  /\ SttTimeout \in Nat /\ SpeechTimeout \in Nat /\ MinWords \in Nat
  /\ FrameWindows \in Nat /\ MaxTurnFrames \in Nat

VARIABLES
  turnCase,   \* the strategies in play: [stop, start, mute], each "none" or its kind
  frame,      \* the windows of the frame that the VAD stage works on, or <<>>
  windows,    \* those it has not analyzed
  vad,        \* VadStateMachine: [state, starting, stopping]
  lastState,  \* VadProcessor::last_state
  toTurn,     \* frames on their way to the turn stage
  turnVad,    \* TurnProcessor::vad
  tracker,    \* TurnSilenceTracker: [triggered, silence]
  prediction, \* last_prediction.is_complete
  stopper,    \* the stop strategy: [speaking, complete, text, final, speechDone, sttDone]
  quiet,      \* ticks since the VAD's stop edge
  starter,    \* MinWordsTurnStart::bot_speaking, ExternalTurnStart::triggered
  muter,      \* the mute strategy: [bot, handled, inProgress]
  floor,      \* who really has it: [bot, taken, spoken, live]: the bot speaks, the caller
              \* has started a turn meanwhile, the bot has ended an utterance, and the
              \* function calls that run
  run,        \* history: the last windows that were alike: [loud, n]
  edges,      \* history: the VAD edges so far
  since,      \* history since the caller began to speak: [final, reported, heard]: a final
              \* transcript, a report that the turn is complete, an analyzed window
  stops,      \* history: the turn stops, each earned or not
  starts      \* history: the turn starts: [words, over]: over the bot's speech, as the first

vadVars == <<frame, windows, vad, lastState, run, edges>>
stageVars == <<turnVad, tracker, prediction>>
stopVars == <<stopper, quiet, since, stops>>
talkVars == <<starter, muter, floor, starts>>
turnVars == <<turnCase, vadVars, toTurn, stageVars, stopVars, talkVars>>

-----------------------------------------------------------------------------
(* VadStateMachine and VadProcessor.                                       *)

Quieted == [state |-> "Quiet", starting |-> 0, stopping |-> 0]

\* The transition on one window, before the debounce.
Moved(sm, loud) ==
  CASE loud /\ sm.state = "Quiet" -> [sm EXCEPT !.state = "Starting", !.starting = 1]
    [] loud /\ sm.state = "Starting" -> [sm EXCEPT !.starting = @ + 1]
    [] loud /\ sm.state = "Stopping" -> [sm EXCEPT !.state = "Speaking", !.stopping = 0]
    [] ~ loud /\ sm.state = "Starting" -> [sm EXCEPT !.state = "Quiet", !.starting = 0]
    [] ~ loud /\ sm.state = "Speaking" -> [sm EXCEPT !.state = "Stopping", !.stopping = 1]
    [] ~ loud /\ sm.state = "Stopping" -> [sm EXCEPT !.stopping = @ + 1]
    [] OTHER -> sm

Advance(sm, loud) ==
  LET moved == Moved(sm, loud) IN
  CASE moved.state = "Starting" /\ moved.starting >= StartFrames ->
         [moved EXCEPT !.state = "Speaking", !.starting = 0]
    [] moved.state = "Stopping" /\ moved.stopping >= StopFrames ->
         [moved EXCEPT !.state = "Quiet", !.stopping = 0]
    [] OTHER -> moved

\* The edge between the states of two windows.
Edge(last, new) ==
  CASE new = "Speaking" /\ last \notin {"Speaking", "Stopping"} -> <<"started">>
    [] last \in {"Speaking", "Stopping"} /\ new = "Quiet" -> <<"stopped">>
    [] OTHER -> <<>>

\* InputAudio comes: its complete windows are analyzed one by one.
VadAudio(ws) ==
  /\ turnCase.stop # "none" /\ frame = <<>> /\ toTurn = <<>> /\ Len(edges) < MaxTurnFrames
  /\ frame' = ws /\ windows' = ws
  /\ UNCHANGED <<turnCase, vad, lastState, run, edges, toTurn, stageVars, stopVars, talkVars>>

\* drain_windows: the edge frames go out as they are found.
VadWindow ==
  /\ windows # <<>> /\ windows' = Tail(windows)
  /\ LET loud == Head(windows)
         new == Advance(vad, loud)
         edge == Edge(lastState, new.state) IN
     /\ vad' = new /\ lastState' = new.state
     /\ toTurn' = toTurn \o [k \in DOMAIN edge |-> [kind |-> edge[k], ws |-> <<>>]]
     /\ edges' = edges \o edge
     /\ run' = IF loud = run.loud
               THEN [run EXCEPT !.n = IF @ < StartFrames + StopFrames THEN @ + 1 ELSE @]
               ELSE [loud |-> loud, n |-> 1]
  /\ UNCHANGED <<turnCase, frame, stageVars, stopVars, talkVars>>

\* The frame is forwarded behind the edges that were found in it.
VadForward ==
  /\ frame # <<>> /\ windows = <<>> /\ frame' = <<>>
  /\ toTurn' = Append(toTurn, [kind |-> "audio", ws |-> frame])
  /\ UNCHANGED <<turnCase, windows, vad, lastState, run, edges, stageVars, stopVars, talkVars>>

-----------------------------------------------------------------------------
(* TurnProcessor. With a model the analyzer may find a turn complete in    *)
(* any silent window after speech.                                         *)

\* TurnSilenceTracker::append, and clear once the turn is complete.
Append1(t, speech) ==
  IF speech THEN [triggered |-> TRUE, silence |-> 0]
  ELSE IF t.triggered THEN [t EXCEPT !.silence = @ + 1] ELSE t
Cleared == [triggered |-> FALSE, silence |-> 0]

\* The verdicts of the model on silence after speech.
Predicted(t, speech) == IF ~ speech /\ t.triggered THEN BOOLEAN ELSE {FALSE}

\* analyze_turn: what the tracker becomes, and whether the turn is complete.
AnalyzeTurn(t, speech) ==
  LET next == Append1(t, speech)
      forced == ~ speech /\ next.triggered /\ next.silence >= SilenceWindows IN
  {[next |-> IF complete THEN Cleared ELSE next, complete |-> complete] :
     complete \in IF forced THEN {TRUE} ELSE Predicted(next, speech)}

TurnAudio ==
  /\ toTurn # <<>> /\ Head(toTurn).kind = "audio"
  /\ IF Head(toTurn).ws = <<>>
     THEN toTurn' = Tail(toTurn) /\ UNCHANGED <<tracker, prediction, since>>
     ELSE /\ toTurn' = <<[kind |-> "audio", ws |-> Tail(Head(toTurn).ws)]>> \o Tail(toTurn)
          /\ \E r \in AnalyzeTurn(tracker, turnVad = "Speaking") :
               /\ tracker' = r.next /\ prediction' = r.complete
               /\ since' = [since EXCEPT !.heard = TRUE]
  /\ UNCHANGED <<turnCase, vadVars, turnVad, stopper, quiet, stops, talkVars>>

-----------------------------------------------------------------------------
(* Stop strategies.                                                        *)

Waiting == [speaking |-> FALSE, complete |-> FALSE, text |-> FALSE, final |-> FALSE,
            speechDone |-> FALSE, sttDone |-> FALSE]

\* evaluate of TurnAnalyzerStop and of SpeechTimeoutStop.
EvaluateTimeout(s) == s.speechDone /\ s.sttDone
Evaluate(s) ==
  /\ s.text /\ ~ s.speaking
  /\ IF turnCase.stop = "analyzer" THEN s.complete /\ (s.final \/ s.sttDone) ELSE EvaluateTimeout(s)

\* Mutant: the timeout of the pause before is still expired.
OnStartedKept(s) == [s EXCEPT !.speaking = TRUE, !.complete = FALSE, !.final = FALSE]

OnStarted(s) ==
  [s EXCEPT !.speaking = TRUE, !.complete = FALSE, !.final = FALSE, !.speechDone = FALSE,
            !.sttDone = FALSE]

\* A final transcript ends the wait for the STT of SpeechTimeoutStop, and so does a VAD
\* stop that took as long: the stop_secs of the frame is one window, less than a tick.
OnStopped(s) ==
  [s EXCEPT !.speaking = FALSE,
            !.sttDone = @ \/ (turnCase.stop = "timeout" /\ (s.final \/ SttTimeout = 0))]

OnTranscript(s, text, final) ==
  [s EXCEPT !.text = @ \/ text, !.final = @ \/ final,
            !.sttDone = @ \/ (turnCase.stop = "timeout" /\ final)]

OnSilenceTick(s, elapsed) ==
  [s EXCEPT !.speechDone = @ \/ (~ s.speaking /\ elapsed >= SpeechTimeout),
            !.sttDone = @ \/ (~ s.speaking /\ elapsed >= SttTimeout)]

\* The controller: on Triggered the turn is over and the strategy reset.
TurnDecide(s) ==
  IF Evaluate(s)
  THEN /\ stopper' = Waiting
       /\ stops' = Append(stops, /\ since'.final \/ quiet' >= SttTimeout
                                 /\ turnCase.stop = "analyzer" => since'.reported
                                 /\ turnCase.stop = "timeout" => quiet' >= SpeechTimeout)
  ELSE stopper' = s /\ UNCHANGED stops

\* VadUserStartedSpeaking, at the turn stage and then at the strategy.
TurnStarted ==
  /\ toTurn # <<>> /\ Head(toTurn).kind = "started" /\ toTurn' = Tail(toTurn)
  /\ turnVad' = "Speaking" /\ quiet' = 0
  /\ since' = [final |-> FALSE, reported |-> FALSE, heard |-> FALSE]
  /\ TurnDecide(OnStarted(stopper))
  /\ UNCHANGED <<turnCase, vadVars, tracker, prediction, talkVars>>

\* VadUserStoppedSpeaking: the last prediction goes out in front of it. It is that of the
\* last analyzed window, whenever that was: nothing resets it.
TurnStopped ==
  /\ toTurn # <<>> /\ Head(toTurn).kind = "stopped" /\ toTurn' = Tail(toTurn)
  /\ turnVad' = "Quiet" /\ quiet' = 0
  /\ since' = [since EXCEPT !.reported = @ \/ prediction]
  /\ TurnDecide(OnStopped([stopper EXCEPT !.complete = prediction]))
  /\ UNCHANGED <<turnCase, vadVars, tracker, prediction, talkVars>>

Transcript(text, final) ==
  /\ turnCase.stop # "none" /\ toTurn = <<>> /\ Len(stops) < MaxTurnFrames
  /\ since' = [since EXCEPT !.final = @ \/ final]
  /\ quiet' = quiet
  /\ TurnDecide(OnTranscript(stopper, text, final))
  /\ UNCHANGED <<turnCase, vadVars, toTurn, stageVars, talkVars>>

SilenceTick ==
  /\ turnCase.stop # "none" /\ toTurn = <<>> /\ turnVad = "Quiet" /\ Len(stops) < MaxTurnFrames
  /\ quiet' = IF quiet < SttTimeout + SpeechTimeout THEN quiet + 1 ELSE quiet
  /\ UNCHANGED since
  /\ TurnDecide(OnSilenceTick(stopper, quiet'))
  /\ UNCHANGED <<turnCase, vadVars, toTurn, stageVars, talkVars>>

-----------------------------------------------------------------------------
(* Start and mute strategies.                                              *)

\* MinWordsTurnStart: the floor of words holds while the bot speaks.
WordFloor == IF starter /\ MinWords > 1 THEN MinWords ELSE 1

\* on_frame of the mute strategies. A result or a cancel of a call that is over, or that
\* the strategy never saw, is no error.
OnMuteFrame(m, event, c) ==
  CASE event = "BotStarted" -> [m EXCEPT !.bot = TRUE]
    [] event = "BotStopped" -> [m EXCEPT !.bot = FALSE, !.handled = TRUE]
    [] event = "CallStarted" -> [m EXCEPT !.inProgress = @ \union {c}]
    [] event \in {"CallResult", "CallCancel"} -> [m EXCEPT !.inProgress = @ \ {c}]

Muted ==
  CASE turnCase.mute = "always" -> TRUE
    [] turnCase.mute = "untilFirst" -> ~ muter.handled
    [] turnCase.mute = "first" -> muter.bot /\ ~ muter.handled
    [] turnCase.mute = "calls" -> muter.inProgress # {}

BotEdge(on) ==
  /\ turnCase.mute # "none" /\ floor.bot # on
  /\ floor' = [floor EXCEPT !.bot = on, !.taken = FALSE, !.spoken = @ \/ ~ on]
  /\ starter' = on
  /\ muter' = OnMuteFrame(muter, IF on THEN "BotStarted" ELSE "BotStopped", "")
  /\ UNCHANGED <<turnCase, vadVars, toTurn, stageVars, stopVars, starts>>

CallEvent(c, event) ==
  /\ turnCase.mute # "none" /\ (event = "CallStarted" => c \notin floor.live)
  /\ floor' = [floor EXCEPT !.live = IF event = "CallStarted" THEN @ \union {c} ELSE @ \ {c}]
  /\ muter' = OnMuteFrame(muter, event, c)
  /\ UNCHANGED <<turnCase, vadVars, toTurn, stageVars, stopVars, starter, starts>>

\* A transcript of n words starts a turn, and the strategy is reset. The bot may speak on
\* until its BotStoppedSpeaking comes.
WordsHeard(n) ==
  /\ turnCase.start = "words" /\ Len(starts) < MaxTurnFrames /\ n >= WordFloor
  /\ starts' = Append(starts, [words |-> n, over |-> floor.bot /\ ~ floor.taken])
  /\ starter' = FALSE
  /\ floor' = [floor EXCEPT !.taken = floor.bot]
  /\ UNCHANGED <<turnCase, vadVars, toTurn, stageVars, stopVars, muter>>

-----------------------------------------------------------------------------
TurnInit ==
  /\ turnCase \in {[stop |-> s, start |-> "none", mute |-> "none"] : s \in {"analyzer", "timeout"}}
       \union {[stop |-> "none", start |-> "words", mute |-> m] :
                 m \in {"always", "untilFirst", "first", "calls"}}
  /\ frame = <<>> /\ windows = <<>> /\ vad = Quieted /\ lastState = "Quiet" /\ toTurn = <<>>
  /\ turnVad = "Quiet" /\ tracker = Cleared /\ prediction = FALSE
  /\ stopper = Waiting /\ quiet = 0
  /\ starter = FALSE /\ muter = [bot |-> FALSE, handled |-> FALSE, inProgress |-> {}]
  /\ floor = [bot |-> FALSE, taken |-> FALSE, spoken |-> FALSE, live |-> {}]
  /\ run = [loud |-> FALSE, n |-> 0] /\ edges = <<>>
  /\ since = [final |-> FALSE, reported |-> FALSE, heard |-> FALSE]
  /\ stops = <<>> /\ starts = <<>>

TurnNext ==
  \/ \E n \in 1 .. FrameWindows : \E ws \in [1 .. n -> BOOLEAN] : VadAudio(ws)
  \/ VadWindow \/ VadForward \/ TurnAudio \/ TurnStarted \/ TurnStopped \/ SilenceTick
  \/ \E text, final \in BOOLEAN : Transcript(text, final)
  \/ \E on \in BOOLEAN : BotEdge(on)
  \/ \E c \in ToolCalls, event \in {"CallStarted", "CallResult", "CallCancel"} : CallEvent(c, event)
  \/ \E n \in 0 .. MinWords : WordsHeard(n)

TurnSpec == TurnInit /\ [][TurnNext]_turnVars

-----------------------------------------------------------------------------
(* Properties.                                                             *)

\* Speech begins after StartFrames loud windows in a row and ends after StopFrames quiet
\* ones: a noise or a pause that is shorter changes nothing (VadStateMachine::advance).
EdgesDebounced ==
  [][Len(edges') > Len(edges) =>
       IF edges'[Len(edges')] = "started" THEN run'.loud /\ run'.n >= StartFrames
       ELSE ~ run'.loud /\ run'.n >= StopFrames]_turnVars

\* The edges alternate, whatever the audio: no turn begins twice or ends twice
\* (VadProcessor::drain_windows).
EdgesAlternate ==
  \A k \in DOMAIN edges : edges[k] = (IF k % 2 = 1 THEN "started" ELSE "stopped")

\* A turn is ended by what came since the caller last began to speak: a final transcript
\* or the whole wait for it, and a report of the analyzer or the whole silence. What the
\* strategy had gathered in an earlier pause does not count (TurnAnalyzerStop,
\* SpeechTimeoutStop). What the report is about is another matter: see VerdictLags.
TurnStopEarned == \A k \in DOMAIN stops : stops[k]

\* A report of a complete turn is never about the words it is sent with: while the caller
\* speaks every analyzed window withdraws the verdict, so one that still stands at the
\* stop edge is of the silence before the caller began, and no window of what was said
\* since has been looked at (TurnProcessor: last_prediction is not reset by the edges).
VerdictLags == turnVad = "Speaking" /\ prediction => ~ since.heard

\* A word of assent does not take the floor from the bot: the first turn that starts over
\* an utterance has MinWords. The strategy's reset lifts the floor for the rest of that
\* utterance, should the bot speak on (MinWordsTurnStart).
FloorKept == \A k \in DOMAIN starts : starts[k].over => starts[k].words >= MinWords

\* The caller is muted for as long as the strategy's reason lasts and no longer, over
\* any order of results and cancellations, late and repeated ones too, of overlapping
\* calls (MuteStrategy).
MuteMatches ==
  CASE turnCase.mute = "calls" -> Muted <=> floor.live # {}
    [] turnCase.mute = "untilFirst" -> Muted <=> ~ floor.spoken
    [] turnCase.mute = "first" -> Muted <=> floor.bot /\ ~ floor.spoken
    [] OTHER -> TRUE

\* Who has the floor follows from what was heard: edges alternate, a stop is earned since the
\* last start, a verdict that is reported is of the silence before, the first start over the
\* bot's speech needs its words, and a mute has its reason.
TurnsEarned == EdgesAlternate /\ TurnStopEarned /\ VerdictLags /\ FloorKept /\ MuteMatches
=============================================================================
