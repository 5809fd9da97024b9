----------------------------- MODULE AgentStages -----------------------------
(***************************************************************************)
(* The stages of flowcat_core::agent: the sentence aggregators between the *)
(* language model and the synthesizer, the wake-word gate, the voicemail   *)
(* detector, the menu navigator and the function-call filter. A behaviour  *)
(* runs one of them. Text is a sequence of numbered characters of a few    *)
(* classes (delimiters are one character), so that a lost, repeated or     *)
(* overtaken character can be told from the rest.                          *)
(***************************************************************************)
EXTENDS Integers, Sequences, SequencesExt, FiniteSetsExt

CONSTANTS
  MaxText,    \* bound: characters fed to an aggregator
  Speakers,   \* users of the wake gate
  MaxHeard,   \* bound: transcripts, VAD events or calls fed to a stage
  Keepalive,  \* the wake gate's window, in ticks
  LongTurn,   \* voicemail: words (or seconds) of a long first turn
  Scripts,    \* menu scripts: [steps: sequences of triggers, stuckAfter]
  RequiredArg \* functions whose calls need their argument

Aggregators == {"simple", "skip", "remove", "keep", "aggregate"}
TextClasses == {"a", "1", ".", " ", "<", ">"}
WakePhrase == <<"hey", "bot">>
\* A dotted word is longer in lower case than it is written (as with U+0130), a Kelvin word
\* shorter (as with U+212A).
Utterances == {<<"hey">>, <<"bot", "call">>, <<"call", "hey">>, <<"hey", "bot">>, <<"dotted">>, <<"kelvin">>}
Functions1 == {"lookup", "book"}
Allowed == {"lookup", "book"}
Calls1 == [fn : Functions1 \union {"shell"}, arg : {"none", "x"}]

AgentAssumption ==
  /\ {MaxText, MaxHeard, Keepalive, LongTurn} \subseteq Nat
  /\ RequiredArg \subseteq Functions1
  /\ \A s \in Scripts : s.stuckAfter \in Nat

VARIABLES
  agentStage, \* the stage under study, with its configuration
  agent,      \* its state
  emitted,    \* what it pushed, of the current response for an aggregator
  said,       \* what it was fed (history; of the current response for an aggregator)
  fed,        \* items fed so far
  overNow     \* the response has ended

agentVars == <<agentStage, agent, emitted, said, fed, overNow>>

-----------------------------------------------------------------------------
(* Aggregators: the state is the buffer, needs_lookahead and inside.       *)

Punctuation == {"."}
ClassAt(buf, i) == IF i \in DOMAIN buf THEN buf[i].class ELSE ""
SplitsNumber(buf, i) == ClassAt(buf, i - 1) = "1" /\ ClassAt(buf, i + 1) = "1"

\* The position just past the last sentence end, or 0.
MatchEndOfSentence(buf) ==
  LET ends == {i \in DOMAIN buf : buf[i].class \in Punctuation /\ ~ SplitsNumber(buf, i)} IN
  IF ends = {} THEN 0
  ELSE Max({e \in Max(ends) .. Len(buf) :
              \A i \in Max(ends) .. e : buf[i].class \in Punctuation})

Blank(c) == c.class = " "
\* trim_matches(' ')
Trim(text) ==
  LET solid == {i \in DOMAIN text : ~ Blank(text[i])} IN
  IF solid = {} THEN <<>> ELSE SubSeq(text, Min(solid), Max(solid))

NonEmpty(text) == IF text = <<>> THEN <<>> ELSE <<text>>

\* check_sentence_with_lookahead: the aggregator after character c and what it releases.
CheckSentence(a, c) ==
  LET m == MatchEndOfSentence(a.buf) IN
  CASE ~ a.look ->
         [next |-> [a EXCEPT !.look = a.buf # <<>> /\ Last(a.buf).class \in Punctuation], out |-> <<>>]
    [] a.look /\ (Blank(c) \/ m = 0) ->
         [next |-> [a EXCEPT !.look = Blank(c)], out |-> <<>>]
    [] OTHER ->
         [next |-> [a EXCEPT !.look = FALSE, !.buf = SubSeq(@, m + 1, Len(@))],
          out |-> NonEmpty(Trim(SubSeq(a.buf, 1, m)))]

CountOf(buf, class) == Cardinality({i \in DOMAIN buf : buf[i].class = class})
\* update_tag_state, incomplete_pattern
TagOpen(buf) == CountOf(buf, "<") > CountOf(buf, ">")

\* SkipTagsAggregator::aggregate, for one character
SkipChar(a, c) == IF TagOpen(a.buf) THEN [next |-> a, out |-> <<>>] ELSE CheckSentence(a, c)

\* The first delimiter and the first closing one after it.
PairStart(buf) == Min({i \in DOMAIN buf : buf[i].class = "<"})
PairEnds(buf) == IF CountOf(buf, "<") = 0 THEN {}
                 ELSE {i \in DOMAIN buf : i > PairStart(buf) /\ buf[i].class = ">"}
Content(buf) == Trim(SubSeq(buf, PairStart(buf) + 1, Min(PairEnds(buf)) - 1))
WithPair(buf, text) ==
  SubSeq(buf, 1, PairStart(buf) - 1) \o text \o SubSeq(buf, Min(PairEnds(buf)) + 1, Len(buf))

\* aggregate_matches and process_complete_patterns, for one character. A buffer that is
\* searched after every character holds one complete pair at most.
PatternChar(mode, a, c) ==
  LET rest == IF PairEnds(a.buf) = {} THEN a.buf
              ELSE WithPair(a.buf, IF mode = "keep" THEN Content(a.buf) ELSE <<>>)
      b == [a EXCEPT !.buf = rest] IN
  CASE mode = "aggregate" /\ PairEnds(a.buf) # {} -> [next |-> b, out |-> NonEmpty(Content(a.buf))]
    [] TagOpen(rest) -> [next |-> b, out |-> <<>>]
    [] OTHER -> CheckSentence(b, c)

AfterChar(a, c) ==
  CASE agentStage.kind = "simple" -> CheckSentence(a, c)
    [] agentStage.kind = "skip" -> SkipChar(a, c)
    [] OTHER -> PatternChar(agentStage.kind, a, c)

NewAggregator == [buf |-> <<>>, look |-> FALSE]
Fresh(s) == IF overNow THEN <<>> ELSE s

\* TextAggregatorProcessor on a character of LlmText or Text.
AggregateChar(class) ==
  /\ agentStage.kind \in Aggregators /\ fed < MaxText
  /\ LET c == [class |-> class, n |-> fed]
         r == AfterChar([agent EXCEPT !.buf = Append(@, c)], c) IN
     /\ agent' = r.next
     /\ emitted' = Fresh(emitted) \o r.out
     /\ said' = Append(Fresh(said), c)
  /\ fed' = fed + 1 /\ overNow' = FALSE
  /\ UNCHANGED agentStage

\* LlmResponseEnd: flush.
FlushTail ==
  /\ agentStage.kind \in Aggregators /\ ~ overNow
  /\ emitted' = emitted \o NonEmpty(Trim(agent.buf))
  /\ agent' = NewAggregator /\ overNow' = TRUE
  /\ UNCHANGED <<agentStage, said, fed>>

\* on_interruption: reset. The response is over; nothing of it may be spoken any more.
InterruptText ==
  /\ agentStage.kind \in Aggregators
  /\ agent' = NewAggregator /\ overNow' = FALSE /\ emitted' = <<>> /\ said' = <<>>
  /\ UNCHANGED <<agentStage, fed>>

-----------------------------------------------------------------------------
(* WakeCheckFilter: per speaker, awake or idle, the time of the last word  *)
(* that passed and the words withheld. An item fed is [who, words, at],    *)
(* with the words of a speaker numbered; an item let through has the bytes *)
(* of its words, each numbered by word and place.                          *)

ByteNo(n, b) == 4 * n + b
\* A word is two bytes with its separator, and three where one spelling is longer.
Bytes(w) == IF w.class = "kelvin" THEN 3 ELSE 2
LowerBytes(w) == IF w.class = "dotted" THEN 3 ELSE 2
Text(words) == FlattenSeq([i \in DOMAIN words |-> [b \in 1 .. Bytes(words[i]) |-> ByteNo(words[i].n, b)]])
Classes(words) == [i \in DOMAIN words |-> words[i].class]
HeardFrom(u) == FlattenSeq([i \in DOMAIN said |-> IF said[i].who = u THEN said[i].words ELSE <<>>])

\* The positions at which a wake phrase starts.
WakesAt(words) == {i \in 1 .. Len(words) - 1 : SubSeq(Classes(words), i, i + 1) = WakePhrase}

\* match_wake: where the first wake phrase starts, as an offset in the lower-case text.
MatchWake(words) ==
  FoldFunction(+, 0, [i \in 1 .. Min(WakesAt(words)) - 1 |-> LowerBytes(words[i])])

\* The transcript from the wake phrase on: the original text, cut at that offset. (Past its
\* end the slice would panic, which takes more such words than the bound has.)
FromWake(words) == SubSeq(Text(words), MatchWake(words) + 1, Len(Text(words)))

\* Mutant: the words are kept when the gate opens.
HearTranscriptKept(u, classes) ==
  LET p == agent[u]
      words == [i \in DOMAIN classes |-> [class |-> classes[i], n |-> Len(HeardFrom(u)) + i]]
      held == p.withheld \o words
      open == p.awake /\ agent.now - p.since < Keepalive
      Pass(text) == Append(emitted, [who |-> u, text |-> text, at |-> agent.now]) IN
  /\ agentStage.kind = "wake" /\ fed < MaxHeard
  /\ said' = Append(said, [who |-> u, words |-> words, at |-> agent.now])
  /\ CASE open -> /\ agent' = [agent EXCEPT ![u].since = agent.now]
                  /\ emitted' = Pass(Text(words))
       [] ~ open /\ WakesAt(held) = {} ->
            agent' = [agent EXCEPT ![u].awake = FALSE, ![u].withheld = held] /\ UNCHANGED emitted
       [] OTHER ->
            /\ agent' = [agent EXCEPT ![u] = [awake |-> TRUE, since |-> agent.now, withheld |-> held]]
            /\ emitted' = Pass(FromWake(held))
  /\ fed' = fed + 1 /\ UNCHANGED <<agentStage, overNow>>

HearTranscript(u, classes) ==
  LET p == agent[u]
      words == [i \in DOMAIN classes |-> [class |-> classes[i], n |-> Len(HeardFrom(u)) + i]]
      held == p.withheld \o words
      open == p.awake /\ agent.now - p.since < Keepalive
      Pass(text) == Append(emitted, [who |-> u, text |-> text, at |-> agent.now]) IN
  /\ agentStage.kind = "wake" /\ fed < MaxHeard
  /\ said' = Append(said, [who |-> u, words |-> words, at |-> agent.now])
  /\ CASE open -> /\ agent' = [agent EXCEPT ![u].since = agent.now]
                  /\ emitted' = Pass(Text(words))
       [] ~ open /\ WakesAt(held) = {} ->
            agent' = [agent EXCEPT ![u].awake = FALSE, ![u].withheld = held] /\ UNCHANGED emitted
       [] OTHER ->
            /\ agent' = [agent EXCEPT ![u] = [awake |-> TRUE, since |-> agent.now, withheld |-> <<>>]]
            /\ emitted' = Pass(FromWake(held))
  /\ fed' = fed + 1 /\ UNCHANGED <<agentStage, overNow>>

\* Time passes between two transcripts (WakeClock).
WakeTick ==
  /\ agentStage.kind = "wake" /\ agent.now < Keepalive + 1
  /\ agent' = [agent EXCEPT !.now = @ + 1]
  /\ UNCHANGED <<agentStage, emitted, said, fed, overNow>>

-----------------------------------------------------------------------------
(* VoicemailDetector. Every frame passes; what it adds is the decision.    *)

\* decide; first is first_turn after the frame.
Decide(reason, first) ==
  /\ agent' = [agent EXCEPT !.decided = TRUE, !.firstTurn = first]
  /\ emitted' = Append(emitted, reason)

\* Transcription or InterimTranscription of n words, with or without a greeting phrase.
VoicemailWords(n, greeting) ==
  /\ agentStage.kind = "voicemail" /\ fed < MaxHeard /\ ~ agent.decided
  /\ LET long == agent.firstTurn /\ agent.words + n >= LongTurn IN
     \/ greeting /\ Decide("GreetingPhrase", agent.firstTurn)
     \/ ~ greeting /\ long /\ Decide("LongFirstTurn", agent.firstTurn)
     \/ /\ ~ greeting /\ ~ long /\ UNCHANGED emitted
        /\ agent' = [agent EXCEPT !.words = @ + n]
  /\ said' = Append(said, IF greeting THEN "greeting" ELSE "words")
  /\ fed' = fed + 1 /\ UNCHANGED <<agentStage, overNow>>

\* VadUserStartedSpeaking: start_secs is the length of a VAD window.
VoicemailStarted ==
  /\ agentStage.kind = "voicemail" /\ fed < MaxHeard /\ ~ agent.decided
  /\ agent' = [agent EXCEPT !.started = TRUE]
  /\ said' = Append(said, "started")
  /\ fed' = fed + 1 /\ UNCHANGED <<agentStage, emitted, overNow>>

\* VadUserStoppedSpeaking: stop_secs too is the length of a window, however long the caller
\* has spoken, so that the difference that is taken for the turn's length is nothing.
VoicemailStopped(long) ==
  /\ agentStage.kind = "voicemail" /\ fed < MaxHeard /\ ~ agent.decided
  /\ LET dur == 0 IN
     Decide(IF agent.started /\ dur >= LongTurn THEN "LongFirstTurn" ELSE "HumanResponse", FALSE)
  /\ said' = Append(said, IF long THEN "long turn" ELSE "short turn")
  /\ fed' = fed + 1 /\ UNCHANGED <<agentStage, overNow>>

-----------------------------------------------------------------------------
(* IvrNavigator: cursor, unmatched_streak and finished.                    *)

Script == agentStage.script
IvrPrompt(prompt) ==
  /\ agentStage.kind = "ivr" /\ fed < MaxHeard
  /\ said' = Append(said, prompt) /\ fed' = fed + 1
  /\ LET matches == agent.cursor <= Len(Script.steps) /\ prompt = Script.steps[agent.cursor]
         over == agent.cursor = Len(Script.steps)
         stuck == Script.stuckAfter > 0 /\ agent.streak + 1 >= Script.stuckAfter IN
     \/ agent.finished /\ UNCHANGED <<agent, emitted>>
     \/ /\ ~ agent.finished /\ matches
        /\ agent' = [agent EXCEPT !.cursor = @ + 1, !.streak = 0, !.finished = over]
        /\ emitted' = emitted \o <<prompt>> \o (IF over THEN <<"Completed">> ELSE <<>>)
     \/ /\ ~ agent.finished /\ ~ matches
        /\ agent' = [agent EXCEPT !.streak = @ + 1, !.finished = stuck]
        /\ emitted' = emitted \o (IF stuck THEN <<"Stuck">> ELSE <<>>)
  /\ UNCHANGED <<agentStage, overNow>>

-----------------------------------------------------------------------------
(* FunctionCallFilter.                                                     *)

WellFormed(call) == call.fn \in Allowed /\ (call.fn \in RequiredArg => call.arg # "none")
Permits(call, seen) ==
  [ok |-> WellFormed(call) /\ call \notin seen,
   seen |-> IF WellFormed(call) THEN seen \union {call} ELSE seen]

\* A frame of two calls: permits is asked of them in order.
FilterCalls(first, second) ==
  /\ agentStage.kind = "fcalls" /\ fed < MaxHeard
  /\ LET p == Permits(first, agent.seen)
         q == Permits(second, p.seen) IN
     /\ agent' = [seen |-> q.seen]
     /\ emitted' = emitted \o (IF p.ok THEN <<first>> ELSE <<>>) \o (IF q.ok THEN <<second>> ELSE <<>>)
  /\ said' = said \o <<first, second>>
  /\ fed' = fed + 1 /\ UNCHANGED <<agentStage, overNow>>

-----------------------------------------------------------------------------

NewSpeaker == [awake |-> FALSE, since |-> 0, withheld |-> <<>>]
NewStage(kind) ==
  CASE kind \in Aggregators -> NewAggregator
    [] kind = "wake" -> [x \in Speakers \union {"now"} |-> IF x = "now" THEN 0 ELSE NewSpeaker]
    [] kind = "voicemail" -> [words |-> 0, started |-> FALSE, firstTurn |-> TRUE, decided |-> FALSE]
    [] kind = "ivr" -> [cursor |-> 1, streak |-> 0, finished |-> FALSE]
    [] OTHER -> [seen |-> {}]

AgentInit ==
  /\ agentStage \in [kind : Aggregators \union {"wake", "voicemail", "fcalls"}]
                    \union [kind : {"ivr"}, script : Scripts]
  /\ agent = NewStage(agentStage.kind)
  /\ emitted = <<>> /\ said = <<>> /\ fed = 0 /\ overNow = FALSE

Prompts == {"menu", "account", "hold"}
AgentNext ==
  \/ \E class \in TextClasses : AggregateChar(class)
  \/ FlushTail
  \/ InterruptText
  \/ \E u \in Speakers, words \in Utterances : HearTranscript(u, words)
  \/ WakeTick
  \/ \E n \in 1 .. 2, greeting \in BOOLEAN : VoicemailWords(n, greeting)
  \/ VoicemailStarted
  \/ \E long \in BOOLEAN : VoicemailStopped(long)
  \/ \E prompt \in Prompts : IvrPrompt(prompt)
  \/ \E first \in Calls1, second \in Calls1 : FilterCalls(first, second)

-----------------------------------------------------------------------------
(* Properties.                                                             *)

Numbers(text) == [i \in DOMAIN text |-> text[i].n]
\* A character that the stage may drop: a blank, a delimiter of a pattern, and with
\* MatchAction::Remove what stands between two delimiters.
Droppable(i) ==
  \/ Blank(said[i])
  \/ agentStage.kind \in {"remove", "keep", "aggregate"} /\ said[i].class \in {"<", ">"}
  \/ agentStage.kind = "remove" /\ \E s \in 1 .. i, e \in i .. Len(said) :
                                     said[s].class = "<" /\ said[e].class = ">"

\* A response is spoken whole, once and in order, by the time it is flushed, whatever
\* punctuation and delimiters it holds; nothing from before an interruption is spoken
\* after it. Content that MatchAction::Aggregate lifts out may overtake the sentence
\* around it, and nothing else may.
TextKept ==
  agentStage.kind \in Aggregators =>
    LET spoken == Numbers(FlattenSeq(emitted) \o (IF overNow THEN <<>> ELSE agent.buf)) IN
    /\ IsInjective(spoken)
    /\ agentStage.kind # "aggregate" => \A i, j \in DOMAIN spoken : i < j => spoken[i] < spoken[j]
    /\ Range(spoken) \subseteq Range(Numbers(said))
    /\ \A i \in DOMAIN said : said[i].n \in Range(spoken) \/ Droppable(i)

\* A decimal number is never cut at its point, however late its digits arrive.
NumbersWhole ==
  agentStage.kind \in Aggregators =>
    \A s \in DOMAIN emitted, i \in DOMAIN said :
      ~ (SplitsNumber(said, i) /\ said[i].class = "." /\ Last(emitted[s]) = said[i])

Resized(words) == \E i \in DOMAIN words : Bytes(words[i]) # LowerBytes(words[i])
OpensWithWake(e) ==
  \E i \in WakesAt(HeardFrom(e.who)) : e.text # <<>> /\ e.text[1] = ByteNo(HeardFrom(e.who)[i].n, 1)

\* What passes the wake gate either opens with the wake phrase or follows, within the
\* keepalive, something the same speaker was let through with; and what passes of a
\* speaker's words, and then what is withheld of them, was said in that order, each byte
\* once and none left out after the first of each. The opening is exempt for a speaker with a word
\* whose lower case has another length (match_wake).
WakeGated ==
  agentStage.kind = "wake" =>
    /\ \A k \in DOMAIN emitted :
         \/ OpensWithWake(emitted[k]) \/ Resized(HeardFrom(emitted[k].who))
         \/ \E j \in 1 .. k - 1 : /\ emitted[j].who = emitted[k].who
                                  /\ emitted[k].at - emitted[j].at < Keepalive
    /\ \A u \in Speakers :
         LET Let(e) == IF e.who = u THEN e.text ELSE <<>>
             passed == FlattenSeq([k \in DOMAIN emitted |-> Let(emitted[k])]) \o Text(agent[u].withheld) IN
         /\ \A i, j \in DOMAIN passed : i < j => passed[i] < passed[j]
         /\ passed # <<>> => Last(passed) = Last(Text(HeardFrom(u)))
         /\ \A k \in DOMAIN emitted : emitted[k].who = u /\ emitted[k].text # <<>> =>
              \A b \in ToSet(Text(HeardFrom(u))) :
                b >= emitted[k].text[1] /\ b <= Last(emitted[k].text) => b \in ToSet(emitted[k].text)

\* "Trim to the wake phrase" (wakeword.rs:217): what opens the gate opens with the phrase.
\* This does not hold: the offset is one of the lower-case text, the cut one of the original.
WakeTrimmed ==
  agentStage.kind = "wake" =>
    \A k \in DOMAIN emitted :
      \/ OpensWithWake(emitted[k])
      \/ \E j \in 1 .. k - 1 : emitted[j].who = emitted[k].who /\ emitted[k].at - emitted[j].at < Keepalive

\* The far end is classified at most once, and by the end of its first turn.
ClassifiedOnce ==
  agentStage.kind = "voicemail" =>
    /\ Len(emitted) <= 1
    /\ ToSet(said) \intersect {"long turn", "short turn", "greeting"} # {} => Len(emitted) = 1

\* "First-turn speech longer than this is treated as a recorded greeting" (voicemail.rs:86).
\* This does not hold: the VAD's frames do not tell how long the caller has spoken.
LongTurnsTold ==
  agentStage.kind = "voicemail" /\ "long turn" \in ToSet(said) => emitted # <<"HumanResponse">>

\* The navigator plays its script in order, one step for each prompt that asks for it,
\* and ends in one status: Completed when every step was played, Stuck otherwise.
ScriptPlayed ==
  agentStage.kind = "ivr" =>
    LET status == SelectSeq(emitted, LAMBDA e : e \in {"Completed", "Stuck"})
        played == SelectSeq(emitted, LAMBDA e : e \notin {"Completed", "Stuck"}) IN
    /\ IsPrefix(played, Script.steps)
    /\ Len(status) <= 1 /\ (status # <<>> => Last(emitted) = Last(status))
    /\ status = <<"Completed">> <=> played = Script.steps /\ Script.steps # <<>>

\* Of the calls a model makes, each distinct one that is allowed and complete runs
\* exactly once: a refused call never keeps a later good one from running.
CallsRunOnce ==
  agentStage.kind = "fcalls" =>
    IsInjective(emitted) /\ Range(emitted) = {c \in ToSet(said) : WellFormed(c)}

\* "never splits a sentence inside a configured tag pair" (text_filter.rs:178): no
\* sentence released before the response ends has an open tag.
TagsWhole ==
  agentStage.kind = "skip" /\ ~ overNow =>
    \A s \in DOMAIN emitted : ~ \E i \in DOMAIN said, e \in DOMAIN said :
      /\ said[i].class = "<" /\ said[e].class = ">" /\ i < e
      /\ \A k \in 1 .. e - 1 : k # i => said[k].class \notin {"<", ">"}
      /\ i < Max({k \in DOMAIN said : said[k] = Last(emitted[s])})
      /\ e > Max({k \in DOMAIN said : said[k] = Last(emitted[s])})
=============================================================================
