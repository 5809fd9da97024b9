--------------------------- MODULE TtsConnectors ---------------------------
(***************************************************************************)
(* The text-to-speech stage of a cascaded call: TtsProcessor in front of   *)
(* one of the connectors. TtsProcessor hands one utterance at a time to    *)
(* run_tts and pushes what it returns. A connector is a profile (where its *)
(* connection comes from, how an answer is framed) and a decoder. An       *)
(* utterance is its number; a piece of its audio is <<utterance, n>>.      *)
(***************************************************************************)
EXTENDS Integers, Sequences, SequencesExt, FiniteSetsExt

CONSTANTS
  MaxUtterances, \* bound: utterances
  MaxCuts,       \* bound: connections that the provider or the network cuts
  MaxChars       \* INWORLD_MAX_CHARS

ASSUME TtsAssumption == {MaxUtterances, MaxCuts} \subseteq Nat /\ MaxChars \in Nat \ {0}

VARIABLES
  tts,      \* the connector
  missing,  \* the setting it lacks (of key, region, group, secret, base url), or "none"
  ttsConn,  \* "new" (before start), "none", "live", "cut" (closed, not noticed), "closed" or "refused"
  ttsWire,  \* messages of the socket that nobody has read
  utt,      \* utterances begun; the last one is the context id
  ttsRun,   \* "idle", "ack" (waits for init_ack), "read" or "post"
  collected,\* out: the frames of the run in progress
  closeSent,\* closed_sent
  todo,     \* characters of the requests still to be posted
  aired,    \* frames pushed down
  charged,  \* utterances reported as TtsUsage
  failed,   \* utterances that ended as an error
  faults,   \* utterances whose own connection or answer failed (history)
  offered,  \* pieces of audio that the provider sent for an utterance (history)
  cuts      \* connections cut so far

ttsLink == <<ttsConn, ttsWire>>
ttsTurn == <<utt, ttsRun, collected, closeSent, todo>>
ttsReport == <<aired, charged, failed>>
ttsHistory == <<faults, offered, cuts>>
ttsVars == <<tts, missing, ttsLink, ttsTurn, ttsReport, ttsHistory>>

-----------------------------------------------------------------------------
(* Profiles. source: "start" (one socket, opened in start, for the whole   *)
(* call), "lazy" (the same, opened by the first utterance), "fresh" (a     *)
(* socket for every utterance), "handover" (start's socket serves the      *)
(* first utterance, each later one opens its own), "post" (a request for   *)
(* every utterance), "none" (never wired). checks: the settings without    *)
(* which start fails. needs: settings without which a run fails. sized: a  *)
(* long utterance is split over several requests. hangsUp: the provider    *)
(* closes after an utterance.                                              *)

Wired(source, checks) ==
  [source |-> source, checks |-> checks, needs |-> {"key"}, sized |-> FALSE, hangsUp |-> FALSE]

\* eos "flushes + closes": the end-of-stream that ends an utterance ends the socket too.
ElevenLabsTts == [Wired("start", {}) EXCEPT !.hangsUp = TRUE]
DeepgramTts == Wired("start", {})
GradiumTts == Wired("start", {})
ResembleTts == Wired("start", {})
SonioxTts == Wired("start", {})
CartesiaTts == Wired("lazy", {})
RimeTts == Wired("fresh", {})
AsyncAiTts == [Wired("handover", {}) EXCEPT !.hangsUp = TRUE]

AzureTts == Wired("post", {"key", "region"})
CambTts == Wired("post", {"key"})
GoogleTts == Wired("post", {"key"})
HumeTts == Wired("post", {"key"})
InworldTts == [Wired("post", {"key"}) EXCEPT !.sized = TRUE]
MiniMaxTts == Wired("post", {"key", "group"})
MistralTts == Wired("post", {"key"})
OpenAiTts == Wired("post", {"key"})
SarvamTts == Wired("post", {"key"})
SpeechmaticsTts == Wired("post", {"key"})
GroqTts == OpenAiTts
KittenTts == OpenAiTts
SpeachesTts == OpenAiTts
XaiTts == OpenAiTts
AwsPollyTts == Wired("post", {"secret"})
\* start also fetches the speakers.
XttsTts == [Wired("post", {"base url"}) EXCEPT !.needs = {}]
FishTts == Wired("post", {})
LmntTts == Wired("post", {})
NeuphonicTts == Wired("post", {})
SmallestTts == Wired("post", {})
KokoroTts == [Wired("post", {}) EXCEPT !.needs = {"base url"}]
PiperTts == [Wired("post", {}) EXCEPT !.needs = {"base url"}]
NvidiaTts == Wired("none", {})

TtsProfile ==
  [elevenlabs |-> ElevenLabsTts, deepgram |-> DeepgramTts, gradium |-> GradiumTts,
   resemble |-> ResembleTts, soniox |-> SonioxTts, cartesia |-> CartesiaTts,
   rime |-> RimeTts, asyncai |-> AsyncAiTts, azure |-> AzureTts, camb |-> CambTts,
   google |-> GoogleTts, hume |-> HumeTts, inworld |-> InworldTts,
   minimax |-> MiniMaxTts, mistral |-> MistralTts, openai |-> OpenAiTts,
   sarvam |-> SarvamTts, speechmatics |-> SpeechmaticsTts, groq |-> GroqTts,
   kitten |-> KittenTts, speaches |-> SpeachesTts, xai |-> XaiTts,
   aws_polly |-> AwsPollyTts, xtts |-> XttsTts, fish |-> FishTts, lmnt |-> LmntTts,
   neuphonic |-> NeuphonicTts, smallest |-> SmallestTts, kokoro |-> KokoroTts,
   piper |-> PiperTts, nvidia |-> NvidiaTts]

TtsNames == DOMAIN TtsProfile
T == TtsProfile[tts]

-----------------------------------------------------------------------------
(* Decoders of the sockets. A message has a type, a form and, for audio,   *)
(* a piece; what: "audio", "words", "done", "error", "other", "both"       *)
(* (words beside audio) or "final" (audio in the closing message).         *)

Ignore == [do |-> "ignore"]
Audio(m) == [do |-> "audio", piece |-> m.piece]
Words == [do |-> "words"]
Done == [do |-> "done"]
Error == [do |-> "error"]

\* isFinal wins over audio, audio over alignment; there is no error message.
ElevenLabsDecode(m) ==
  IF m.what \in {"done", "final"} THEN Done
  ELSE IF m.what \in {"audio", "both"} THEN Audio(m)
  ELSE IF m.what = "words" THEN Words ELSE Ignore

\* Audio is binary, Flushed closes, warnings are ignored.
DeepgramTtsDecode(m) ==
  IF m.what \in {"audio", "both"} THEN Audio(m) ELSE IF m.what = "done" THEN Done ELSE Ignore

TypedDecode(m, words) ==
  CASE m.what \in {"audio", "both"} -> Audio(m)
    [] m.what = "words" -> IF words THEN Words ELSE Ignore
    [] m.what = "done" -> Done
    [] m.what = "error" -> Error
    [] OTHER -> Ignore

GradiumTtsDecode(m) == TypedDecode(m, TRUE)
\* Timestamps beside audio give way to the audio.
ResembleDecode(m) == TypedDecode(m, TRUE)
SonioxTtsDecode(m) == TypedDecode(m, FALSE)
\* The context id of the message is not looked at.
CartesiaTtsDecode(m) == TypedDecode(m, FALSE)
RimeDecode(m) == TypedDecode(m, TRUE)
\* final and audio only, and final first.
AsyncAiDecode(m) ==
  IF m.what \in {"done", "final"} THEN Done
  ELSE IF m.what \in {"audio", "both"} THEN Audio(m) ELSE Ignore

TtsDecode(m) ==
  CASE tts = "elevenlabs" -> ElevenLabsDecode(m)
    [] tts = "deepgram" -> DeepgramTtsDecode(m)
    [] tts = "gradium" -> GradiumTtsDecode(m)
    [] tts = "resemble" -> ResembleDecode(m)
    [] tts = "soniox" -> SonioxTtsDecode(m)
    [] tts = "cartesia" -> CartesiaTtsDecode(m)
    [] tts = "rime" -> RimeDecode(m)
    [] tts = "asyncai" -> AsyncAiDecode(m)

Answers == {"gradium", "resemble", "soniox", "cartesia", "rime"} \* decode an error

-----------------------------------------------------------------------------
(* Decoders of a response body: a sequence of blocks, each "audio",        *)
(* "noise" (blank, malformed or without audio), "last" (closing block that *)
(* repeats the audio) or a part of a WAV header ("riff", "list").          *)

Pieces(body, kinds) ==
  LET kept == SelectSeq(body, LAMBDA b : b.what \in kinds) IN
  [k \in DOMAIN kept |-> kept[k].piece]

\* strip_wav_header of the http clients: the first 44 bytes.
StripWav(body) == IF body # <<>> /\ body[1].what = "riff" THEN Tail(body) ELSE body
\* strip_wav_header of the tail clients: walks the chunks up to "data".
StripWavChunks(body) ==
  IF body # <<>> /\ body[1].what = "riff"
  THEN SelectSeq(Tail(body), LAMBDA b : b.what # "list") ELSE body

Everything == {"audio", "noise", "last", "list", "riff"}
RawBody(body) == Pieces(body, Everything)
WavBody(body) == Pieces(StripWav(body), Everything)
TailBody(body) == Pieces(StripWavChunks(body), Everything)

HumeBody(body) == Pieces(body, {"audio"})
InworldBody(body) == Pieces(StripWav(body), {"audio"})
\* extra_info marks the closing block, whose audio is not used.
MiniMaxBody(body) == Pieces(body, {"audio"})
MistralBody(body) == Pieces(body, {"audio"})
NeuphonicBody(body) == Pieces(body, {"audio"})
GoogleBody(body) == WavBody(body)
\* The first entry of audios[].
SarvamBody(body) == WavBody(body)

BodyDecode(body) ==
  CASE tts = "hume" -> HumeBody(body)
    [] tts = "inworld" -> InworldBody(body)
    [] tts = "minimax" -> MiniMaxBody(body)
    [] tts = "mistral" -> MistralBody(body)
    [] tts = "neuphonic" -> NeuphonicBody(body)
    [] tts = "google" -> GoogleBody(body)
    [] tts = "sarvam" -> SarvamBody(body)
    [] tts \in {"camb", "groq"} -> WavBody(body)
    [] tts \in {"azure", "openai", "kitten", "speaches", "xai", "speechmatics", "aws_polly"} -> RawBody(body)
    [] tts \in {"fish", "lmnt", "smallest", "kokoro", "piper", "xtts"} -> TailBody(body)

\* split_text: words of the given lengths go into chunks of at most max characters, a
\* space between two; a longer word is cut.
SplitStep(acc, len, max) ==
  LET whole == (len - 1) \div max
      cut == [k \in 1..whole |-> max] \o <<len - whole * max>> IN
  IF len > max THEN [done |-> acc.done \o (IF acc.cur = 0 THEN <<>> ELSE <<acc.cur>>) \o Front(cut),
                     cur |-> Last(cut)]
  ELSE IF acc.cur = 0 THEN [acc EXCEPT !.cur = len]
  ELSE IF acc.cur + 1 + len > max THEN [done |-> Append(acc.done, acc.cur), cur |-> len]
  ELSE [acc EXCEPT !.cur = @ + 1 + len]

TextLength(words) == IF words = <<>> THEN 0 ELSE FoldSeq(LAMBDA w, n : w + n, Len(words) - 1, words)

SplitText(words, max) ==
  IF TextLength(words) <= max THEN <<TextLength(words)>>
  ELSE LET end == FoldLeft(LAMBDA acc, len : SplitStep(acc, len, max), [done |-> <<>>, cur |-> 0], words) IN
       IF end.cur = 0 THEN end.done ELSE Append(end.done, end.cur)

-----------------------------------------------------------------------------
(* The provider: what it answers to utterance u (external). Pieces of an   *)
(* utterance are numbered in the order in which it sends them. After an    *)
(* error it may stop, or send what it had left.                            *)

Message(what, u, n) == [what |-> what, piece |-> <<u, n>>]

Scripts(u) ==
  LET A(n) == Message("audio", u, n)
      M(what) == Message(what, u, 0) IN
  {<<A(1), A(2), M("done")>>, <<M("other"), M("words"), Message("both", u, 1), M("done")>>}
    \union (IF tts \in Answers THEN {<<A(1), M("error")>>, <<A(1), M("error"), A(2), M("done")>>}
            ELSE {<<M("error"), A(1), M("done")>>})
    \union (IF T.hangsUp THEN {<<A(1), Message("final", u, 2)>>} ELSE {})
    \union (IF tts = "asyncai" THEN {<<>>, <<A(1)>>} ELSE {})

\* The pieces among messages or blocks; the one in a closing message is not for playing.
Sounds(msgs) == Len(SelectSeq(msgs, LAMBDA m : m.what \in {"audio", "both"}))
Gathered == Len(SelectSeq(collected, LAMBDA f : f.kind = "audio"))

\* What AsyncAI still sends once its context is closed.
Closing(u) ==
  {<<>>, <<Message("done", u, 0)>>, <<Message("audio", u, Gathered + 1), Message("done", u, 0)>>}

\* The body of the answer to the next request for u.
Bodies(u) ==
  LET A(n) == Message("audio", u, Gathered + n)
      M(what) == Message(what, u, 0) IN
  CASE tts \in {"hume", "inworld", "mistral", "neuphonic"} -> {<<A(1), M("noise"), A(2)>>, <<M("noise")>>}
    [] tts = "minimax" -> {<<A(1), A(2), Message("last", u, Gathered + 1)>>}
    [] tts \in {"google", "sarvam", "camb", "groq"} -> {<<M("riff"), A(1), A(2)>>}
    [] tts \in {"fish", "lmnt", "smallest", "kokoro", "piper", "xtts"} ->
         {<<A(1), A(2)>>, <<M("riff"), A(1)>>, <<M("riff"), M("list"), A(1)>>}
    [] OTHER -> {<<A(1), A(2)>>}

\* Lengths of the words of an utterance.
Texts == {<<1>>, <<2, 1, 2>>, <<1, 2 * MaxChars + 1, 1>>}

-----------------------------------------------------------------------------
(* TtsProcessor.                                                           *)

Context(kind) == <<[kind |-> kind, ctx |-> utt, piece |-> <<>>]>>
Frame(kind, piece) == <<[kind |-> kind, ctx |-> utt, piece |-> piece]>>

\* Mutant: the socket is kept.
DroppedNever == UNCHANGED ttsLink

\* A connector with a socket for each utterance drops it with the utterance.
PerUtterance == T.source \in {"fresh", "handover"}
Dropped == ttsConn' = "none" /\ ttsWire' = <<>>

\* run_tts returned frames: usage first, then the frames, the audio as OutputAudio.
RunOk(frames) ==
  /\ aired' = aired \o Context("started") \o frames \o Context("stopped")
  /\ charged' = charged \union {utt}
  /\ ttsRun' = "idle" /\ collected' = <<>> /\ closeSent' = FALSE /\ todo' = <<>>
  /\ UNCHANGED <<tts, missing, utt, failed>>

\* run_tts returned an error: it is pushed upstream and nothing is charged.
RunErr(u) ==
  /\ failed' = failed \union {u}
  /\ ttsRun' = "idle" /\ collected' = <<>> /\ closeSent' = FALSE /\ todo' = <<>>
  /\ UNCHANGED <<tts, missing, aired, charged>>

TtsStart ==
  /\ ttsConn = "new"
  /\ \/ /\ ttsConn' = "refused"
        /\ missing \in T.checks \/ tts = "xtts" \/ T.source \in {"start", "handover"}
     \/ /\ missing \notin T.checks
        /\ ttsConn' = IF T.source \in {"start", "handover"} THEN "live" ELSE "none"
  /\ UNCHANGED <<tts, missing, ttsWire, ttsTurn, ttsReport, ttsHistory>>

\* The utterance is on the socket and run_tts waits for the answer.
Sent(conn) ==
  /\ ttsConn' = conn
  /\ \E script \in IF conn = "live" THEN Scripts(utt') ELSE {<<>>} :
       /\ ttsWire' = ttsWire \o script
       /\ offered' = [offered EXCEPT ![utt'] = Sounds(script)]
  /\ ttsRun' = "read"
  /\ UNCHANGED <<tts, missing, collected, closeSent, todo, ttsReport, faults, cuts>>

SendFails(conn, fault) ==
  /\ ttsConn' = conn /\ UNCHANGED <<ttsWire, offered, cuts>>
  /\ faults' = IF fault THEN faults \union {utt'} ELSE faults
  /\ RunErr(utt')

SynthesizeOn(conn) ==
  \/ conn = "live" /\ Sent("live")
  \/ conn = "cut" /\ (Sent("cut") \/ SendFails("closed", FALSE))
  \/ conn = "closed" /\ SendFails("closed", FALSE)

\* TtsSpeak (or LlmText): run_tts begins.
Speak ==
  /\ ttsRun = "idle" /\ ttsConn \notin {"new", "refused"} /\ utt < MaxUtterances
  /\ utt' = utt + 1
  /\ CASE T.source = "none" -> SendFails(ttsConn, TRUE)
       [] T.source = "start" -> SynthesizeOn(ttsConn)
       [] T.source = "lazy" ->
            \/ ttsConn = "none" /\ (SynthesizeOn("live") \/ SendFails("none", TRUE))
            \/ ttsConn # "none" /\ SynthesizeOn(ttsConn)
       [] T.source = "fresh" -> SynthesizeOn("live") \/ SendFails("none", TRUE)
       [] T.source = "handover" ->
            \/ ttsConn = "none" /\ SendFails("none", TRUE)
            \/ /\ ttsConn' = IF ttsConn = "none" THEN "live" ELSE ttsConn
               /\ ttsRun' = "ack"
               /\ UNCHANGED <<tts, missing, ttsWire, collected, closeSent, todo, ttsReport, ttsHistory>>
       [] T.source = "post" ->
            IF missing # "none" THEN SendFails(ttsConn, TRUE)
            ELSE /\ \E text \in Texts :
                      todo' = IF T.sized THEN SplitText(text, MaxChars) ELSE <<TextLength(text)>>
                 /\ ttsRun' = "post"
                 /\ UNCHANGED <<tts, missing, ttsLink, collected, closeSent, ttsReport, ttsHistory>>

\* HttpTtsClient::post, or a post of the tail clients.
PostAnswered ==
  /\ ttsRun = "post"
  /\ \E body \in Bodies(utt) :
       LET pieces == BodyDecode(body)
           frames == [k \in DOMAIN pieces |-> [kind |-> "audio", ctx |-> utt, piece |-> pieces[k]]] IN
       /\ offered' = [offered EXCEPT ![utt] = @ + Sounds(body)]
       /\ IF Len(todo) = 1 THEN RunOk(collected \o frames)
          ELSE /\ collected' = collected \o frames /\ todo' = Tail(todo)
               /\ UNCHANGED <<tts, missing, utt, ttsRun, closeSent, ttsReport>>
  /\ UNCHANGED <<ttsLink, faults, cuts>>

PostFails ==
  /\ ttsRun = "post"
  /\ faults' = faults \union {utt} /\ RunErr(utt)
  /\ UNCHANGED <<ttsLink, utt, offered, cuts>>

-----------------------------------------------------------------------------
(* synthesize: the socket is read up to the end of the answer.             *)

Read ==
  /\ ttsRun = "read" /\ ttsWire # <<>>
  /\ LET d == TtsDecode(Head(ttsWire)) IN
     \/ /\ d.do \in {"ignore", "audio", "words"}
        /\ collected' = collected \o
             (CASE d.do = "audio" -> Frame("audio", d.piece)
                [] d.do = "words" -> Frame("text", <<>>)
                [] OTHER -> <<>>)
        /\ ttsWire' = Tail(ttsWire)
        /\ UNCHANGED <<tts, missing, ttsConn, utt, ttsRun, closeSent, todo, ttsReport, ttsHistory>>
     \/ /\ d.do = "done"
        /\ RunOk(collected)
        /\ IF PerUtterance THEN Dropped
           ELSE ttsWire' = Tail(ttsWire) /\ ttsConn' = IF T.hangsUp THEN "cut" ELSE ttsConn
        /\ UNCHANGED ttsHistory
     \/ /\ d.do = "error"
        /\ RunErr(utt) /\ faults' = faults \union {utt}
        /\ IF PerUtterance THEN Dropped ELSE ttsWire' = Tail(ttsWire) /\ UNCHANGED ttsConn
        /\ UNCHANGED <<utt, offered, cuts>>

\* A Close or a read error ends the utterance like a done does.
ReadClosed ==
  /\ ttsRun = "read" /\ ttsWire = <<>> /\ ttsConn \in {"cut", "closed"}
  /\ RunOk(collected)
  /\ IF PerUtterance THEN Dropped ELSE ttsConn' = "closed" /\ UNCHANGED ttsWire
  /\ UNCHANGED ttsHistory

\* AsyncAI: init_ack, then the text is sent; on a socket that has been cut since, the send
\* fails or is lost.
InitAck ==
  /\ ttsRun = "ack"
  /\ \/ UNCHANGED utt /\ Sent(ttsConn)
     \/ /\ ttsConn = "cut"
        /\ RunErr(utt) /\ Dropped /\ UNCHANGED <<utt, ttsHistory>>

\* The socket closes before init_ack, or ASYNCAI_ACK_TIMEOUT passes.
NoInitAck ==
  /\ ttsRun = "ack"
  /\ RunErr(utt) /\ faults' = IF ttsConn = "live" THEN faults \union {utt} ELSE faults
  /\ Dropped /\ UNCHANGED <<utt, offered, cuts>>

GotAudio == Gathered > 0

\* ASYNCAI_IDLE_DONE passes without a message: the context is closed once; without any
\* audio, or a second time, the utterance is over.
IdleTimeout ==
  /\ tts = "asyncai" /\ ttsRun = "read" /\ ttsWire = <<>> /\ ttsConn # "closed"
  /\ IF GotAudio /\ ~ closeSent
     THEN \/ /\ closeSent' = TRUE
             /\ \E rest \in IF ttsConn = "live" THEN Closing(utt) ELSE {<<>>} :
                  /\ ttsWire' = rest
                  /\ offered' = [offered EXCEPT ![utt] = @ + Sounds(rest)]
             /\ UNCHANGED <<tts, missing, ttsConn, utt, ttsRun, collected, todo, ttsReport, faults, cuts>>
          \/ /\ ttsConn = "cut"
             /\ RunErr(utt) /\ Dropped /\ UNCHANGED <<utt, ttsHistory>>
     ELSE RunOk(collected) /\ Dropped /\ UNCHANGED ttsHistory

\* ASYNCAI_MAX_WAIT ends the utterance, whatever is still to come.
MaxWait ==
  /\ tts = "asyncai" /\ ttsRun = "read"
  /\ RunOk(collected) /\ Dropped /\ UNCHANGED ttsHistory

\* The provider or the network closes the socket; what was not read may be lost.
CutTts ==
  /\ ttsConn = "live" /\ cuts < MaxCuts
  /\ ttsConn' = "cut" /\ cuts' = cuts + 1
  /\ \E k \in 0..Len(ttsWire) : ttsWire' = SubSeq(ttsWire, 1, k)
  /\ faults' = faults \union {IF ttsRun = "idle" THEN utt + 1 ELSE utt}
  /\ UNCHANGED <<tts, missing, ttsTurn, ttsReport, offered>>

-----------------------------------------------------------------------------

TtsInit ==
  /\ tts \in TtsNames
  /\ missing \in {"none"} \union (IF T.source = "post" THEN T.checks \union T.needs ELSE {})
  /\ ttsConn = "new" /\ ttsWire = <<>>
  /\ utt = 0 /\ ttsRun = "idle" /\ collected = <<>> /\ closeSent = FALSE /\ todo = <<>>
  /\ aired = <<>> /\ charged = {} /\ failed = {}
  /\ faults = {} /\ offered = [u \in 1..MaxUtterances |-> 0] /\ cuts = 0

TtsNext ==
  \/ TtsStart \/ Speak \/ PostAnswered \/ PostFails
  \/ Read \/ ReadClosed \/ InitAck \/ NoInitAck \/ IdleTimeout \/ MaxWait \/ CutTts

\* The stage keeps reading; a request ends; the timers run.
TtsFairness ==
  /\ WF_ttsVars(Read) /\ WF_ttsVars(ReadClosed)
  /\ WF_ttsVars(PostAnswered) /\ WF_ttsVars(NoInitAck) /\ WF_ttsVars(IdleTimeout)

-----------------------------------------------------------------------------
(* Properties.                                                             *)

\* The connector reads an utterance's answer from a socket that it shares with the
\* utterances before it, and one of those failed.
AfterFailure(u) == T.source \in {"start", "lazy"} /\ \E v \in faults : v < u

HeardOf(u) == SelectSeq(aired, LAMBDA f : f.kind = "audio" /\ f.ctx = u)

\* What is played under an utterance's context is that utterance's audio from its first
\* piece on, every piece once and in order, with nothing of another utterance, no closing
\* block and no header; and when no connection failed it is all that the provider sent
\* before its closing message (synthesize, synthesize_one, the decode functions). AsyncAI
\* alone may stop early, for its timers. On a shared socket this is so until an utterance
\* fails: what the provider sends after an error is read as the next utterance's.
OwnAudio ==
  \A u \in 1..utt : ~ AfterFailure(u) =>
    LET heard == HeardOf(u) IN
    /\ \A k \in DOMAIN heard : heard[k].piece = <<u, k>>
    /\ u \in charged \ faults /\ T.source # "handover" => Len(heard) = offered[u]

\* The same without the exception; a provider that goes on after an error breaks it, since
\* neither synthesize nor the decoders look at the context id of a message.
OwnAudioAlways == \A u \in 1..utt : \A k \in DOMAIN HeardOf(u) : HeardOf(u)[k].piece[1] = u

\* No request of a size-limited provider is over its limit, or empty (split_text).
RequestsFit == T.sized => \A k \in DOMAIN todo : todo[k] \in 1..MaxChars

\* With a connection of its own for each utterance, an utterance fails only for a fault
\* of its own: a lost connection does not cost the next one (RimeTts, AsyncAiTts, the
\* http connectors).
FailuresOwn == T.source \in {"fresh", "handover", "post"} => failed \subseteq faults

\* "a failed synth bills nothing": what is charged was heard, at least in part
\* (TtsProcessor::run). A connection that closes before the first audio breaks it.
BilledHeard ==
  \A u \in charged : \E k \in DOMAIN aired : aired[k].ctx = u /\ aired[k].kind = "audio"

\* An utterance ends, with frames or with an error: process_frame, which holds up the
\* whole stage, returns.
RunEnds == ttsRun # "idle" ~> ttsRun = "idle"

\* An utterance is answered by its own audio, asked for in requests the provider takes, and
\* a failure is that of the utterance that failed.
UtterancesOwn == OwnAudio /\ RequestsFit /\ FailuresOwn
=============================================================================
