--------------------------- MODULE SttConnectors ---------------------------
(***************************************************************************)
(* The speech-to-text stage of a cascaded call: SttProcessor in front of   *)
(* one of the connectors. A connector is a profile (how it opens, what it  *)
(* does while muted, what a failed send leaves behind, how it finds the    *)
(* end of a turn) and the decoder of its messages. A chunk of caller       *)
(* speech is its number, silence is 0, a transcript is the sequence of the *)
(* chunks it stands for.                                                   *)
(***************************************************************************)
EXTENDS Integers, Sequences, SequencesExt, FiniteSetsExt

CONSTANTS
  MaxSttChunks,   \* bound: chunks of audio
  MaxMessages, \* bound: messages of the provider
  MaxDeaths,   \* bound: connections that die
  Window,      \* chunks in a segment of a segmented connector
  Batch,       \* chunks that AssemblyAI collects for one send
  Gap          \* chunks without text that end a turn (TURN_GAP_MS)

SttAssumption ==
  /\ {MaxSttChunks, MaxMessages, MaxDeaths} \subseteq Nat
  /\ {Window, Batch, Gap} \subseteq Nat \ {0}

VARIABLES
  stt,       \* the connector
  sttConn,   \* "new" (before start), "none", "live", "dead" (closed under us) or "failed"
  sttHeard,     \* speech the provider has received and not answered for good (external)
  sttQueue,  \* frames that the reader has decoded
  sttBuf,    \* audio held back: a segment, or AssemblyAI's batch
  turnText, sttQuiet, \* turn_text and quiet_ms (in chunks) of Gradium and NVIDIA
  sttMuted,  \* muted
  sttSaid,      \* final transcripts pushed down
  echo,      \* speech captured while muted
  strikes,   \* failed sends in a row
  tail,      \* the user has stopped speaking and has not spoken since
  chunks, messages, deaths \* how much of each bound is used up

sttIo == <<sttConn, sttHeard, sttQueue>>
sttTurn == <<sttBuf, turnText, sttQuiet>>
sttOut == <<sttSaid, echo, strikes, tail>>
sttUsed == <<chunks, messages, deaths>>
sttVars == <<stt, sttIo, sttTurn, sttMuted, sttOut, sttUsed>>

-----------------------------------------------------------------------------
(* Profiles.                                                               *)

\* lazy: opens with the first chunk, not in start. warm: silence is sent while muted and
\* what comes back is dropped; otherwise a muted chunk is ignored, the queue is not even
\* drained. fail: a failed send is an error or passes quietly, and the connection is
\* dropped (to be opened again), kept, or the failure goes unnoticed. ends: who finds
\* the end of a turn.
Socket(lazy, warm, fail, ends) ==
  [link |-> "socket", lazy |-> lazy, warm |-> warm, fail |-> fail, ends |-> ends,
   batch |-> 1, flush |-> FALSE]

\* A segmented connector has no connection: it posts a window of audio. flush: it
\* implements SttService::flush.
Segmented(flush) ==
  [link |-> "segment", lazy |-> TRUE, warm |-> FALSE, fail |-> "error", ends |-> "provider",
   batch |-> Window, flush |-> flush]

WsSttSession == Socket(TRUE, TRUE, "reopen", "provider")

Deepgram == Socket(TRUE, TRUE, "reopen quietly", "provider")
AssemblyAi == [WsSttSession EXCEPT !.batch = Batch]
Cartesia == WsSttSession
Soniox == WsSttSession
Speechmatics == WsSttSession
Gladia == Socket(TRUE, TRUE, "reopen quietly", "provider")
Gradium == Socket(TRUE, FALSE, "reopen", "gap")
AzureSpeech == Socket(FALSE, FALSE, "keep", "provider")
AwsTranscribe == Socket(FALSE, FALSE, "keep", "provider")
GoogleSpeech == Socket(FALSE, FALSE, "keep", "provider")
Nvidia == Socket(FALSE, FALSE, "ignore", "both")

WhisperHttp == Segmented(FALSE)
GroqStt == WhisperHttp
FalStt == WhisperHttp
SpeachesStt == WhisperHttp
XaiStt == WhisperHttp
\* Their flush is a method of their own, which shadows the trait's and which no caller
\* of the trait reaches.
ElevenLabsStt == Segmented(FALSE)
MistralStt == Segmented(FALSE)
SarvamStt == Segmented(FALSE)
WhisperLocal == Segmented(TRUE)

Connectors ==
  {"deepgram", "assemblyai", "cartesia", "soniox", "speechmatics", "gladia", "gradium",
   "azure", "aws", "google", "nvidia", "openai", "groq", "fal", "speaches", "xai",
   "elevenlabs", "mistral", "sarvam", "whisper_local"}

Profile ==
  [deepgram |-> Deepgram, assemblyai |-> AssemblyAi, cartesia |-> Cartesia,
   soniox |-> Soniox, speechmatics |-> Speechmatics, gladia |-> Gladia,
   gradium |-> Gradium, azure |-> AzureSpeech, aws |-> AwsTranscribe,
   google |-> GoogleSpeech, nvidia |-> Nvidia, openai |-> WhisperHttp,
   groq |-> GroqStt, fal |-> FalStt, speaches |-> SpeachesStt, xai |-> XaiStt,
   elevenlabs |-> ElevenLabsStt, mistral |-> MistralStt, sarvam |-> SarvamStt,
   whisper_local |-> WhisperLocal]

P == Profile[stt]

-----------------------------------------------------------------------------
(* Decoders. A message has a type the connector knows or not, a finality   *)
(* that may be absent, a second condition (AssemblyAI: the turn is         *)
(* formatted; Azure: recognition succeeded) and a text, perhaps empty.     *)

Wire(texts) ==
  [type : {"transcript", "other"}, final : {"true", "false", "absent"}, ok : BOOLEAN,
   text : texts]

Final(t) == [kind |-> "final", text |-> t]
Interim(t) == [kind |-> "interim", text |-> t]
SttTranscript(final, t) ==
  IF t = <<>> THEN <<>> ELSE IF final THEN <<Final(t)>> ELSE <<Interim(t)>>

Known(m, frames) == IF m.type = "transcript" THEN frames ELSE <<>>

DeepgramDecode(m) == Known(m, SttTranscript(m.final = "true", m.text))
AssemblyAiDecode(m) == Known(m, SttTranscript(m.final = "true" /\ m.ok, m.text))
CartesiaDecode(m) == Known(m, SttTranscript(m.final = "true", m.text))
GladiaDecode(m) == Known(m, SttTranscript(m.final = "true", m.text))
\* AddTranscript or AddPartialTranscript; no other message.
SpeechmaticsDecode(m) == IF m.final = "absent" THEN <<>> ELSE Known(m, SttTranscript(m.final = "true", m.text))
\* Segments that are final for the provider, but never the end of a turn.
GradiumDecode(m) == Known(m, SttTranscript(FALSE, m.text))
\* speech.phrase or speech.hypothesis.
AzureDecode(m) ==
  IF m.final = "true" /\ ~ m.ok THEN <<>>
  ELSE IF m.final = "absent" THEN <<>> ELSE Known(m, SttTranscript(m.final = "true", m.text))
\* IsPartial is taken as true when it is absent; an exception ends the reader.
AwsDecode(m) == Known(m, SttTranscript(m.final = "true", m.text))
GoogleDecode(m) == Known(m, SttTranscript(m.final = "true", m.text))
NvidiaDecode(m) == Known(m, SttTranscript(m.final = "true", m.text))

\* Soniox sends tokens: each chunk is one, final or not, and an <end> closes the turn.
EndToken == 0
SonioxTokens(m) ==
  [k \in DOMAIN m.text |-> [text |-> m.text[k], final |-> m.final # "false"]]
    \o (IF m.final = "true" THEN <<[text |-> EndToken, final |-> TRUE]>> ELSE <<>>)

SonioxDecode(m) ==
  LET tokens == IF m.type = "other" THEN <<>> ELSE SonioxTokens(m)
      ends == {k \in DOMAIN tokens : tokens[k].text = EndToken}
      Texts(ks) == [k \in DOMAIN SetToSortSeq(ks, <) |-> tokens[SetToSortSeq(ks, <)[k]].text]
      Before(e) == {k \in DOMAIN tokens \ ends :
                      tokens[k].final /\ k < e /\ \A d \in ends : d < e => d < k}
      open == {k \in DOMAIN tokens \ ends : \A e \in ends : e < k}
      finals == SetToSortSeq({e \in ends : Before(e) # {}}, <) IN
  [k \in DOMAIN finals |-> Final(Texts(Before(finals[k])))]
    \o SttTranscript(FALSE, Texts({k \in open : tokens[k].final})
                            \o Texts({k \in DOMAIN tokens : ~ tokens[k].final}))

\* The Whisper-HTTP, ElevenLabs, Mistral, Sarvam and local Whisper answers hold one text.
WhisperDecode(t) == SttTranscript(TRUE, t)
ElevenLabsDecode(t) == SttTranscript(TRUE, t)
MistralDecode(t) == SttTranscript(TRUE, t)
SarvamDecode(t) == SttTranscript(TRUE, t)
WhisperLocalDecode(t) == SttTranscript(TRUE, t)

SttDecode(m) ==
  CASE stt = "deepgram" -> DeepgramDecode(m)
    [] stt = "assemblyai" -> AssemblyAiDecode(m)
    [] stt = "cartesia" -> CartesiaDecode(m)
    [] stt = "soniox" -> SonioxDecode(m)
    [] stt = "speechmatics" -> SpeechmaticsDecode(m)
    [] stt = "gladia" -> GladiaDecode(m)
    [] stt = "gradium" -> GradiumDecode(m)
    [] stt = "azure" -> AzureDecode(m)
    [] stt = "aws" -> AwsDecode(m)
    [] stt = "google" -> GoogleDecode(m)
    [] stt = "nvidia" -> NvidiaDecode(m)

SegmentDecode(t) ==
  CASE stt = "elevenlabs" -> ElevenLabsDecode(t)
    [] stt = "mistral" -> MistralDecode(t)
    [] stt = "sarvam" -> SarvamDecode(t)
    [] stt = "whisper_local" -> WhisperLocalDecode(t)
    [] OTHER -> WhisperDecode(t)

-----------------------------------------------------------------------------
SttInit ==
  /\ stt \in Connectors /\ sttConn = "new" /\ sttHeard = <<>> /\ sttQueue = <<>>
  /\ sttBuf = <<>> /\ turnText = <<>> /\ sttQuiet = 0 /\ sttMuted = FALSE
  /\ sttSaid = <<>> /\ echo = {} /\ strikes = 0 /\ tail = FALSE
  /\ chunks = 0 /\ messages = 0 /\ deaths = 0

\* SttProcessor::start. A connector that opens here may fail, and with it the pipeline.
SttStart ==
  /\ sttConn = "new"
  /\ sttConn' \in CASE P.lazy -> {"none"}
                    [] P.fail = "ignore" -> {"live", "dead"}  \* it dials in the background
                    [] OTHER -> {"live", "failed"}
  /\ UNCHANGED <<stt, sttHeard, sttQueue, sttTurn, sttMuted, sttOut, sttUsed>>

\* The reader task decodes one message. The provider answers for what it has heard; a
\* final text, and a text of Gradium, is an answer for good.
SttMessage(m) ==
  /\ P.link = "socket" /\ sttConn = "live"
  /\ messages < MaxMessages /\ messages' = messages + 1
  /\ m \in Wire({sttHeard, <<>>})
  /\ sttQueue' = sttQueue \o SttDecode(m)
  /\ sttHeard' = IF m.text # <<>> /\ m.type = "transcript" /\ (m.final = "true" \/ stt = "gradium"
                                   \/ (stt = "soniox" /\ m.final = "absent"))
              THEN <<>> ELSE sttHeard
  /\ UNCHANGED <<stt, sttConn, sttTurn, sttMuted, sttOut, chunks, deaths>>

\* The provider closes an idle socket, or the network goes; a send will notice.
SttDies ==
  /\ P.link = "socket" /\ sttConn = "live" /\ sttConn' = "dead"
  /\ deaths < MaxDeaths /\ deaths' = deaths + 1
  /\ UNCHANGED <<stt, sttHeard, sttQueue, sttTurn, sttMuted, sttOut, chunks, messages>>

-----------------------------------------------------------------------------
(* run_stt.                                                                *)

Speech(pcm) == SelectSeq(pcm, LAMBDA x : x # 0)
Finals(frames) ==
  [k \in DOMAIN SelectSeq(frames, LAMBDA f : f.kind = "final") |->
     SelectSeq(frames, LAMBDA f : f.kind = "final")[k].text]

\* The drained frames, and the end of the turn for those that look for it themselves:
\* Gradium's segments append and NVIDIA's hypotheses replace, until a gap.
TurnEnds ==
  LET texts == [k \in DOMAIN sttQueue |-> sttQueue[k].text]
      finals == Finals(sttQueue)
      interims == SelectSeq(sttQueue, LAMBDA f : f.kind = "interim")
      text == IF P.ends = "gap" THEN turnText \o FlattenSeq(texts)
              ELSE IF interims # <<>> THEN Last(interims).text ELSE turnText
      calm == IF sttQueue = <<>> THEN sttQuiet + 1 ELSE 0 IN
  IF P.ends = "both" /\ finals # <<>>
  THEN /\ sttSaid' = sttSaid \o finals
       /\ turnText' = IF Last(sttQueue).kind = "final" THEN <<>> ELSE Last(sttQueue).text
       /\ sttQuiet' = 0
  ELSE IF text # <<>> /\ calm >= Gap
       THEN sttSaid' = Append(sttSaid, text) /\ turnText' = <<>> /\ sttQuiet' = 0
       ELSE sttSaid' = sttSaid /\ turnText' = text /\ sttQuiet' = calm

Drained ==
  /\ sttQueue' = <<>>
  /\ IF sttMuted THEN UNCHANGED <<sttSaid, turnText, sttQuiet>>
     ELSE IF P.ends = "provider"
     THEN sttSaid' = sttSaid \o Finals(sttQueue) /\ UNCHANGED <<turnText, sttQuiet>>
     ELSE TurnEnds

\* The audio reaches the provider.
SttSent(pcm) ==
  /\ sttConn' = "live" /\ sttHeard' = sttHeard \o Speech(pcm)
  /\ strikes' = 0 /\ Drained

\* The send fails: the connection and what it had decoded are dropped, or both are kept
\* and nothing is drained any more. An error goes upstream and the call goes on.
SttSendFails ==
  /\ strikes' = strikes + 1
  /\ IF P.fail = "keep"
     THEN UNCHANGED <<sttConn, sttHeard, sttQueue, sttSaid, turnText, sttQuiet>>
     ELSE /\ sttConn' = "none" /\ sttHeard' = <<>> /\ sttQueue' = <<>>
          /\ UNCHANGED <<sttSaid, turnText, sttQuiet>>

\* ensure, which may fail, then the send.
SendToProvider(pcm) ==
  CASE sttConn = "none" -> \/ SttSent(pcm)
                           \/ UNCHANGED <<sttConn, sttHeard, sttQueue, sttSaid, turnText, sttQuiet,
                                          strikes>>
    [] sttConn = "live" -> SttSent(pcm)
    [] sttConn = "dead" -> IF P.fail = "ignore"
                           THEN UNCHANGED <<sttConn, sttHeard, strikes>> /\ Drained
                           ELSE SttSendFails

\* One window is posted, unless it is silent: the answer is its text, nothing, or an
\* error, and the window is gone.
PostSegment(pcm) ==
  /\ sttBuf' = <<>>
  /\ \/ sttSaid' = sttSaid \o Finals(SegmentDecode(Speech(pcm)))
     \/ UNCHANGED sttSaid

\* A segmented connector adds to its window and posts the full one.
RunSegment(x) ==
  /\ LET pcm == Append(sttBuf, x) IN
     IF Len(pcm) >= P.batch THEN PostSegment(pcm) ELSE sttBuf' = pcm /\ UNCHANGED sttSaid
  /\ UNCHANGED <<sttIo, turnText, sttQuiet, strikes>>

\* Mutant of MutedAs: the microphone stays open while the bot speaks.
MutedAsIs(x) == x

\* A muted chunk goes out as silence of the same length.
MutedAs(x) == IF sttMuted THEN 0 ELSE x

\* A streaming connector sends the chunk, or silence for it; AssemblyAI sends a batch.
RunSocket(x) ==
  LET pcm == Append(sttBuf, MutedAs(x)) IN
  IF Len(pcm) >= P.batch
  THEN sttBuf' = <<>> /\ SendToProvider(pcm)
  ELSE sttBuf' = pcm /\ Drained /\ UNCHANGED <<sttConn, sttHeard, strikes>>

\* SttProcessor on InputAudio. The caller speaks (a new number) or is silent.
SttChunk(speaks) ==
  /\ sttConn \notin {"new", "failed"}
  /\ chunks < MaxSttChunks /\ chunks' = chunks + 1
  /\ LET x == IF speaks THEN chunks + 1 ELSE 0 IN
     /\ echo' = IF sttMuted /\ speaks THEN echo \union {x} ELSE echo
     /\ IF sttMuted /\ ~ P.warm
        THEN UNCHANGED <<sttIo, sttTurn, sttSaid, strikes>>
        ELSE IF P.link = "segment" THEN RunSegment(x) ELSE RunSocket(x)
     /\ tail' = (tail /\ ~ speaks)
  /\ UNCHANGED <<stt, sttMuted, messages, deaths>>

\* SttMute: Gradium and NVIDIA forget the half turn when they are muted.
SttMute(b) ==
  /\ sttConn \notin {"new", "failed"} /\ b # sttMuted /\ sttMuted' = b
  /\ IF b /\ P.ends # "provider" THEN turnText' = <<>> /\ sttQuiet' = 0 ELSE UNCHANGED <<turnText,
                                                    sttQuiet>>
  /\ UNCHANGED <<stt, sttIo, sttBuf, sttOut, sttUsed>>

\* UserStoppedSpeaking: flush, which only the local Whisper overrides.
SttFlush ==
  /\ sttConn \notin {"new", "failed"} /\ ~ tail /\ tail' = TRUE
  /\ IF P.flush /\ ~ sttMuted /\ sttBuf # <<>> THEN PostSegment(sttBuf) ELSE UNCHANGED <<sttBuf,
                                            sttSaid>>
  /\ UNCHANGED <<stt, sttIo, turnText, sttQuiet, sttMuted, echo, strikes, sttUsed>>

SttNext ==
  \/ SttStart \/ SttDies \/ SttFlush
  \/ \E m \in Wire({sttHeard, <<>>}) : SttMessage(m)
  \/ \E b \in BOOLEAN : SttChunk(b)
  \/ \E b \in BOOLEAN : SttMute(b)

-----------------------------------------------------------------------------
(* Properties.                                                             *)

\* What the bot hears of itself while the caller is muted never becomes a transcript,
\* whatever was buffered, queued or under way when the mute came and went.
NoEcho == \A k \in DOMAIN sttSaid : Range(sttSaid[k]) \intersect echo = {}

\* The caller's words are a turn at most once, and in the order they were spoken, over
\* any number of connections. (NVIDIA's gap closes a turn that the provider may still
\* answer for, and its text comes again.)
WordsOnce ==
  stt # "nvidia" =>
    LET words == FlattenSeq(sttSaid) IN
    \A i, j \in DOMAIN words : i < j => words[i] < words[j]

\* A dead connection costs one chunk: the next one opens a new connection. (Azure, AWS
\* and Google, which open in start, stay on the dead one for the rest of the call.)
OneStrike == P.fail # "keep" => strikes <= 1

\* The end of an utterance leaves no tail behind in a segmented connector.
TailTranscribed == P.link = "segment" /\ tail /\ ~ sttMuted => Speech(sttBuf) = <<>>

\* A turn that a mute has cut off does not come back after it: set_muted drops the half
\* turn "so the next user turn starts clean".
TurnStartsClean ==
  [][P.ends = "gap" /\ Len(sttSaid') > Len(sttSaid)
       => \A word \in Range(Last(sttSaid')) : \A e \in echo : e < word]_sttVars
=============================================================================
