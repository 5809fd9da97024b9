---------------------------- MODULE AudioStages ----------------------------
(***************************************************************************)
(* The audio stages of a call: the speech gate in front of the STT, the    *)
(* noise filter with the resamplers around it, the mixer behind the TTS,   *)
(* and the recorder with its two legs. Each is a machine of its own; they  *)
(* have no state in common. A sample is its number; what a filter does to  *)
(* its value is left out, what it does with its place is not: 0 is a       *)
(* silent sample, and a resampler repeats samples or leaves some out, in   *)
(* whole blocks, behind what its filter holds back.                        *)
(***************************************************************************)
EXTENDS Integers, Sequences, SequencesExt, FiniteSetsExt

CONSTANTS
  PrerollCap,   \* samples of pre-roll
  Block,        \* samples that a resampler takes at once
  Rate,         \* the higher of two rates, in terms of the lower
  Held,         \* samples that a resampler's filter holds back
  FilterFrame,  \* samples that the noise filter takes at once
  SourceLen,    \* samples of the mixer's source
  ChunkSizes,   \* sizes of a chunk of audio
  MaxSamples,   \* bound: samples of each machine
  MaxToggles,   \* bound: edges, toggles and interruptions
  MaxTicks      \* bound: time of a recording

AudioAssumption ==
  /\ PrerollCap \in Nat /\ {Block, Rate, Held, FilterFrame, SourceLen} \subseteq Nat \ {0}
  /\ ChunkSizes \subseteq Nat \ {0}
  /\ MaxSamples \in Nat /\ MaxToggles \in Nat /\ MaxTicks \in Nat

VARIABLES
  gate,       \* SpeechGate: [open, preroll]
  utterances, \* what the STT gets: [from, prior, got] for each opening
  quietFor,   \* samples that came since the gate closed or was interrupted
  filter,     \* AudioFilterProcessor: [on, up, buf, down], up and down its resamplers
  filtered,   \* what it let through
  mixer,      \* MixerProcessor: [on, looping, pos]
  mixed,      \* [sample, source] of each sample sent on; source 0: none
  recording,  \* AudioRecorder: [inbound, outbound, inEnd, outEnd]; a leg has [came, at, samples]
  clock,      \* time since the first push, in samples of the bot's voice
  stage,      \* the machine in play
  samples,    \* samples that it got so far
  toggles     \* edges, toggles and interruptions so far

gateVars == <<gate, utterances, quietFor>>
filterVars == <<filter, filtered>>
mixerVars == <<mixer, mixed>>
recorderVars == <<recording, clock>>
audioVars == <<gateVars, filterVars, mixerVars, recorderVars, stage, samples, toggles>>

\* The next chunk: n samples with their numbers.
Chunk(n) == [k \in 1 .. n |-> samples + k]
ChunkArrives(n) == samples + n <= MaxSamples /\ samples' = samples + n /\ UNCHANGED toggles
Toggled == toggles < MaxToggles /\ toggles' = toggles + 1 /\ UNCHANGED samples

LastOf(s, n) == SubSeq(s, IF Len(s) > n THEN Len(s) - n + 1 ELSE 1, Len(s))

-----------------------------------------------------------------------------
(* SpeechGate.                                                             *)

\* Audio goes on while the gate is open; else its last samples are kept.
GateAudio(n) ==
  /\ ChunkArrives(n)
  /\ IF gate.open
     THEN /\ utterances' = [utterances EXCEPT ![Len(utterances)].got = @ \o Chunk(n)]
          /\ UNCHANGED <<gate, quietFor>>
     ELSE /\ gate' = [gate EXCEPT !.preroll = LastOf(@ \o Chunk(n), PrerollCap)]
          /\ quietFor' = quietFor + n /\ UNCHANGED utterances
  /\ UNCHANGED <<filterVars, mixerVars, recorderVars>>

\* UserStartedSpeaking: the pre-roll goes first. (An open gate has none and stays open.)
GateOpens ==
  /\ ~ gate.open /\ Toggled
  /\ gate' = [open |-> TRUE, preroll |-> <<>>]
  /\ utterances' = Append(utterances, [from |-> samples, prior |-> quietFor, got |-> gate.preroll])
  /\ UNCHANGED <<quietFor, filterVars, mixerVars, recorderVars>>

GateCloses ==
  /\ gate.open /\ Toggled
  /\ gate' = [gate EXCEPT !.open = FALSE] /\ quietFor' = 0
  /\ UNCHANGED <<utterances, filterVars, mixerVars, recorderVars>>

\* on_interruption: what is kept is the bot's echo.
GateInterrupted ==
  /\ Toggled
  /\ gate' = [gate EXCEPT !.preroll = <<>>] /\ quietFor' = 0
  /\ UNCHANGED <<utterances, filterVars, mixerVars, recorderVars>>

-----------------------------------------------------------------------------
(* Resampler and RnnoiseFilter.                                            *)

\* Whole blocks of what was carried over and what is new; the rest is carried over.
InBlocks(carry, s, size) ==
  LET all == carry \o s
      n == (Len(all) \div size) * size
  IN [out |-> SubSeq(all, 1, n), carry |-> SubSeq(all, n + 1, Len(all))]

\* A resampler to the same, the higher or the lower rate. line is what its filter holds
\* back, silence at first, and phase counts what it took since its last output.
Resampler(mode) ==
  [mode |-> mode, carry |-> <<>>, line |-> [k \in 1 .. (IF mode = "same" THEN 0 ELSE Held) |-> 0], phase |-> 0]

\* rubato: samples again and again to the higher rate, one of Rate to the lower.
Convert(r, s) ==
  IF r.mode = "up" THEN [k \in 1 .. Len(s) * Rate |-> s[((k - 1) \div Rate) + 1]]
  ELSE [k \in 1 .. (Len(s) + r.phase) \div Rate |-> s[k * Rate - r.phase]]

\* Resampler::process; equal rates pass through.
Resample(r, s) ==
  IF r.mode = "same" THEN [out |-> s, r |-> r]
  ELSE LET blocks == InBlocks(r.carry, s, Block)
           all == r.line \o blocks.out
           n == Len(blocks.out)
       IN [out |-> Convert(r, SubSeq(all, 1, n)),
           r |-> [r EXCEPT !.carry = blocks.carry, !.line = SubSeq(all, n + 1, Len(all)),
                           !.phase = (@ + n) % Rate]]

\* Up to the filter's rate, filter whole frames, and back.
FilterAudio(n) ==
  /\ ChunkArrives(n)
  /\ IF ~ filter.on THEN filtered' = filtered \o Chunk(n) /\ UNCHANGED filter
     ELSE LET up == Resample(filter.up, Chunk(n))
              frames == InBlocks(filter.buf, up.out, FilterFrame)
              down == Resample(filter.down, frames.out) IN
          /\ filter' = [filter EXCEPT !.up = up.r, !.buf = frames.carry, !.down = down.r]
          /\ filtered' = filtered \o down.out
  /\ UNCHANGED <<gateVars, mixerVars, recorderVars>>

\* FilterEnable with the other value: switching the filter off resets it, which empties its own buffer only.
FilterToggled ==
  /\ Toggled
  /\ filter' = [filter EXCEPT !.on = ~ @, !.buf = IF filter.on THEN <<>> ELSE @]
  /\ UNCHANGED <<filtered, gateVars, mixerVars, recorderVars>>

-----------------------------------------------------------------------------
(* MixerProcessor and SoundfileMixer.                                      *)

\* pos when the chunk begins.
MixFrom(n) == mixer.pos

\* A source that ends begins again, or is silent from then on.
SourceAt(k) ==
  IF mixer.looping THEN ((k - 1) % SourceLen) + 1 ELSE IF k <= SourceLen THEN k ELSE 0

Mix(n) ==
  /\ ChunkArrives(n)
  /\ IF ~ mixer.on
     THEN mixed' = mixed \o [k \in 1 .. n |-> [sample |-> samples + k, source |-> 0]] /\ UNCHANGED mixer
     ELSE /\ mixed' = mixed \o [k \in 1 .. n |-> [sample |-> samples + k, source |-> SourceAt(MixFrom(n) + k)]]
          /\ mixer' = [mixer EXCEPT !.pos =
               IF mixer.looping THEN ((MixFrom(n) + n - 1) % SourceLen) + 1
               ELSE Min({MixFrom(n) + n, SourceLen})]
  /\ UNCHANGED <<gateVars, filterVars, recorderVars>>

MixerToggled ==
  /\ Toggled /\ mixer' = [mixer EXCEPT !.on = ~ @]
  /\ UNCHANGED <<mixed, gateVars, filterVars, recorderVars>>

-----------------------------------------------------------------------------
(* AudioRecorder. The caller's leg has the recording's rate; the bot's has *)
(* the higher rate of its voice and is resampled when the recording is     *)
(* made.                                                                   *)

\* Mutant: a leg goes on where it ended.
PlaceBehind(end) == end

\* At its arrival, but not before the end of what the leg has.
Place(end) == Max({clock, end})

PushInbound(n) ==
  /\ ChunkArrives(n)
  /\ LET at == Place(recording.inEnd) IN
     recording' = [recording EXCEPT !.inbound = Append(@, [came |-> clock, at |-> at, samples |-> Chunk(n)]),
                                    !.inEnd = at + n * Rate]
  /\ UNCHANGED <<clock, gateVars, filterVars, mixerVars>>

PushOutbound(n) ==
  /\ ChunkArrives(n)
  /\ LET at == Place(recording.outEnd) IN
     recording' = [recording EXCEPT !.outbound = Append(@, [came |-> clock, at |-> at, samples |-> Chunk(n)]),
                                    !.outEnd = at + n]
  /\ UNCHANGED <<clock, gateVars, filterVars, mixerVars>>

\* tick: the clock starts with the first push.
RecorderTick ==
  /\ samples > 0 /\ clock < MaxTicks /\ clock' = clock + 1
  /\ UNCHANGED <<recording, gateVars, filterVars, mixerVars, samples, toggles>>

DurationSeconds == Max({recording.inEnd, recording.outEnd})

\* A time as a number of samples of the recording, rounded.
Round(t) == (2 * t + Rate) \div (2 * Rate)

Padded(out, n) == out \o [k \in 1 .. (IF Len(out) < n THEN n - Len(out) ELSE 0) |-> 0]

\* flush: what is carried over, filled up to a block; nothing when there is nothing.
Flushed(r) == IF r.carry = <<>> THEN <<>> ELSE Resample(r, Padded(<<>>, Block - Len(r.carry))).out

\* Silence up to each chunk's place, then what the resampler gives of it; its remainder last.
RenderLeg(leg, mode) ==
  LET Lay(acc, c) ==
        LET given == Resample(acc.r, c.samples)
        IN [out |-> Padded(acc.out, Round(c.at)) \o given.out, r |-> given.r]
      laid == FoldLeft(Lay, [out |-> <<>>, r |-> Resampler(mode)], leg)
  IN laid.out \o Flushed(laid.r)

-----------------------------------------------------------------------------

\* Filters and mixers of every configuration; a machine that is not in play has one.
AudioInit ==
  /\ stage \in {"gate", "filter", "mixer", "recorder"}
  /\ gate = [open |-> FALSE, preroll |-> <<>>] /\ utterances = <<>> /\ quietFor = 0
  /\ \E on \in BOOLEAN, modes \in {<<"same", "same">>, <<"up", "down">>} :
       filter = [on |-> on, up |-> Resampler(modes[1]), buf |-> <<>>, down |-> Resampler(modes[2])]
  /\ mixer \in [on : BOOLEAN, looping : BOOLEAN, pos : {0}]
  /\ stage # "filter" => ~ filter.on /\ filter.up.mode = "same"
  /\ stage # "mixer" => ~ mixer.on /\ ~ mixer.looping
  /\ filtered = <<>> /\ mixed = <<>>
  /\ recording = [inbound |-> <<>>, outbound |-> <<>>, inEnd |-> 0, outEnd |-> 0] /\ clock = 0
  /\ samples = 0 /\ toggles = 0

GateNext == (\E n \in ChunkSizes : GateAudio(n)) \/ GateOpens \/ GateCloses \/ GateInterrupted
FilterNext == (\E n \in ChunkSizes : FilterAudio(n)) \/ FilterToggled
MixerNext == (\E n \in ChunkSizes : Mix(n)) \/ MixerToggled
RecorderNext == (\E n \in ChunkSizes : PushInbound(n) \/ PushOutbound(n)) \/ RecorderTick

AudioNext ==
  /\ UNCHANGED stage
  /\ \/ stage = "gate" /\ GateNext
     \/ stage = "filter" /\ FilterNext
     \/ stage = "mixer" /\ MixerNext
     \/ stage = "recorder" /\ RecorderNext

-----------------------------------------------------------------------------
(* Properties.                                                             *)

Rising(s) == \A j, k \in DOMAIN s : j < k => s[j] < s[k]

\* An utterance is one stretch of the caller's audio, from as much pre-roll as there was:
\* no sample of it is lost, and none is told twice, however openings, closings and
\* interruptions follow each other (SpeechGate).
UtterancesWhole ==
  \A u \in Range(utterances) :
    u.got = [k \in 1 .. Len(u.got) |-> u.from - Min({u.prior, PrerollCap}) + k]

Sounding(s) == SelectSeq(s, LAMBDA k : k # 0)

\* A filter that stays on loses nothing: what came is out, once and in order, or in the
\* buffers on its way, however the chunks divide into blocks and frames; and what comes out
\* stays behind by no more than the buffers hold. At its own rate it keeps the order over
\* any switching, and loses less than a frame each time (RnnoiseFilter, Resampler).
FilterWhole == stage = "filter" =>
  LET all == Sounding(filtered \o filter.down.line \o filter.down.carry \o filter.buf
                        \o filter.up.line \o filter.up.carry)
  IN /\ toggles = 0 =>
          /\ Rising(Sounding(filtered)) /\ Range(all) = 1 .. samples
          /\ \A k \in 1 .. Len(all) - 1 : all[k] <= all[k + 1]
          /\ Rate * (samples - Len(filtered)) <= Rate * Block + FilterFrame + Block
     /\ filter.up.mode = "same" =>
          /\ Rising(filtered \o filter.buf)
          /\ samples - Len(filtered \o filter.buf) <= toggles * (FilterFrame - 1)

\* Nothing from before the filter was switched off comes out later (AudioFilter::reset).
ResetForgets == Rising(filtered)

\* The bot's audio goes on in order whatever is mixed in, and the music goes on where it
\* stopped, over chunks and switching, from its end to its start (SoundfileMixer::mix).
MusicContinues == stage = "mixer" =>
  LET played == SelectSeq(mixed, LAMBDA m : m.source # 0) IN
  /\ [k \in DOMAIN mixed |-> mixed[k].sample] = [k \in 1 .. samples |-> k]
  /\ \A k \in DOMAIN played : played[k].source = ((k - 1) % SourceLen) + 1

\* The samples of chunks i to j.
Amount(leg, i, j) == FoldLeft(LAMBDA n, c : n + Len(c.samples), 0, SubSeq(leg, i, j))

\* When chunk i of a leg is due: as it came, or when what came before it is over.
Due(leg, i, length) ==
  Max({leg[j].came + length * Amount(leg, j, i - 1) : j \in 1 .. i})

\* Samples of chunk i that may still be in the resampler when it is over, and a pause follows it.
Left(leg, i, k) ==
  \E j \in i .. Len(leg) - 1 :
    /\ leg[j + 1].came > Due(leg, j, 1) + Len(leg[j].samples)
    /\ Amount(leg, i, j) - k < Block + Held

\* What is heard of a leg at the lower rate when nothing is lost.
Kept(leg) ==
  LET said == FlattenSeq([i \in DOMAIN leg |-> leg[i].samples])
  IN Sounding(Convert(Resampler("down"), Resampler("down").line \o said))

\* On the recording every sample of the caller is heard when it came to the recorder, or as
\* soon as what came before it is over, and within the duration that is reported. The bot is
\* heard in order and whole but for what the filter of its resampler holds back, not before
\* it spoke, and late by less than a block and the filter however long the call is: the
\* remainders do not add up. What is left in the resampler at a pause is heard after it.
\* The pre-roll comes to the recorder when the gate opens, and is heard that much late.
\* (place, render_leg, duration_seconds.)
RecordingAligned == stage = "recorder" =>
  LET inbound == recording.inbound
      outbound == recording.outbound
      in == RenderLeg(inbound, "same")
      out == RenderLeg(outbound, "down")
      voice == Sounding(out)
      kept == Kept(outbound)
  IN /\ \A i \in DOMAIN inbound : \A k \in DOMAIN inbound[i].samples :
          LET p == Round(Due(inbound, i, Rate)) + k IN p \in DOMAIN in /\ in[p] = inbound[i].samples[k]
     /\ Len(in) = Round(recording.inEnd) /\ Len(in) <= Round(DurationSeconds)
     /\ Rate * Len(out) <= recording.outEnd + Block + Held + Rate
     /\ IsPrefix(voice, kept) /\ Rate * (Len(kept) - Len(voice)) <= Held + Rate
     /\ \A i \in DOMAIN outbound : \A k \in DOMAIN outbound[i].samples : \A p \in DOMAIN out :
          out[p] = outbound[i].samples[k] =>
            LET due == Due(outbound, i, 1) + k - 1 IN
            /\ p >= Round(due)
            /\ Left(outbound, i, k) \/ Rate * (p - 1) < due + Block + Held + Rate

\* Violated: "flushes each resampler's tail at the end so no samples are dropped"
\* (audio/mod.rs:229-234). The filter keeps what it holds back.
RecordingWhole == stage = "recorder" =>
  Sounding(RenderLeg(recording.outbound, "down")) = Kept(recording.outbound)

\* Violated: turns "land where they actually happened" (audio/mod.rs:77-81). The last
\* samples of one sound at the start of the next.
TurnsInPlace == stage = "recorder" =>
  LET out == RenderLeg(recording.outbound, "down") IN
  \A i \in DOMAIN recording.outbound : \A k \in DOMAIN recording.outbound[i].samples :
    \A p \in DOMAIN out : out[p] = recording.outbound[i].samples[k] =>
      Rate * (p - 1) < Due(recording.outbound, i, 1) + k - 1 + Block + Held + Rate
=============================================================================
