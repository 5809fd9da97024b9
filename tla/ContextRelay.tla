---------------------------- MODULE ContextRelay ----------------------------
(***************************************************************************)
(* The context relay of a realtime call: when the provider's context is    *)
(* full or its session old, the session is opened again on a prompt that   *)
(* carries the conversation as text, and a detached task summarizes the    *)
(* older turns for the next time. A turn is its number.                    *)
(***************************************************************************)
EXTENDS Integers, FiniteSets

CONSTANTS
  KeepRecent,       \* keep_recent_turns
  MinTurns,         \* min_turns_between
  TriggerAfter,     \* trigger_after_turns, or 0 for None
  MaxTurns, MaxUsages, MaxBases  \* bounds: lines, usage reports, prompts of the brain

ASSUME RelayAssumption ==
  /\ KeepRecent \in Nat /\ MinTurns \in Nat /\ TriggerAfter \in Nat
  /\ MaxTurns \in Nat /\ MaxUsages \in Nat /\ MaxBases \in Nat

VARIABLES
  turns,      \* lines in the transcript
  digest,     \* [covers |-> the turns the summary stands for, through |-> summarized_through]
  jobs,       \* detached compactions: [older, prior, target]
  inFlight,   \* in_flight
  sinceRebase,\* turns_since_compaction
  aged,       \* the session has lived max_session_secs
  base,       \* base_prompt: the number of the brain's latest prompt
  sent,       \* the last prompt sent up: [base, carries, upto]
  usages      \* usage reports so far (bound)

relayVars == <<turns, digest, jobs, inFlight, sinceRebase, aged, base, sent, usages>>

RelayInit ==
  /\ turns = 0 /\ digest = [covers |-> {}, through |-> 0] /\ jobs = {} /\ inFlight = FALSE
  /\ sinceRebase = 0 /\ aged = FALSE /\ base = 0
  /\ sent = [base |-> 0, carries |-> {}, upto |-> 0] /\ usages = 0

\* render_block: the summary, and the lines behind summarized_through verbatim.
RenderBlock(d, n) == d.covers \union (d.through + 1 .. n)

EffectivePrompt(b) == [base |-> b, carries |-> RenderBlock(digest, turns), upto |-> turns]

\* A final line of either speaker.
RelayTurn ==
  /\ turns < MaxTurns /\ turns' = turns + 1
  /\ UNCHANGED <<digest, jobs, inFlight, sinceRebase, aged, base, sent, usages>>

SessionAges ==
  /\ ~ aged /\ aged' = TRUE
  /\ UNCHANGED <<turns, digest, jobs, inFlight, sinceRebase, base, sent, usages>>

\* should_compact, with the counter that the report has already raised.
ShouldCompact(since, full) ==
  /\ ~ inFlight /\ turns > 0
  /\ \/ aged
     \/ /\ since >= MinTurns /\ since >= 1
        /\ full \/ (TriggerAfter > 0 /\ since >= TriggerAfter)

\* fire_compaction: re-base on the digest as it is, then summarize what is older than
\* the turns to keep, if that is more than the digest has.
FireCompaction ==
  LET target == IF turns > KeepRecent THEN turns - KeepRecent ELSE 0 IN
  /\ sinceRebase' = 0 /\ aged' = FALSE
  /\ sent' = EffectivePrompt(base)
  /\ inFlight' = (target > digest.through)
  /\ jobs' = IF target <= digest.through THEN jobs
             ELSE jobs \union {[older |-> 1 .. target, prior |-> digest.covers, target |-> target]}

\* A usage report ends a turn of the provider.
RelayUsage(full) ==
  /\ usages < MaxUsages /\ usages' = usages + 1
  /\ IF ShouldCompact(sinceRebase + 1, full)
     THEN FireCompaction
     ELSE sinceRebase' = sinceRebase + 1 /\ UNCHANGED <<jobs, inFlight, aged, sent>>
  /\ UNCHANGED <<turns, digest, base>>

\* build_context: the prior summary and the new turns.
BuildContext(j) == j.older \union j.prior

\* What a compactor may answer: a summary, or none (the LLM failed, or said nothing).
NoSummary == {}
Compact(j) == IF j.older = {} THEN {NoSummary} ELSE {NoSummary, BuildContext(j)}

\* Mutant of CompactorAnswers: the digest is taken to reach the turns of now.
CompactorAnswersLate(j) ==
  /\ j \in jobs /\ jobs' = jobs \ {j} /\ inFlight' = FALSE
  /\ digest' = [covers |-> j.older \union j.prior,
                through |-> IF turns > KeepRecent THEN turns - KeepRecent ELSE 0]
  /\ UNCHANGED <<turns, sinceRebase, aged, base, sent, usages>>

\* The detached task.
CompactorAnswers(j) ==
  /\ j \in jobs /\ jobs' = jobs \ {j} /\ inFlight' = FALSE
  /\ \E answer \in Compact(j) :
       digest' = IF answer = NoSummary THEN digest ELSE [covers |-> answer, through |-> j.target]
  /\ UNCHANGED <<turns, sinceRebase, aged, base, sent, usages>>

\* The brain's own prompt becomes the base, and goes up with the conversation.
BrainReprompt ==
  /\ base < MaxBases /\ base' = base + 1
  /\ sent' = EffectivePrompt(base + 1)
  /\ UNCHANGED <<turns, digest, jobs, inFlight, sinceRebase, aged, usages>>

RelayNext ==
  \/ RelayTurn \/ SessionAges \/ BrainReprompt
  \/ \E full \in BOOLEAN : RelayUsage(full)
  \/ \E j \in jobs : CompactorAnswers(j)

RelaySpec == RelayInit /\ [][RelayNext]_relayVars

\* The compactor's LLM stream ends.
RelayFairness == WF_relayVars(\E j \in jobs : CompactorAnswers(j))

-----------------------------------------------------------------------------
\* No turn is lost by a refresh: the prompt that a session is opened with carries every
\* turn so far, whatever the compactor has answered since, on the brain's latest base.
PromptCarriesAll == sent.carries = 1 .. sent.upto /\ sent.base = base

\* The digest never goes back to fewer turns, as two compactions at once would make it.
DigestForward == [][digest'.through >= digest.through]_relayVars

\* Compaction does not stay off for the rest of the call.
CompactionFreed == inFlight ~> ~ inFlight
=============================================================================
