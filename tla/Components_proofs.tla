------------------------- MODULE Components_proofs --------------------------
(***************************************************************************)
(* Proofs about components that MCComponents checks side by side: barge-in *)
(* in the duplex cascaded call, for any number of user turns and           *)
(* barge-ins, of text chunks and of audio frames; turn taking, for any     *)
(* thresholds and any audio; RTP media, for any number of packets, losses  *)
(* and reorderings; a carrier's call, for any number of messages, chunks   *)
(* and key presses; and the walk over a conversation graph, for any graph  *)
(* and any calls. Each is proved for its own specification.                *)
(***************************************************************************)
EXTENDS DuplexBargeIn, TurnTaking, RtpMedia, Carriers, GraphBrain, SequenceFacts,
        FiniteSetTheorems, TLAPS

-----------------------------------------------------------------------------
(* DuplexBargeIn.                                                          *)

Kinds == {"LlmContext", "LlmResponseStart", "LlmText", "LlmResponseEnd", "TtsSpeak", "OutputAudio"}
Msgs == [kind : Kinds, run : Nat, turn : Nat]
Streams == [run : Nat, turn : Nat, gen : Nat, left : Seq(Msgs)]

\* How many interruptions have been sent to stage s.
Ahead(s) ==
  CASE s = "llm" -> bargesPassed [] s = "agg" -> seen["llm"]
    [] s = "tts" -> seen["agg"] [] OTHER -> seen["tts"]

\* The messages of q belong to the turns from one to another.
Within(q, from, to) == \A k \in 1 .. Len(q) : from <= q[k].turn /\ q[k].turn <= to

\* The last message of run r, if q has it, is behind; or r can still go on behind q.
Below(q, r) ==
  \A k \in 1 .. Len(q) : q[k].run <= r /\ (q[k].kind = "LlmResponseEnd" => q[k].run < r)
Under(q, r) == \A k \in 1 .. Len(q) : q[k].run < r
Over(q, r) == \A k \in 1 .. Len(q) : r < q[k].run
Ordered(q) ==
  \A j, k \in 1 .. Len(q) :
    j < k => q[j].run <= q[k].run /\ (q[j].kind = "LlmResponseEnd" => q[j].run < q[k].run)
Rising(q) == \A j, k \in 1 .. Len(q) : j < k => q[j].run < q[k].run

DuplexTypes ==
  /\ gen \in Nat /\ bargesPassed \in Nat /\ runs \in Nat
  /\ armed \in Nat /\ cleared \in Nat /\ flushed \in Nat
  /\ barges \in [DuplexStages -> Seq(Nat)] /\ queue \in [DuplexStages -> Seq(Msgs)]
  /\ seen \in [DuplexStages -> Nat]
  /\ llm \in Streams /\ reply \in Seq(Msgs) /\ context \in Seq(Nat) /\ speech \in Seq(Msgs)
  /\ sink \in Msgs \cup {None, Msg("flush", 0, 0)} /\ carrierQueue \in Seq(Nat)
  /\ dead \in BOOLEAN

\* The interruptions in front of a stage are those it has not handled, in order.
Follows(q, from, to) ==
  from <= to /\ Len(q) = to - from /\ \A k \in 1 .. Len(q) : q[k] = from + k
BargesInOrder == \A s \in DuplexStages : Follows(barges[s], seen[s], Ahead(s))

Stamps ==
  /\ bargesPassed <= gen /\ armed <= gen /\ cleared <= gen /\ flushed <= armed
  /\ seen["sink"] <= cleared

\* A stage holds only messages of turns that no interruption it has handled was to silence, and
\* none of a turn whose interruption is still on its way to the stage before it.
TurnsCurrent ==
  /\ Within(queue["llm"], seen["llm"], bargesPassed)
  /\ Within(queue["agg"], seen["agg"], seen["llm"])
  /\ Within(queue["tts"], seen["tts"], seen["agg"])
  /\ Within(queue["sink"], seen["sink"], seen["tts"])
  /\ llm # Idle => Within(llm.left, seen["llm"], seen["llm"])
                   /\ llm.turn = seen["llm"] /\ llm.left # <<>>
  /\ Within(reply, seen["agg"], seen["agg"])
  /\ Within(speech, seen["tts"], seen["tts"])
  /\ sink.kind = "OutputAudio" => sink.turn = seen["sink"]
  /\ sink.kind # "flush" /\ ~ dead =>
       \A k \in 1 .. Len(carrierQueue) : seen["sink"] <= carrierQueue[k]

\* The stream of a completion is of one run, and its end is the last frame.
StreamWhole ==
  \A k \in 1 .. Len(llm.left) :
    llm.left[k].run = llm.run /\ (llm.left[k].kind = "LlmResponseEnd" => k = Len(llm.left))

\* The runs pass the aggregator one after the other, each with its end behind it.
RunsInOrder ==
  /\ Ordered(queue["agg"]) /\ Rising(queue["llm"])
  /\ \A k \in 1 .. Len(queue["llm"]) :
       /\ queue["llm"][k].run <= runs /\ Under(queue["agg"], queue["llm"][k].run)
       /\ llm # Idle => llm.run < queue["llm"][k].run
       /\ reply # <<>> => reply[1].run < queue["llm"][k].run
  /\ \A k \in 1 .. Len(queue["agg"]) : queue["agg"][k].run <= runs
  /\ llm # Idle => llm.run <= runs /\ Below(queue["agg"], llm.run)
  /\ reply # <<>> =>
       /\ reply[1].run <= runs
       /\ \A k \in 1 .. Len(queue["agg"]) : reply[1].run <= queue["agg"][k].run
       /\ llm # Idle =>
            reply[1].run <= llm.run /\ (barges["agg"] # <<>> => reply[1].run < llm.run)

\* A run in the context has nothing more to come.
CommittedRuns ==
  /\ CommittedOnce
  /\ \A k \in 1 .. Len(context) :
       /\ context[k] <= runs /\ Over(queue["agg"], context[k]) /\ Over(queue["llm"], context[k])
       /\ llm # Idle => context[k] < llm.run
       /\ reply # <<>> => context[k] < reply[1].run

DuplexInv ==
  /\ DuplexTypes /\ BargesInOrder /\ Stamps /\ TurnsCurrent
  /\ StreamWhole /\ RunsInOrder /\ CommittedRuns

-----------------------------------------------------------------------------
(* Queues.                                                                 *)

\* One more message.
LEMMA OneMore ==
  ASSUME NEW q \in Seq(Msgs), NEW m \in Msgs
  PROVE  /\ \A a, b : Within(q, a, b) /\ a <= m.turn /\ m.turn <= b => Within(Append(q, m), a, b)
         /\ \A r : Under(q, r) /\ m.run < r => Under(Append(q, m), r)
         /\ \A r : Over(q, r) /\ r < m.run => Over(Append(q, m), r)
         /\ \A r : Below(q, r) /\ m.run <= r /\ (m.kind = "LlmResponseEnd" => m.run < r)
                    => Below(Append(q, m), r)
         /\ Ordered(q) /\ Below(q, m.run) => Ordered(Append(q, m))
         /\ Rising(q) /\ Under(q, m.run) => Rising(Append(q, m))
<1> DEFINE p == Append(q, m)
<1>1. /\ Len(q) \in Nat /\ Len(p) = Len(q) + 1
      /\ \A k \in 1 .. Len(p) :
           \/ k \in 1 .. Len(q) /\ p[k] = q[k]
           \/ k = Len(q) + 1 /\ p[k] = m
  BY AppendAt
<1> HIDE DEF p
<1>2. \A a, b : Within(q, a, b) /\ a <= m.turn /\ m.turn <= b => Within(p, a, b)
  BY <1>1 DEF Within
<1>3. \A r : Under(q, r) /\ m.run < r => Under(p, r)
  BY <1>1 DEF Under
<1>4. \A r : Over(q, r) /\ r < m.run => Over(p, r)
  BY <1>1 DEF Over
<1>5. \A r : Below(q, r) /\ m.run <= r /\ (m.kind = "LlmResponseEnd" => m.run < r) => Below(p, r)
  BY <1>1 DEF Below
<1>6. ASSUME NEW j \in 1 .. Len(p), NEW k \in 1 .. Len(p), j < k
      PROVE  /\ j \in 1 .. Len(q) /\ p[j] = q[j]
             /\ (k \in 1 .. Len(q) /\ p[k] = q[k]) \/ p[k] = m
  <2>1. j # Len(q) + 1 BY <1>1, <1>6
  <2> QED BY <1>1, <2>1
<1>7. Ordered(q) /\ Below(q, m.run) => Ordered(p)
  BY <1>6 DEF Ordered, Below
<1>8. Rising(q) /\ Under(q, m.run) => Rising(p)
  BY <1>6 DEF Rising, Under
<1> QED BY <1>2, <1>3, <1>4, <1>5, <1>7, <1>8 DEF p

\* One message less, and how it stands to the others.
LEMMA OneLess ==
  ASSUME NEW q \in Seq(Msgs), q # <<>>
  PROVE  /\ Tail(q) \in Seq(Msgs) /\ Head(q) \in Msgs
         /\ \A a, b : Within(q, a, b) =>
                       Within(Tail(q), a, b) /\ a <= Head(q).turn /\ Head(q).turn <= b
         /\ \A r : Under(q, r) => Under(Tail(q), r) /\ Head(q).run < r
         /\ \A r : Over(q, r) => Over(Tail(q), r) /\ r < Head(q).run
         /\ \A r : Below(q, r) => /\ Below(Tail(q), r) /\ Head(q).run <= r
                                  /\ Head(q).kind = "LlmResponseEnd" => Head(q).run < r
         /\ Ordered(q) =>
              /\ Ordered(Tail(q))
              /\ \A k \in 1 .. Len(Tail(q)) : Head(q).run <= Tail(q)[k].run
              /\ Head(q).kind = "LlmResponseEnd" => Over(Tail(q), Head(q).run)
         /\ Rising(q) => Rising(Tail(q)) /\ Over(Tail(q), Head(q).run)
<1> DEFINE p == Tail(q)
           h == Head(q)
<1>1. /\ p \in Seq(Msgs) /\ Len(q) \in Nat /\ Len(p) = Len(q) - 1
      /\ h \in Msgs /\ h = q[1] /\ 1 \in 1 .. Len(q)
      /\ \A k \in 1 .. Len(p) : k + 1 \in 1 .. Len(q) /\ p[k] = q[k + 1]
  BY TailAt
<1> HIDE DEF p, h
<1>2. \A a, b : Within(q, a, b) => Within(p, a, b) /\ a <= h.turn /\ h.turn <= b
  BY <1>1 DEF Within
<1>3. \A r : Under(q, r) => Under(p, r) /\ h.run < r
  BY <1>1 DEF Under
<1>4. \A r : Over(q, r) => Over(p, r) /\ r < h.run
  BY <1>1 DEF Over
<1>5. \A r : Below(q, r) => Below(p, r) /\ h.run <= r /\ (h.kind = "LlmResponseEnd" => h.run < r)
  BY <1>1 DEF Below
<1>6. \A j, k \in 1 .. Len(p) : j < k =>
         j + 1 \in 1 .. Len(q) /\ k + 1 \in 1 .. Len(q) /\ j + 1 < k + 1
  BY <1>1
<1>7. \A k \in 1 .. Len(p) : k + 1 \in 1 .. Len(q) /\ 1 < k + 1
  BY <1>1
<1>8. Ordered(q) => /\ Ordered(p) /\ \A k \in 1 .. Len(p) : h.run <= p[k].run
                    /\ h.kind = "LlmResponseEnd" => Over(p, h.run)
  BY <1>1, <1>6, <1>7 DEF Ordered, Over
<1>9. Rising(q) => Rising(p) /\ Over(p, h.run)
  BY <1>1, <1>6, <1>7 DEF Rising, Over
<1> QED BY <1>1, <1>2, <1>3, <1>4, <1>5, <1>8, <1>9 DEF p, h

\* An empty queue has no message out of place.
LEMMA NoMessages ==
  /\ <<>> \in Seq(Msgs) /\ Ordered(<<>>) /\ Rising(<<>>)
  /\ \A a, b : Within(<<>>, a, b)
  /\ \A r : Under(<<>>, r) /\ Over(<<>>, r) /\ Below(<<>>, r)
<1>1. Len(<<>>) = 0 /\ 1 .. 0 = {} OBVIOUS
<1> QED BY <1>1 DEF Ordered, Rising, Within, Under, Over, Below

\* The frames of a completion: of the run and the turn of its context, and with one end.
LEMMA ResponseIs ==
  ASSUME NEW m \in Msgs
  PROVE  /\ Response(m) \in Seq(Msgs) /\ Response(m) # <<>>
         /\ \A k \in 1 .. Len(Response(m)) :
              /\ Response(m)[k].run = m.run /\ Response(m)[k].turn = m.turn
              /\ Response(m)[k].kind = "LlmResponseEnd" => k = Len(Response(m))
<1> DEFINE a == <<Msg("LlmResponseStart", m.run, m.turn)>>
           b == [k \in 1 .. TextChunks |-> Msg("LlmText", m.run, m.turn)]
           c == <<Msg("LlmResponseEnd", m.run, m.turn)>>
<1>1. \A kind \in Kinds : Msg(kind, m.run, m.turn) \in Msgs
  BY DEF Msg, Msgs
<1>2. a \in Seq(Msgs) /\ Len(a) = 1 /\ a[1] = Msg("LlmResponseStart", m.run, m.turn)
  BY <1>1 DEF Kinds
<1>3. c \in Seq(Msgs) /\ Len(c) = 1 /\ c[1] = Msg("LlmResponseEnd", m.run, m.turn)
  BY <1>1 DEF Kinds
<1>4. b \in Seq(Msgs) /\ Len(b) = TextChunks
      /\ \A k \in 1 .. TextChunks : b[k] = Msg("LlmText", m.run, m.turn)
  BY <1>1, DuplexAssumption DEF Kinds
<1>5. Response(m) = (a \o b) \o c BY DEF Response
<1> HIDE DEF a, b, c
<1> DEFINE ab == a \o b
<1>6. /\ ab \in Seq(Msgs) /\ Len(ab) = 1 + TextChunks
      /\ \A k \in 1 .. 1 + TextChunks : ab[k] = IF k <= 1 THEN a[k] ELSE b[k - 1]
  <2>1. /\ a \o b \in Seq(Msgs) /\ Len(a \o b) = Len(a) + Len(b)
        /\ \A k \in 1 .. Len(a) + Len(b) :
             (a \o b)[k] = IF k <= Len(a) THEN a[k] ELSE b[k - Len(a)]
    BY <1>2, <1>4, ConcatProperties
  <2> QED BY <1>2, <1>4, <2>1
<1> HIDE DEF ab
<1>7. \A k \in 1 .. 1 + TextChunks :
        \/ ab[k] = Msg("LlmResponseStart", m.run, m.turn)
        \/ ab[k] = Msg("LlmText", m.run, m.turn)
  <2> SUFFICES ASSUME NEW k \in 1 .. 1 + TextChunks
               PROVE  \/ ab[k] = Msg("LlmResponseStart", m.run, m.turn)
                      \/ ab[k] = Msg("LlmText", m.run, m.turn)
    OBVIOUS
  <2>1. CASE k = 1 BY <1>2, <1>6, <2>1
  <2>2. CASE k # 1
    <3>1. k - 1 \in 1 .. TextChunks /\ ~ (k <= 1) BY <2>2, DuplexAssumption
    <3> QED BY <1>4, <1>6, <3>1
  <2> QED BY <2>1, <2>2
<1> DEFINE r == ab \o c
<1>8. /\ r \in Seq(Msgs) /\ Len(r) = TextChunks + 2
      /\ \A k \in 1 .. TextChunks + 2 : r[k] = IF k <= TextChunks + 1 THEN ab[k] ELSE c[k - (TextChunks + 1)]
  <2>1. Len(ab) + Len(c) = TextChunks + 2 BY <1>3, <1>6, DuplexAssumption
  <2>2. /\ ab \o c \in Seq(Msgs) /\ Len(ab \o c) = Len(ab) + Len(c)
        /\ \A k \in 1 .. Len(ab) + Len(c) :
             (ab \o c)[k] = IF k <= Len(ab) THEN ab[k] ELSE c[k - Len(ab)]
    BY <1>3, <1>6, ConcatProperties
  <2>3. Len(ab) = TextChunks + 1 BY <1>6, DuplexAssumption
  <2> QED BY <2>1, <2>2, <2>3
<1> HIDE DEF r
<1>9. ASSUME NEW k \in 1 .. Len(r)
      PROVE  /\ r[k].run = m.run /\ r[k].turn = m.turn
             /\ r[k].kind = "LlmResponseEnd" => k = Len(r)
  <2>1. CASE k <= TextChunks + 1
    <3>1. k \in 1 .. 1 + TextChunks /\ r[k] = ab[k] BY <1>8, <2>1, DuplexAssumption
    <3> QED BY <1>7, <3>1 DEF Msg
  <2>2. CASE k > TextChunks + 1
    <3>1. k = Len(r) /\ k - (TextChunks + 1) = 1 BY <1>8, <2>2, DuplexAssumption
    <3>2. r[k] = c[1] BY <1>8, <2>2, <3>1, DuplexAssumption
    <3> QED BY <1>3, <3>1, <3>2 DEF Msg
  <2> QED BY <1>8, <2>1, <2>2, DuplexAssumption
<1>10. r # <<>>
  <2>1. Len(<<>>) = 0 OBVIOUS
  <2> QED BY <1>8, <2>1, DuplexAssumption
<1> QED BY <1>5, <1>8, <1>9, <1>10 DEF r, ab

-----------------------------------------------------------------------------
(* Interruptions.                                                          *)

\* One more interruption is sent to a stage.
LEMMA FollowsMore ==
  ASSUME NEW q \in Seq(Nat), NEW a \in Nat, NEW b \in Nat, Follows(q, a, b)
  PROVE  Append(q, b + 1) \in Seq(Nat) /\ Follows(Append(q, b + 1), a, b + 1)
<1> DEFINE p == Append(q, b + 1)
<1>1. /\ p \in Seq(Nat) /\ Len(q) \in Nat /\ Len(p) = Len(q) + 1
      /\ \A k \in 1 .. Len(p) :
           \/ k \in 1 .. Len(q) /\ p[k] = q[k]
           \/ k = Len(q) + 1 /\ p[k] = b + 1
  BY AppendAt
<1> HIDE DEF p
<1>2. Len(q) = b - a /\ a <= b /\ \A k \in 1 .. Len(q) : q[k] = a + k BY DEF Follows
<1>3. ASSUME NEW k \in 1 .. Len(p) PROVE p[k] = a + k
  <2>1. CASE k \in 1 .. Len(q) /\ p[k] = q[k] BY <1>2, <2>1
  <2>2. CASE k = Len(q) + 1 /\ p[k] = b + 1 BY <1>2, <2>2
  <2> QED BY <1>1, <2>1, <2>2
<1> QED BY <1>1, <1>2, <1>3 DEF Follows, p

\* A stage handles the next one.
LEMMA FollowsLess ==
  ASSUME NEW q \in Seq(Nat), NEW a \in Nat, NEW b \in Nat, Follows(q, a, b), q # <<>>
  PROVE  /\ Head(q) = a + 1 /\ a + 1 <= b
         /\ Tail(q) \in Seq(Nat) /\ Follows(Tail(q), a + 1, b)
<1> DEFINE p == Tail(q)
<1>1. /\ p \in Seq(Nat) /\ Len(q) \in Nat /\ Len(p) = Len(q) - 1
      /\ Head(q) = q[1] /\ 1 \in 1 .. Len(q)
      /\ \A k \in 1 .. Len(p) : k + 1 \in 1 .. Len(q) /\ p[k] = q[k + 1]
  BY TailAt
<1> HIDE DEF p
<1>2. Len(q) = b - a /\ a <= b /\ \A k \in 1 .. Len(q) : q[k] = a + k BY DEF Follows
<1>3. Head(q) = a + 1 /\ a + 1 <= b BY <1>1, <1>2
<1>4. \A k \in 1 .. Len(p) : p[k] = (a + 1) + k BY <1>1, <1>2
<1> QED BY <1>1, <1>2, <1>3, <1>4 DEF Follows, p

\* The four stages and how many interruptions each has been sent.
LEMMA AheadIs ==
  ASSUME DuplexTypes
  PROVE  /\ Ahead("llm") = bargesPassed /\ Ahead("agg") = seen["llm"]
         /\ Ahead("tts") = seen["agg"] /\ Ahead("sink") = seen["tts"]
         /\ \A s \in DuplexStages : Ahead(s) \in Nat
         /\ After["llm"] = "agg" /\ After["agg"] = "tts" /\ After["tts"] = "sink"
  BY DEF Ahead, DuplexTypes, DuplexStages, After

\* What a stage does with an interruption.
LEMMA InterruptedIs ==
  ASSUME DuplexTypes, BargesInOrder, NEW s \in DuplexStages, Interrupted(s)
  PROVE  /\ seen' \in [DuplexStages -> Nat] /\ queue' \in [DuplexStages -> Seq(Msgs)]
         /\ barges' \in [DuplexStages -> Seq(Nat)]
         /\ seen'[s] = seen[s] + 1 /\ seen[s] + 1 <= Ahead(s) /\ queue'[s] = <<>>
         /\ Follows(barges'[s], seen[s] + 1, Ahead(s))
         /\ \A t \in DuplexStages \ {s} :
              /\ seen'[t] = seen[t] /\ queue'[t] = queue[t]
              /\ barges'[t] = IF s # "sink" /\ t = After[s] THEN Append(barges[t], seen[s] + 1)
                              ELSE barges[t]
<1>1. barges[s] \in Seq(Nat) /\ seen[s] \in Nat /\ Ahead(s) \in Nat /\ barges[s] # <<>>
  BY AheadIs DEF DuplexTypes, Interrupted
<1>2. /\ Head(barges[s]) = seen[s] + 1 /\ seen[s] + 1 <= Ahead(s)
      /\ Tail(barges[s]) \in Seq(Nat) /\ Follows(Tail(barges[s]), seen[s] + 1, Ahead(s))
  BY <1>1, FollowsLess DEF BargesInOrder
<1>3. seen' = [seen EXCEPT ![s] = seen[s] + 1] /\ queue' = [queue EXCEPT ![s] = <<>>]
  BY <1>2 DEF Interrupted
<1>4. /\ seen' \in [DuplexStages -> Nat] /\ seen'[s] = seen[s] + 1
      /\ \A t \in DuplexStages \ {s} : seen'[t] = seen[t]
  BY <1>1, <1>3 DEF DuplexTypes
<1>5. /\ queue' \in [DuplexStages -> Seq(Msgs)] /\ queue'[s] = <<>>
      /\ \A t \in DuplexStages \ {s} : queue'[t] = queue[t]
  BY <1>3, NoMessages DEF DuplexTypes
<1>6. barges' = [t \in DuplexStages |->
         IF t = s THEN Tail(barges[t])
         ELSE IF s # "sink" /\ t = After[s] THEN Append(barges[t], seen[s] + 1) ELSE barges[t]]
  BY <1>2 DEF Interrupted
<1>7. \A t \in DuplexStages : Append(barges[t], seen[s] + 1) \in Seq(Nat)
  BY <1>1, AppendProperties DEF DuplexTypes
<1>8. barges' \in [DuplexStages -> Seq(Nat)]
  BY <1>2, <1>6, <1>7 DEF DuplexTypes
<1> QED BY <1>2, <1>4, <1>5, <1>6, <1>8

\* The interruptions stay in order.
LEMMA BargesStep ==
  ASSUME DuplexInv, DuplexNext
  PROVE  BargesInOrder'
<1>1. DuplexTypes /\ BargesInOrder BY DEF DuplexInv
<1>2. /\ Ahead("llm") = bargesPassed /\ Ahead("agg") = seen["llm"]
      /\ Ahead("tts") = seen["agg"] /\ Ahead("sink") = seen["tts"]
      /\ \A s \in DuplexStages : Ahead(s) \in Nat
      /\ After["llm"] = "agg" /\ After["agg"] = "tts" /\ After["tts"] = "sink"
  BY <1>1, AheadIs
<1>3. \A s \in DuplexStages : barges[s] \in Seq(Nat) /\ seen[s] \in Nat
  BY <1>1 DEF DuplexTypes
<1>4. \A s \in DuplexStages : Follows(barges[s], seen[s], Ahead(s))
  BY <1>1 DEF BargesInOrder
<1>5. ASSUME NEW s \in DuplexStages, Interrupted(s), bargesPassed' = bargesPassed
      PROVE  BargesInOrder'
  <2>1. /\ seen'[s] = seen[s] + 1 /\ Follows(barges'[s], seen[s] + 1, Ahead(s))
        /\ \A t \in DuplexStages \ {s} :
              /\ seen'[t] = seen[t]
              /\ barges'[t] = IF s # "sink" /\ t = After[s] THEN Append(barges[t], seen[s] + 1)
                              ELSE barges[t]
    BY <1>1, <1>5, InterruptedIs
  <2>2. \A t \in DuplexStages : Follows(Append(barges[t], Ahead(t) + 1), seen[t], Ahead(t) + 1)
    BY <1>2, <1>3, <1>4, FollowsMore
  <2> SUFFICES ASSUME NEW t \in DuplexStages PROVE Follows(barges'[t], seen'[t], Ahead(t)')
    BY DEF BargesInOrder
  <2>3. CASE t = s
    <3>1. Ahead(t)' = Ahead(t) BY <1>2, <1>5, <2>1, <2>3 DEF Ahead, DuplexStages
    <3> QED BY <2>1, <2>3, <3>1
  <2>4. CASE t # s /\ s # "sink" /\ t = After[s]
    <3>1. Ahead(t) = seen[s] BY <1>2, <2>4 DEF DuplexStages
    <3>2. Ahead(t)' = seen[s] + 1 BY <1>2, <2>1, <2>4 DEF Ahead, DuplexStages
    <3>3. seen'[t] = seen[t] /\ barges'[t] = Append(barges[t], seen[s] + 1) BY <2>1, <2>4
    <3>4. Follows(Append(barges[t], seen[s] + 1), seen[t], seen[s] + 1) BY <2>2, <3>1
    <3> QED BY <3>2, <3>3, <3>4
  <2>5. CASE t # s /\ ~ (s # "sink" /\ t = After[s])
    <3>1. Ahead(t)' = Ahead(t) BY <1>2, <1>5, <2>1, <2>5 DEF Ahead, DuplexStages
    <3>2. seen'[t] = seen[t] /\ barges'[t] = barges[t] BY <2>1, <2>5
    <3> QED BY <1>4, <3>1, <3>2
  <2> QED BY <2>3, <2>4, <2>5
<1>6. CASE InterruptionArrives
  <2>1. /\ bargesPassed' = bargesPassed + 1 /\ seen' = seen
        /\ barges' = [barges EXCEPT !["llm"] = Append(barges["llm"], bargesPassed + 1)]
    BY <1>6 DEF InterruptionArrives
  <2>2. "llm" \in DuplexStages BY DEF DuplexStages
  <2>3. bargesPassed \in Nat BY <1>1 DEF DuplexTypes
  <2>4. Follows(Append(barges["llm"], bargesPassed + 1), seen["llm"], bargesPassed + 1)
    BY <1>2, <1>3, <1>4, <2>2, <2>3, FollowsMore
  <2>5. \A t \in DuplexStages :
          barges'[t] = IF t = "llm" THEN Append(barges["llm"], bargesPassed + 1) ELSE barges[t]
    BY <1>1, <2>1, <2>2 DEF DuplexTypes
  <2>6. ASSUME NEW t \in DuplexStages PROVE Follows(barges'[t], seen'[t], Ahead(t)')
    <3>1. CASE t = "llm"
      <4>1. Ahead(t)' = bargesPassed + 1 BY <2>1, <3>1 DEF Ahead
      <4> QED BY <2>1, <2>4, <2>5, <3>1, <4>1
    <3>2. CASE t # "llm"
      <4>1. Ahead(t)' = Ahead(t) BY <2>1, <3>2 DEF Ahead
      <4> QED BY <1>4, <2>1, <2>5, <3>2, <4>1
    <3> QED BY <3>1, <3>2
  <2> QED BY <2>6 DEF BargesInOrder
<1>7. CASE LlmInterrupted \/ AggInterrupted \/ TtsInterrupted \/ SinkInterrupted
  <2>1. bargesPassed' = bargesPassed
    BY <1>7 DEF LlmInterrupted, AggInterrupted, TtsInterrupted, SinkInterrupted, detectVars
  <2>2. \E s \in DuplexStages : Interrupted(s)
    BY <1>7 DEF LlmInterrupted, AggInterrupted, TtsInterrupted, SinkInterrupted, DuplexStages
  <2> QED BY <1>5, <2>1, <2>2
<1>8. CASE UNCHANGED <<bargesPassed, seen, barges>>
  <2>1. \A t \in DuplexStages : Ahead(t)' = Ahead(t) BY <1>8 DEF Ahead
  <2> QED BY <1>4, <1>8, <2>1 DEF BargesInOrder
<1> QED
  BY <1>6, <1>7, <1>8
  DEF DuplexNext, VadStarted, VadStopped, BargeIn, UserTurn, LlmBegin, LlmStream, AggStart,
      AggText, AggEnd, TtsBegin, TtsPush, SinkTake, SinkSend, SinkFlush, ReactorArm,
      ReactorFlush, Plays, detectVars, pathVars

-----------------------------------------------------------------------------
(* Stamps.                                                                 *)

\* The latch is stamped with generations that were raised, and cleared at least as far as
\* the sink has seen.
LEMMA StampsStep ==
  ASSUME DuplexInv, DuplexNext
  PROVE  Stamps'
<1>1. DuplexTypes /\ BargesInOrder /\ Stamps BY DEF DuplexInv
<1>2. /\ gen \in Nat /\ bargesPassed \in Nat /\ armed \in Nat /\ cleared \in Nat /\ flushed \in Nat
      /\ seen \in [DuplexStages -> Nat] /\ "sink" \in DuplexStages /\ seen["sink"] \in Nat
  BY <1>1 DEF DuplexTypes, DuplexStages
<1>3. CASE BargeIn
  BY <1>1, <1>2, <1>3 DEF BargeIn, Stamps, pathVars, sinkVars, reactorVars
<1>4. CASE InterruptionArrives
  BY <1>1, <1>2, <1>4 DEF InterruptionArrives, Stamps, sinkVars, reactorVars
<1>5. CASE ReactorArm
  BY <1>1, <1>2, <1>5 DEF ReactorArm, Stamps, pathVars, sinkVars, Larger
<1>6. CASE ReactorFlush
  BY <1>1, <1>2, <1>6 DEF ReactorFlush, Stamps, detectVars, pathVars, sinkVars
<1>7. CASE LlmInterrupted \/ AggInterrupted \/ TtsInterrupted
  <2>1. PICK s \in DuplexStages \ {"sink"} : Interrupted(s)
    BY <1>7 DEF LlmInterrupted, AggInterrupted, TtsInterrupted, DuplexStages
  <2>2. seen'["sink"] = seen["sink"] BY <1>1, <1>2, <2>1, InterruptedIs
  <2> QED
    BY <1>1, <1>7, <2>2
    DEF LlmInterrupted, AggInterrupted, TtsInterrupted, Stamps, detectVars, sinkVars, reactorVars
<1>8. CASE SinkInterrupted
  <2>1. seen'["sink"] = seen["sink"] + 1 /\ seen["sink"] + 1 <= Ahead("sink")
    BY <1>1, <1>2, <1>8, InterruptedIs DEF SinkInterrupted
  <2>2. Ahead("sink") <= gen
    <3>1. \A s \in DuplexStages : seen[s] <= Ahead(s) BY <1>1 DEF BargesInOrder, Follows
    <3>2. /\ Ahead("llm") = bargesPassed /\ Ahead("agg") = seen["llm"]
          /\ Ahead("tts") = seen["agg"] /\ Ahead("sink") = seen["tts"]
      BY <1>1, AheadIs
    <3>3. seen["llm"] \in Nat /\ seen["agg"] \in Nat /\ seen["tts"] \in Nat
      BY <1>2 DEF DuplexStages
    <3>4. seen["tts"] <= seen["agg"] /\ seen["agg"] <= seen["llm"] /\ seen["llm"] <= bargesPassed
      BY <3>1, <3>2 DEF DuplexStages
    <3> QED BY <1>1, <1>2, <3>2, <3>3, <3>4 DEF Stamps
  <2>3. cleared' = Larger(cleared, gen) /\ UNCHANGED <<gen, bargesPassed, armed, flushed>>
    BY <1>8 DEF SinkInterrupted, detectVars, reactorVars
  <2>4. Ahead("sink") \in Nat BY <1>1, <1>2, AheadIs
  <2>5. cleared' \in Nat /\ gen <= cleared' /\ cleared' <= gen
    BY <1>1, <1>2, <2>3 DEF Larger, Stamps
  <2> QED BY <1>1, <1>2, <2>1, <2>2, <2>3, <2>4, <2>5 DEF Stamps
<1>9. CASE UNCHANGED <<gen, bargesPassed, armed, cleared, flushed, seen>>
  BY <1>1, <1>9 DEF Stamps
<1> QED
  BY <1>3, <1>4, <1>5, <1>6, <1>7, <1>8, <1>9
  DEF DuplexNext, VadStarted, VadStopped, UserTurn, LlmBegin, LlmStream, AggStart,
      AggText, AggEnd, TtsBegin, TtsPush, SinkTake, SinkSend, SinkFlush, Plays,
      detectVars, pathVars, sinkVars, reactorVars

-----------------------------------------------------------------------------
(* Turns and runs.                                                         *)

Rest == DuplexTypes /\ TurnsCurrent /\ StreamWhole /\ RunsInOrder /\ CommittedRuns

\* What the order of the interruptions says of the stages.
LEMMA SeenIs ==
  ASSUME DuplexInv
  PROVE  /\ seen["sink"] <= seen["tts"] /\ seen["tts"] <= seen["agg"]
         /\ seen["agg"] <= seen["llm"] /\ seen["llm"] <= bargesPassed
         /\ barges["llm"] = <<>> => seen["llm"] = bargesPassed
         /\ barges["agg"] = <<>> => seen["agg"] = seen["llm"]
         /\ barges["tts"] = <<>> => seen["tts"] = seen["agg"]
         /\ barges["sink"] = <<>> => seen["sink"] = seen["tts"]
         /\ bargesPassed \in Nat
         /\ \A s \in DuplexStages : seen[s] \in Nat /\ queue[s] \in Seq(Msgs)
         /\ seen["llm"] \in Nat /\ seen["agg"] \in Nat /\ seen["tts"] \in Nat /\ seen["sink"] \in Nat
<1>1. DuplexTypes /\ \A s \in DuplexStages : Follows(barges[s], seen[s], Ahead(s))
  BY DEF DuplexInv, BargesInOrder
<1>2. /\ Ahead("llm") = bargesPassed /\ Ahead("agg") = seen["llm"]
      /\ Ahead("tts") = seen["agg"] /\ Ahead("sink") = seen["tts"]
      /\ \A s \in DuplexStages : Ahead(s) \in Nat
  BY <1>1, AheadIs
<1>3. \A s \in DuplexStages : seen[s] \in Nat /\ queue[s] \in Seq(Msgs) BY <1>1 DEF DuplexTypes
<1>4. \A s \in DuplexStages : seen[s] <= Ahead(s) /\ (barges[s] = <<>> => seen[s] = Ahead(s))
  <2>1. Len(<<>>) = 0 OBVIOUS
  <2> QED BY <1>1, <1>2, <1>3, <2>1 DEF Follows
<1>5. "llm" \in DuplexStages /\ "agg" \in DuplexStages /\ "tts" \in DuplexStages
      /\ "sink" \in DuplexStages
  BY DEF DuplexStages
<1> QED BY <1>1, <1>2, <1>3, <1>4, <1>5 DEF DuplexTypes

\* A later interruption is no turn's end.
LEMMA Wider ==
  ASSUME NEW q \in Seq(Msgs), NEW a \in Nat, NEW b \in Nat, NEW c \in Nat, b <= c, Within(q, a, b)
  PROVE  Within(q, a, c)
<1>1. \A k \in 1 .. Len(q) : q[k] \in Msgs BY ElementOfSeq
<1>2. \A k \in 1 .. Len(q) : q[k].turn \in Nat BY <1>1 DEF Msgs
<1> QED BY <1>2 DEF Within

\* A stage is sent a message.
LEMMA PutIs ==
  ASSUME DuplexTypes, NEW s \in DuplexStages, NEW m \in Msgs, Put(s, m)
  PROVE  /\ queue' \in [DuplexStages -> Seq(Msgs)] /\ queue'[s] = Append(queue[s], m)
         /\ \A t \in DuplexStages \ {s} : queue'[t] = queue[t]
<1>1. queue \in [DuplexStages -> Seq(Msgs)] BY DEF DuplexTypes
<1>2. Append(queue[s], m) \in Seq(Msgs) BY <1>1, AppendProperties
<1> QED BY <1>1, <1>2 DEF Put

\* A stage takes a message.
LEMMA TakeIs ==
  ASSUME DuplexTypes, NEW s \in DuplexStages, queue[s] # <<>>,
         queue' = [queue EXCEPT ![s] = Tail(@)]
  PROVE  /\ queue' \in [DuplexStages -> Seq(Msgs)] /\ queue'[s] = Tail(queue[s])
         /\ \A t \in DuplexStages \ {s} : queue'[t] = queue[t]
         /\ Head(queue[s]) \in Msgs /\ queue[s] \in Seq(Msgs)
<1>1. queue \in [DuplexStages -> Seq(Msgs)] BY DEF DuplexTypes
<1>2. Tail(queue[s]) \in Seq(Msgs) /\ Head(queue[s]) \in Msgs BY <1>1, HeadTailProperties
<1> QED BY <1>1, <1>2

\* The steps behind the aggregator, of the VAD and of the reactor leave the runs alone.
Behind ==
  /\ UNCHANGED <<llm, reply, context, runs>>
  /\ queue'["llm"] = queue["llm"] /\ queue'["agg"] = queue["agg"]
  /\ barges'["agg"] = barges["agg"]

\* Such a step keeps what is said of the runs.
LEMMA BehindKeeps ==
  ASSUME DuplexInv, Behind
  PROVE  StreamWhole' /\ RunsInOrder' /\ CommittedRuns'
<1>1. StreamWhole /\ RunsInOrder /\ CommittedRuns BY DEF DuplexInv
<1>2. StreamWhole' BY <1>1 DEF StreamWhole, Behind
<1>3. RunsInOrder' BY <1>1 DEF RunsInOrder, Behind
<1>4. CommittedRuns' BY <1>1 DEF CommittedRuns, CommittedOnce, Behind
<1> QED BY <1>2, <1>3, <1>4

\* The edges of the VAD, the reactor and the carrier.
LEMMA OutsideKeeps ==
  ASSUME DuplexInv,
         VadStarted \/ VadStopped \/ BargeIn \/ ReactorArm \/ ReactorFlush \/ Plays
  PROVE  Rest'
<1>1. DuplexTypes /\ TurnsCurrent BY DEF DuplexInv
<1>2. UNCHANGED <<bargesPassed, pathVars, llmVars, aggVars, speech, sinkVars>>
  BY DEF VadStarted, VadStopped, BargeIn, ReactorArm, ReactorFlush, Plays, detectVars, sinkVars
<1>3. Behind BY <1>2 DEF Behind, pathVars, llmVars, aggVars
<1>4. gen' \in Nat /\ armed' \in Nat /\ flushed' \in Nat
  BY <1>1, SMTT(40) DEF DuplexTypes, VadStarted, VadStopped, BargeIn, ReactorArm, ReactorFlush, Plays,
              detectVars, reactorVars, Larger
<1>5. carrierQueue' = carrierQueue \/ carrierQueue' = <<>> \/
      (carrierQueue # <<>> /\ carrierQueue' = Tail(carrierQueue))
  BY DEF VadStarted, VadStopped, BargeIn, ReactorArm, ReactorFlush, Plays
<1>6. /\ carrierQueue' \in Seq(Nat)
      /\ \A k \in 1 .. Len(carrierQueue') :
           \E j \in 1 .. Len(carrierQueue) : carrierQueue'[k] = carrierQueue[j]
  <2>1. carrierQueue \in Seq(Nat) BY <1>1 DEF DuplexTypes
  <2>2. CASE carrierQueue' = carrierQueue BY <2>1, <2>2
  <2>3. CASE carrierQueue' = <<>>
    <3>1. Len(<<>>) = 0 /\ 1 .. 0 = {} /\ <<>> \in Seq(Nat) OBVIOUS
    <3> QED BY <2>3, <3>1
  <2>4. CASE carrierQueue # <<>> /\ carrierQueue' = Tail(carrierQueue)
    BY <2>1, <2>4, TailAt
  <2> QED BY <1>5, <2>2, <2>3, <2>4
<1>7. DuplexTypes'
  BY <1>1, <1>2, <1>4, <1>6 DEF DuplexTypes, pathVars, llmVars, aggVars, sinkVars
<1>8. TurnsCurrent'
  <2>1. sink'.kind # "flush" /\ ~ dead' =>
          \A k \in 1 .. Len(carrierQueue') : seen'["sink"] <= carrierQueue'[k]
    BY <1>1, <1>2, <1>6 DEF TurnsCurrent, pathVars, sinkVars
  <2> QED BY <1>1, <1>2, <2>1 DEF TurnsCurrent, pathVars, llmVars, aggVars, sinkVars
<1> QED BY <1>3, <1>7, <1>8, BehindKeeps DEF Rest

\* An interruption reaches the LLM stage.
LEMMA ArrivesKeeps ==
  ASSUME DuplexInv, InterruptionArrives
  PROVE  Rest'
<1>1. DuplexTypes /\ TurnsCurrent BY DEF DuplexInv
<1>2. /\ bargesPassed' = bargesPassed + 1
      /\ barges' = [barges EXCEPT !["llm"] = Append(barges["llm"], bargesPassed + 1)]
      /\ UNCHANGED <<gen, queue, seen, llmVars, aggVars, speech, sinkVars, reactorVars, carrierQueue>>
  BY DEF InterruptionArrives
<1>3. barges' \in [DuplexStages -> Seq(Nat)] /\ barges'["agg"] = barges["agg"]
  <2>1. barges \in [DuplexStages -> Seq(Nat)] /\ bargesPassed + 1 \in Nat BY <1>1 DEF DuplexTypes
  <2>2. Append(barges["llm"], bargesPassed + 1) \in Seq(Nat)
    BY <2>1, AppendProperties DEF DuplexStages
  <2> QED BY <1>2, <2>1, <2>2 DEF DuplexStages
<1>4. Behind BY <1>2, <1>3 DEF Behind, llmVars, aggVars
<1>5. DuplexTypes'
  BY <1>1, <1>2, <1>3 DEF DuplexTypes, llmVars, aggVars, sinkVars, reactorVars
<1>6. Within(queue["llm"], seen["llm"], bargesPassed + 1)
  <2>1. /\ queue["llm"] \in Seq(Msgs) /\ seen["llm"] \in Nat /\ bargesPassed \in Nat
        /\ bargesPassed + 1 \in Nat /\ bargesPassed <= bargesPassed + 1
    BY <1>1 DEF DuplexTypes, DuplexStages
  <2>2. Within(queue["llm"], seen["llm"], bargesPassed) BY <1>1 DEF TurnsCurrent
  <2> QED BY <2>1, <2>2, Wider
<1>7. TurnsCurrent' BY <1>1, <1>2, <1>6 DEF TurnsCurrent, llmVars, aggVars, sinkVars
<1> QED BY <1>4, <1>5, <1>7, BehindKeeps DEF Rest

\* The TTS stage takes a reply and has its audio, or fails.
LEMMA TtsBeginKeeps ==
  ASSUME DuplexInv, TtsBegin
  PROVE  Rest'
<1>1. DuplexTypes /\ TurnsCurrent BY DEF DuplexInv
<1> DEFINE m == Head(queue["tts"])
           chunks == [k \in 1 .. Audios |-> Msg("OutputAudio", m.run, m.turn)]
<1>2. /\ barges["tts"] = <<>> /\ queue["tts"] # <<>> /\ speech' \in {chunks, <<>>}
      /\ queue' = [queue EXCEPT !["tts"] = Tail(@)] /\ "tts" \in DuplexStages
      /\ UNCHANGED <<detectVars, barges, seen, llmVars, aggVars, sinkVars, reactorVars, carrierQueue>>
  BY DEF TtsBegin, Next1, DuplexStages
<1>3. /\ queue' \in [DuplexStages -> Seq(Msgs)] /\ queue'["tts"] = Tail(queue["tts"])
      /\ \A t \in DuplexStages \ {"tts"} : queue'[t] = queue[t]
      /\ m \in Msgs /\ queue["tts"] \in Seq(Msgs)
  BY <1>1, <1>2, TakeIs
<1>4. queue'["llm"] = queue["llm"] /\ queue'["agg"] = queue["agg"] /\ queue'["sink"] = queue["sink"]
  BY <1>3 DEF DuplexStages
<1>5. /\ Within(queue'["tts"], seen["tts"], seen["agg"])
      /\ seen["tts"] <= m.turn /\ m.turn <= seen["agg"]
  BY <1>1, <1>2, <1>3, OneLess DEF TurnsCurrent
<1>6. m.turn = seen["tts"]
  <2>1. m.turn \in Nat BY <1>3 DEF Msgs
  <2>2. seen["tts"] = seen["agg"] /\ seen["tts"] \in Nat BY <1>2, SeenIs
  <2> HIDE DEF m
  <2> QED BY <1>5, <2>1, <2>2
<1>7. speech' \in Seq(Msgs) /\ Within(speech', seen["tts"], seen["tts"])
  <2>1. Msg("OutputAudio", m.run, m.turn) \in Msgs /\ Msg("OutputAudio", m.run, m.turn).turn = m.turn
    BY <1>3 DEF Msg, Msgs, Kinds
  <2>2. seen["tts"] \in Nat BY SeenIs
  <2> DEFINE a == Msg("OutputAudio", m.run, m.turn)
             c == [k \in 1 .. Audios |-> a]
  <2> HIDE DEF m, a
  <2>3. c \in Seq(Msgs) /\ Len(c) = Audios /\ \A k \in 1 .. Audios : c[k] = a
    BY <2>1, DuplexAssumption DEF a
  <2>4. Within(c, seen["tts"], seen["tts"])
    <3> HIDE DEF c
    <3> QED BY <1>6, <2>1, <2>2, <2>3 DEF Within, a
  <2>5. speech' = c \/ speech' = <<>> BY <1>2 DEF a
  <2> HIDE DEF c
  <2> QED BY <2>3, <2>4, <2>5, NoMessages
<1> HIDE DEF m, chunks
<1>8. Behind BY <1>2, <1>4 DEF Behind, llmVars, aggVars
<1>9. DuplexTypes'
  BY <1>1, <1>2, <1>3, <1>7 DEF DuplexTypes, detectVars, llmVars, aggVars, sinkVars, reactorVars
<1>10. TurnsCurrent'
  BY <1>1, <1>2, <1>4, <1>5, <1>7 DEF TurnsCurrent, detectVars, llmVars, aggVars, sinkVars
<1> QED BY <1>8, <1>9, <1>10, BehindKeeps DEF Rest

\* A frame of audio goes to the sink.
LEMMA TtsPushKeeps ==
  ASSUME DuplexInv, TtsPush
  PROVE  Rest'
<1>1. DuplexTypes /\ TurnsCurrent BY DEF DuplexInv
<1> DEFINE m == Head(speech)
<1>2. /\ speech # <<>> /\ Put("sink", m) /\ speech' = Tail(speech) /\ "sink" \in DuplexStages
      /\ UNCHANGED <<detectVars, barges, seen, llmVars, aggVars, sinkVars, reactorVars, carrierQueue>>
  BY DEF TtsPush, DuplexStages
<1>3. /\ m \in Msgs /\ speech' \in Seq(Msgs) /\ Within(speech', seen["tts"], seen["tts"])
      /\ seen["tts"] <= m.turn /\ m.turn <= seen["tts"]
  BY <1>1, <1>2, OneLess DEF DuplexTypes, TurnsCurrent
<1> HIDE DEF m
<1>4. /\ queue' \in [DuplexStages -> Seq(Msgs)] /\ queue'["sink"] = Append(queue["sink"], m)
      /\ \A t \in DuplexStages \ {"sink"} : queue'[t] = queue[t]
  BY <1>1, <1>2, <1>3, PutIs
<1>5. queue'["llm"] = queue["llm"] /\ queue'["agg"] = queue["agg"] /\ queue'["tts"] = queue["tts"]
  BY <1>4 DEF DuplexStages
<1>6. Within(queue'["sink"], seen["sink"], seen["tts"])
  <2>1. m.turn \in Nat BY <1>3 DEF Msgs
  <2>2. /\ seen["tts"] \in Nat /\ seen["sink"] \in Nat /\ seen["sink"] <= seen["tts"]
        /\ queue["sink"] \in Seq(Msgs)
    BY <1>2, SeenIs
  <2>3. seen["sink"] <= m.turn /\ m.turn <= seen["tts"] BY <1>3, <2>1, <2>2
  <2> QED BY <1>1, <1>3, <1>4, <2>2, <2>3, OneMore DEF TurnsCurrent
<1>7. Behind BY <1>2, <1>5 DEF Behind, llmVars, aggVars
<1>8. DuplexTypes'
  BY <1>1, <1>2, <1>3, <1>4 DEF DuplexTypes, detectVars, llmVars, aggVars, sinkVars, reactorVars
<1>9. TurnsCurrent'
  BY <1>1, <1>2, <1>3, <1>5, <1>6 DEF TurnsCurrent, detectVars, llmVars, aggVars, sinkVars
<1> QED BY <1>7, <1>8, <1>9, BehindKeeps DEF Rest

\* The TTS stage is interrupted, between two utterances.
LEMMA TtsInterruptedKeeps ==
  ASSUME DuplexInv, TtsInterrupted
  PROVE  Rest'
<1>1. DuplexTypes /\ TurnsCurrent /\ BargesInOrder BY DEF DuplexInv
<1>2. /\ speech = <<>> /\ Interrupted("tts") /\ "tts" \in DuplexStages
      /\ UNCHANGED <<detectVars, llmVars, aggVars, speech, sinkVars, reactorVars, carrierQueue>>
  BY DEF TtsInterrupted, DuplexStages
<1>3. /\ seen' \in [DuplexStages -> Nat] /\ queue' \in [DuplexStages -> Seq(Msgs)]
      /\ barges' \in [DuplexStages -> Seq(Nat)]
      /\ seen'["tts"] = seen["tts"] + 1 /\ queue'["tts"] = <<>>
      /\ \A t \in DuplexStages \ {"tts"} :
              /\ seen'[t] = seen[t] /\ queue'[t] = queue[t]
              /\ barges'[t] = IF "tts" # "sink" /\ t = After["tts"]
                              THEN Append(barges[t], seen["tts"] + 1) ELSE barges[t]
  BY <1>1, <1>2, InterruptedIs
<1>4. /\ seen'["llm"] = seen["llm"] /\ seen'["agg"] = seen["agg"] /\ seen'["sink"] = seen["sink"]
      /\ queue'["llm"] = queue["llm"] /\ queue'["agg"] = queue["agg"]
      /\ queue'["sink"] = queue["sink"] /\ barges'["agg"] = barges["agg"]
  BY <1>1, <1>3, AheadIs DEF DuplexStages
<1>5. Within(queue["sink"], seen["sink"], seen["tts"] + 1)
  <2>1. /\ queue["sink"] \in Seq(Msgs) /\ seen["sink"] \in Nat /\ seen["tts"] \in Nat
        /\ seen["tts"] + 1 \in Nat /\ seen["tts"] <= seen["tts"] + 1
    BY <1>1, SMTT(40) DEF DuplexTypes, DuplexStages
  <2>2. Within(queue["sink"], seen["sink"], seen["tts"]) BY <1>1 DEF TurnsCurrent
  <2> QED BY <2>1, <2>2, Wider
<1>6. Behind BY <1>2, <1>4 DEF Behind, llmVars, aggVars
<1>7. DuplexTypes'
  BY <1>1, <1>2, <1>3 DEF DuplexTypes, detectVars, llmVars, aggVars, sinkVars, reactorVars
<1>8. TurnsCurrent'
  BY <1>1, <1>2, <1>3, <1>4, <1>5, NoMessages
  DEF TurnsCurrent, detectVars, llmVars, aggVars, sinkVars
<1> QED BY <1>6, <1>7, <1>8, BehindKeeps DEF Rest

\* The sink takes a frame of audio, and drops it or has it to send.
LEMMA SinkTakeKeeps ==
  ASSUME DuplexInv, SinkTake
  PROVE  Rest'
<1>1. DuplexTypes /\ TurnsCurrent BY DEF DuplexInv
<1> DEFINE m == Head(queue["sink"])
<1>2. /\ sink = None /\ barges["sink"] = <<>> /\ queue["sink"] # <<>> /\ sink' \in {None, m}
      /\ queue' = [queue EXCEPT !["sink"] = Tail(@)] /\ "sink" \in DuplexStages
      /\ UNCHANGED <<detectVars, barges, seen, llmVars, aggVars, speech, cleared, dead,
                     reactorVars, carrierQueue>>
  BY DEF SinkTake, Next1, DuplexStages
<1>3. /\ queue' \in [DuplexStages -> Seq(Msgs)] /\ queue'["sink"] = Tail(queue["sink"])
      /\ \A t \in DuplexStages \ {"sink"} : queue'[t] = queue[t]
      /\ m \in Msgs /\ queue["sink"] \in Seq(Msgs)
  BY <1>1, <1>2, TakeIs
<1>4. queue'["llm"] = queue["llm"] /\ queue'["agg"] = queue["agg"] /\ queue'["tts"] = queue["tts"]
  BY <1>3 DEF DuplexStages
<1>5. /\ Within(queue'["sink"], seen["sink"], seen["tts"])
      /\ seen["sink"] <= m.turn /\ m.turn <= seen["tts"]
  BY <1>1, <1>2, <1>3, OneLess DEF TurnsCurrent
<1> HIDE DEF m
<1>6. m.turn = seen["sink"]
  <2>1. m.turn \in Nat BY <1>3 DEF Msgs
  <2>2. seen["sink"] = seen["tts"] /\ seen["sink"] \in Nat BY <1>2, SeenIs
  <2> QED BY <1>5, <2>1, <2>2
<1>7. sink.kind = "none" /\ None.kind = "none" BY <1>2 DEF None
<1>8. Behind BY <1>2, <1>4 DEF Behind, llmVars, aggVars
<1>9. DuplexTypes'
  BY <1>1, <1>2, <1>3 DEF DuplexTypes, detectVars, llmVars, aggVars, reactorVars
<1>10. TurnsCurrent'
  <2>1. sink'.kind = "OutputAudio" => sink'.turn = seen["sink"] BY <1>2, <1>6, <1>7
  <2>2. ~ dead => \A k \in 1 .. Len(carrierQueue) : seen["sink"] <= carrierQueue[k]
    BY <1>1, <1>7 DEF TurnsCurrent
  <2> QED BY <1>1, <1>2, <1>4, <1>5, <2>1, <2>2 DEF TurnsCurrent, detectVars, llmVars, aggVars
<1> QED BY <1>8, <1>9, <1>10, BehindKeeps DEF Rest

\* The carrier gets a frame of audio, or the transport fails.
LEMMA SinkSendKeeps ==
  ASSUME DuplexInv, SinkSend
  PROVE  Rest'
<1>1. DuplexTypes /\ TurnsCurrent BY DEF DuplexInv
<1>2. /\ sink.kind = "OutputAudio" /\ sink' = None
      /\ UNCHANGED <<detectVars, pathVars, llmVars, aggVars, speech, cleared, reactorVars>>
  BY DEF SinkSend
<1>3. Behind BY <1>2 DEF Behind, pathVars, llmVars, aggVars
<1>4. sink \in Msgs /\ sink.turn = seen["sink"] /\ seen["sink"] \in Nat
  <2>1. Msg("flush", 0, 0).kind # "OutputAudio" /\ None.kind # "OutputAudio" BY DEF Msg, None
  <2> QED BY <1>1, <1>2, <2>1, SeenIs DEF DuplexTypes, TurnsCurrent
<1>5. /\ carrierQueue' \in Seq(Nat) /\ dead' \in BOOLEAN
      /\ ~ dead' => \A k \in 1 .. Len(carrierQueue') : seen["sink"] <= carrierQueue'[k]
  <2>1. carrierQueue \in Seq(Nat) /\ sink.turn \in Nat BY <1>1, <1>4 DEF DuplexTypes
  <2>2. CASE carrierQueue' = Append(carrierQueue, sink.turn) /\ UNCHANGED dead
    <3>1. ~ dead => \A k \in 1 .. Len(carrierQueue) : seen["sink"] <= carrierQueue[k]
      BY <1>1, <1>2 DEF TurnsCurrent
    <3>2. dead' \in BOOLEAN BY <1>1, <2>2 DEF DuplexTypes
    <3>3. /\ carrierQueue' \in Seq(Nat)
          /\ \A k \in 1 .. Len(carrierQueue') :
               \/ k \in 1 .. Len(carrierQueue) /\ carrierQueue'[k] = carrierQueue[k]
               \/ carrierQueue'[k] = seen["sink"]
      BY <1>4, <2>1, <2>2, AppendAt
    <3>4. seen["sink"] <= seen["sink"] BY <1>4
    <3> QED BY <2>2, <3>1, <3>2, <3>3, <3>4
  <2>3. CASE dead' = TRUE /\ UNCHANGED carrierQueue BY <2>1, <2>3
  <2> QED BY <2>2, <2>3 DEF SinkSend
<1>6. DuplexTypes'
  BY <1>1, <1>2, <1>5 DEF DuplexTypes, detectVars, pathVars, llmVars, aggVars, reactorVars
<1>7. None.kind = "none" BY DEF None
<1>8. TurnsCurrent'
  BY <1>1, <1>2, <1>5, <1>7 DEF TurnsCurrent, detectVars, pathVars, llmVars, aggVars
<1> QED BY <1>3, <1>6, <1>8, BehindKeeps DEF Rest

\* The sink is interrupted, and is about to flush the carrier.
LEMMA SinkInterruptedKeeps ==
  ASSUME DuplexInv, SinkInterrupted
  PROVE  Rest'
<1>1. DuplexTypes /\ TurnsCurrent /\ BargesInOrder BY DEF DuplexInv
<1>2. /\ Interrupted("sink") /\ "sink" \in DuplexStages /\ sink' = Msg("flush", 0, 0)
      /\ cleared' = Larger(cleared, gen)
      /\ UNCHANGED <<detectVars, llmVars, aggVars, speech, dead, reactorVars, carrierQueue>>
  BY DEF SinkInterrupted, DuplexStages
<1>3. /\ seen' \in [DuplexStages -> Nat] /\ queue' \in [DuplexStages -> Seq(Msgs)]
      /\ barges' \in [DuplexStages -> Seq(Nat)]
      /\ queue'["sink"] = <<>>
      /\ \A t \in DuplexStages \ {"sink"} :
              seen'[t] = seen[t] /\ queue'[t] = queue[t] /\ barges'[t] = barges[t]
  BY <1>1, <1>2, InterruptedIs
<1>4. /\ seen'["llm"] = seen["llm"] /\ seen'["agg"] = seen["agg"] /\ seen'["tts"] = seen["tts"]
      /\ queue'["llm"] = queue["llm"] /\ queue'["agg"] = queue["agg"]
      /\ queue'["tts"] = queue["tts"] /\ barges'["agg"] = barges["agg"]
  BY <1>3 DEF DuplexStages
<1>5. Behind BY <1>2, <1>4 DEF Behind, llmVars, aggVars
<1>6. cleared' \in Nat BY <1>1, <1>2 DEF DuplexTypes, Larger
<1>7. DuplexTypes'
  BY <1>1, <1>2, <1>3, <1>6 DEF DuplexTypes, detectVars, llmVars, aggVars, reactorVars
<1>8. sink'.kind = "flush" BY <1>2 DEF Msg
<1>9. TurnsCurrent'
  BY <1>1, <1>2, <1>3, <1>4, <1>8, NoMessages DEF TurnsCurrent, detectVars, llmVars, aggVars
<1> QED BY <1>5, <1>7, <1>9, BehindKeeps DEF Rest

\* The flush of the sink.
LEMMA SinkFlushKeeps ==
  ASSUME DuplexInv, SinkFlush
  PROVE  Rest'
<1>1. DuplexTypes /\ TurnsCurrent BY DEF DuplexInv
<1>2. /\ sink' = None
      /\ UNCHANGED <<detectVars, pathVars, llmVars, aggVars, speech, cleared, reactorVars>>
  BY DEF SinkFlush
<1>3. Behind BY <1>2 DEF Behind, pathVars, llmVars, aggVars
<1>4. /\ carrierQueue' \in Seq(Nat) /\ dead' \in BOOLEAN
      /\ ~ dead' => \A k \in 1 .. Len(carrierQueue') : seen["sink"] <= carrierQueue'[k]
  <2>1. <<>> \in Seq(Nat) /\ Len(<<>>) = 0 /\ 1 .. 0 = {} OBVIOUS
  <2>2. CASE carrierQueue' = <<>> /\ UNCHANGED dead BY <1>1, <2>1, <2>2 DEF DuplexTypes
  <2>3. CASE dead' = TRUE /\ UNCHANGED carrierQueue BY <1>1, <2>3 DEF DuplexTypes
  <2> QED BY <2>2, <2>3 DEF SinkFlush
<1>5. DuplexTypes'
  BY <1>1, <1>2, <1>4 DEF DuplexTypes, detectVars, pathVars, llmVars, aggVars, reactorVars
<1>6. None.kind = "none" BY DEF None
<1>7. TurnsCurrent'
  BY <1>1, <1>2, <1>4, <1>6 DEF TurnsCurrent, detectVars, pathVars, llmVars, aggVars
<1> QED BY <1>3, <1>5, <1>7, BehindKeeps DEF Rest

-----------------------------------------------------------------------------
(* The steps that move a run on.                                           *)

\* Runs and turns are numbers.
LEMMA Numbers ==
  ASSUME NEW q \in Seq(Msgs)
  PROVE  /\ Len(q) \in Nat
         /\ \A k \in 1 .. Len(q) : q[k] \in Msgs /\ q[k].run \in Nat /\ q[k].turn \in Nat
<1>1. \A k \in 1 .. Len(q) : q[k] \in Msgs BY ElementOfSeq
<1> QED BY <1>1, LenProperties DEF Msgs

\* A run in the context is a number.
LEMMA ContextNumbers ==
  ASSUME DuplexTypes
  PROVE  /\ Len(context) \in Nat /\ \A k \in 1 .. Len(context) : context[k] \in Nat
         /\ DOMAIN context = 1 .. Len(context)
<1>1. context \in Seq(Nat) BY DEF DuplexTypes
<1> QED BY <1>1, LenProperties, ElementOfSeq

\* A reply that is not empty has a first text.
LEMMA ReplyFirst ==
  ASSUME DuplexTypes, reply # <<>>
  PROVE  1 \in 1 .. Len(reply) /\ reply[1] \in Msgs /\ reply[1].run \in Nat /\ reply[1].turn \in Nat
<1>1. reply \in Seq(Msgs) BY DEF DuplexTypes
<1>2. 1 \in 1 .. Len(reply) /\ reply[1] \in Msgs BY <1>1, TailAt
<1> QED BY <1>2 DEF Msgs

\* A user turn is a run that is younger than all others.
LEMMA UserTurnKeeps ==
  ASSUME DuplexInv, UserTurn
  PROVE  Rest'
<1>1. DuplexTypes /\ TurnsCurrent /\ StreamWhole /\ RunsInOrder /\ CommittedRuns BY DEF DuplexInv
<1> DEFINE m == Msg("LlmContext", runs + 1, bargesPassed)
<1>2. /\ runs' = runs + 1 /\ Put("llm", m) /\ "llm" \in DuplexStages
      /\ UNCHANGED <<detectVars, barges, seen, llm, aggVars, speech, sinkVars, reactorVars, carrierQueue>>
  BY DEF UserTurn, DuplexStages
<1>3. m \in Msgs /\ m.run = runs + 1 /\ m.turn = bargesPassed /\ runs \in Nat /\ runs + 1 \in Nat
  BY <1>1 DEF Msg, Msgs, Kinds, DuplexTypes
<1> HIDE DEF m
<1>4. /\ queue' \in [DuplexStages -> Seq(Msgs)] /\ queue'["llm"] = Append(queue["llm"], m)
      /\ \A t \in DuplexStages \ {"llm"} : queue'[t] = queue[t]
  BY <1>1, <1>2, <1>3, PutIs
<1>5. queue'["agg"] = queue["agg"] /\ queue'["tts"] = queue["tts"] /\ queue'["sink"] = queue["sink"]
  BY <1>4 DEF DuplexStages
<1>6. queue["llm"] \in Seq(Msgs) /\ queue["agg"] \in Seq(Msgs) BY <1>1 DEF DuplexTypes, DuplexStages
<1>7. Within(queue'["llm"], seen["llm"], bargesPassed)
  <2>1. seen["llm"] <= bargesPassed /\ bargesPassed <= bargesPassed BY SeenIs
  <2> QED BY <1>1, <1>3, <1>4, <1>6, <2>1, OneMore DEF TurnsCurrent
<1>8. DuplexTypes'
  BY <1>1, <1>2, <1>3, <1>4 DEF DuplexTypes, detectVars, aggVars, sinkVars, reactorVars
<1>9. TurnsCurrent'
  BY <1>1, <1>2, <1>5, <1>7 DEF TurnsCurrent, detectVars, aggVars, sinkVars
<1>10. StreamWhole' BY <1>1, <1>2 DEF StreamWhole
<1>11. /\ \A k \in 1 .. Len(queue["llm"]) : queue["llm"][k].run < runs + 1 /\ queue["llm"][k].run <= runs + 1
       /\ \A k \in 1 .. Len(queue["agg"]) : queue["agg"][k].run < runs + 1 /\ queue["agg"][k].run <= runs + 1
  BY <1>1, <1>3, <1>6, Numbers DEF RunsInOrder
<1>12. llm # Idle => llm.run < runs + 1 /\ llm.run <= runs + 1
  <2>1. llm.run \in Nat BY <1>1 DEF DuplexTypes, Streams
  <2>2. llm # Idle => llm.run <= runs BY <1>1 DEF RunsInOrder
  <2> QED BY <1>3, <2>1, <2>2
<1>13. reply # <<>> => reply[1].run < runs + 1 /\ reply[1].run <= runs + 1
  BY <1>1, <1>3, ReplyFirst DEF RunsInOrder
<1>14. \A k \in 1 .. Len(context) : context[k] < runs + 1 /\ context[k] <= runs + 1
  BY <1>1, <1>3, ContextNumbers DEF CommittedRuns
<1>15. Under(queue["llm"], runs + 1) /\ Under(queue["agg"], runs + 1) BY <1>11 DEF Under
<1>16. Rising(queue'["llm"])
  BY <1>1, <1>3, <1>4, <1>6, <1>15, OneMore DEF RunsInOrder
<1>17. ASSUME NEW k \in 1 .. Len(queue'["llm"])
       PROVE  /\ queue'["llm"][k].run <= runs + 1 /\ Under(queue["agg"], queue'["llm"][k].run)
              /\ llm # Idle => llm.run < queue'["llm"][k].run
              /\ reply # <<>> => reply[1].run < queue'["llm"][k].run
  <2>1. \/ k \in 1 .. Len(queue["llm"]) /\ queue'["llm"][k] = queue["llm"][k]
        \/ queue'["llm"][k] = m
    BY <1>3, <1>4, <1>6, AppendAt
  <2>2. CASE k \in 1 .. Len(queue["llm"]) /\ queue'["llm"][k] = queue["llm"][k]
    BY <1>1, <1>11, <2>2 DEF RunsInOrder
  <2>3. CASE queue'["llm"][k] = m BY <1>3, <1>12, <1>13, <1>15, <2>3
  <2> QED BY <2>1, <2>2, <2>3
<1>18. RunsInOrder'
  BY <1>1, <1>2, <1>5, <1>11, <1>12, <1>13, <1>16, <1>17 DEF RunsInOrder, aggVars
<1>19. \A k \in 1 .. Len(context) : Over(queue'["llm"], context[k])
  BY <1>1, <1>3, <1>4, <1>6, <1>14, OneMore DEF CommittedRuns
<1>20. CommittedRuns'
  BY <1>1, <1>2, <1>5, <1>14, <1>19 DEF CommittedRuns, CommittedOnce, aggVars
<1> QED BY <1>8, <1>9, <1>10, <1>18, <1>20 DEF Rest

\* The LLM stage takes a context, and streams its completion or fails.
LEMMA LlmBeginKeeps ==
  ASSUME DuplexInv, LlmBegin
  PROVE  Rest'
<1>1. DuplexTypes /\ TurnsCurrent /\ StreamWhole /\ RunsInOrder /\ CommittedRuns BY DEF DuplexInv
<1> DEFINE m == Head(queue["llm"])
           begun == [run |-> m.run, turn |-> m.turn, gen |-> gen, left |-> Response(m)]
<1>2. /\ llm = Idle /\ barges["llm"] = <<>> /\ queue["llm"] # <<>> /\ llm' \in {begun, Idle}
      /\ queue' = [queue EXCEPT !["llm"] = Tail(@)] /\ "llm" \in DuplexStages
      /\ UNCHANGED <<detectVars, barges, seen, runs, aggVars, speech, sinkVars, reactorVars, carrierQueue>>
  BY DEF LlmBegin, Next1, DuplexStages
<1>3. /\ queue' \in [DuplexStages -> Seq(Msgs)] /\ queue'["llm"] = Tail(queue["llm"])
      /\ \A t \in DuplexStages \ {"llm"} : queue'[t] = queue[t]
      /\ m \in Msgs /\ queue["llm"] \in Seq(Msgs)
  BY <1>1, <1>2, TakeIs
<1>4. queue'["agg"] = queue["agg"] /\ queue'["tts"] = queue["tts"] /\ queue'["sink"] = queue["sink"]
  BY <1>3 DEF DuplexStages
<1>5. /\ Within(queue'["llm"], seen["llm"], bargesPassed)
      /\ seen["llm"] <= m.turn /\ m.turn <= bargesPassed
      /\ Rising(queue'["llm"]) /\ Over(queue'["llm"], m.run)
  BY <1>1, <1>2, <1>3, OneLess DEF TurnsCurrent, RunsInOrder
<1>6. /\ 1 \in 1 .. Len(queue["llm"]) /\ m = queue["llm"][1]
      /\ \A k \in 1 .. Len(queue'["llm"]) :
           k + 1 \in 1 .. Len(queue["llm"]) /\ queue'["llm"][k] = queue["llm"][k + 1]
  BY <1>2, <1>3, TailAt
<1>7. /\ m.run <= runs /\ Under(queue["agg"], m.run)
      /\ reply # <<>> => reply[1].run < m.run
      /\ \A k \in 1 .. Len(context) : Over(queue["llm"], context[k])
  BY <1>1, <1>6 DEF RunsInOrder, CommittedRuns
<1>8. /\ Response(m) \in Seq(Msgs) /\ Response(m) # <<>>
      /\ \A k \in 1 .. Len(Response(m)) :
           /\ Response(m)[k].run = m.run /\ Response(m)[k].turn = m.turn
           /\ Response(m)[k].kind = "LlmResponseEnd" => k = Len(Response(m))
  BY <1>3, ResponseIs
<1>9. /\ begun \in Streams /\ begun.run = m.run /\ begun.turn = m.turn /\ begun.left = Response(m)
  BY <1>1, <1>3, <1>8 DEF Streams, Msgs, DuplexTypes
<1>10. m.turn \in Nat /\ m.run \in Nat BY <1>3 DEF Msgs
<1> HIDE DEF m, begun
<1>11. m.turn = seen["llm"] /\ seen["llm"] \in Nat BY <1>2, <1>5, <1>10, SeenIs
<1>12. Idle \in Streams /\ Idle.left = <<>> /\ Idle.run = 0 BY NoMessages DEF Idle, Streams
<1>13. llm' \in Streams BY <1>2, <1>9, <1>12
<1>14. DuplexTypes'
  BY <1>1, <1>2, <1>3, <1>13 DEF DuplexTypes, detectVars, aggVars, sinkVars, reactorVars
<1>15. llm' # Idle => llm' = begun BY <1>2
<1>16. Within(begun.left, seen["llm"], seen["llm"])
  <2>1. seen["llm"] <= seen["llm"] BY <1>11
  <2> QED BY <1>8, <1>9, <1>11, <2>1 DEF Within
<1>17. TurnsCurrent'
  BY <1>1, <1>2, <1>4, <1>5, <1>8, <1>9, <1>11, <1>15, <1>16 DEF TurnsCurrent, detectVars, aggVars, sinkVars
<1>18. StreamWhole'
  <2>1. CASE llm' = Idle
    <3>1. Len(<<>>) = 0 /\ 1 .. 0 = {} OBVIOUS
    <3> QED BY <1>12, <2>1, <3>1 DEF StreamWhole
  <2>2. CASE llm' = begun BY <1>8, <1>9, <2>2 DEF StreamWhole
  <2> QED BY <1>2, <2>1, <2>2
<1>19. Below(queue["agg"], m.run)
  <2>1. queue["agg"] \in Seq(Msgs) BY <1>1 DEF DuplexTypes, DuplexStages
  <2> QED BY <1>7, <1>10, <2>1, Numbers DEF Under, Below
<1>20. \A k \in 1 .. Len(queue'["llm"]) :
         /\ queue'["llm"][k].run <= runs /\ Under(queue["agg"], queue'["llm"][k].run)
         /\ m.run < queue'["llm"][k].run
         /\ reply # <<>> => reply[1].run < queue'["llm"][k].run
  BY <1>1, <1>5, <1>6 DEF RunsInOrder, Over
<1>21. reply # <<>> => reply[1].run <= m.run BY <1>1, <1>7, <1>10, ReplyFirst
<1>22. RunsInOrder'
  <2>1. /\ reply' = reply /\ runs' = runs /\ barges' = barges BY <1>2 DEF aggVars
  <2>2. /\ Ordered(queue["agg"]) /\ \A k \in 1 .. Len(queue["agg"]) : queue["agg"][k].run <= runs
        /\ reply # <<>> =>
             /\ reply[1].run <= runs
             /\ \A k \in 1 .. Len(queue["agg"]) : reply[1].run <= queue["agg"][k].run
    BY <1>1 DEF RunsInOrder
  <2> QED BY <1>4, <1>5, <1>7, <1>9, <1>15, <1>19, <1>20, <1>21, <2>1, <2>2 DEF RunsInOrder
<1>23. CommittedRuns'
  <2>1. \A k \in 1 .. Len(context) : Over(queue'["llm"], context[k]) /\ context[k] < m.run
    BY <1>2, <1>3, <1>7, OneLess DEF m
  <2> QED
    BY <1>1, <1>2, <1>4, <1>9, <1>15, <2>1 DEF CommittedRuns, CommittedOnce, aggVars
<1> QED BY <1>14, <1>17, <1>18, <1>22, <1>23 DEF Rest

\* The LLM stage is interrupted, between two completions.
LEMMA LlmInterruptedKeeps ==
  ASSUME DuplexInv, LlmInterrupted
  PROVE  Rest'
<1>1. /\ DuplexTypes /\ TurnsCurrent /\ BargesInOrder
      /\ StreamWhole /\ RunsInOrder /\ CommittedRuns
  BY DEF DuplexInv
<1>2. /\ llm = Idle /\ Interrupted("llm") /\ "llm" \in DuplexStages
      /\ UNCHANGED <<detectVars, llmVars, aggVars, speech, sinkVars, reactorVars, carrierQueue>>
  BY DEF LlmInterrupted, DuplexStages
<1>3. /\ seen' \in [DuplexStages -> Nat] /\ queue' \in [DuplexStages -> Seq(Msgs)]
      /\ barges' \in [DuplexStages -> Seq(Nat)]
      /\ seen'["llm"] = seen["llm"] + 1 /\ queue'["llm"] = <<>>
      /\ \A t \in DuplexStages \ {"llm"} : seen'[t] = seen[t] /\ queue'[t] = queue[t]
  BY <1>1, <1>2, InterruptedIs
<1>4. /\ seen'["agg"] = seen["agg"] /\ seen'["tts"] = seen["tts"] /\ seen'["sink"] = seen["sink"]
      /\ queue'["agg"] = queue["agg"] /\ queue'["tts"] = queue["tts"]
      /\ queue'["sink"] = queue["sink"]
  BY <1>3 DEF DuplexStages
<1>5. Within(queue["agg"], seen["agg"], seen["llm"] + 1)
  <2>1. /\ queue["agg"] \in Seq(Msgs) /\ seen["agg"] \in Nat /\ seen["llm"] \in Nat
        /\ seen["llm"] + 1 \in Nat /\ seen["llm"] <= seen["llm"] + 1
    BY <1>1, SMTT(40) DEF DuplexTypes, DuplexStages
  <2>2. Within(queue["agg"], seen["agg"], seen["llm"]) BY <1>1 DEF TurnsCurrent
  <2> QED BY <2>1, <2>2, Wider
<1>6. DuplexTypes'
  BY <1>1, <1>2, <1>3 DEF DuplexTypes, detectVars, llmVars, aggVars, sinkVars, reactorVars
<1>7. TurnsCurrent'
  BY <1>1, <1>2, <1>3, <1>4, <1>5, NoMessages
  DEF TurnsCurrent, detectVars, llmVars, aggVars, sinkVars
<1>8. StreamWhole' BY <1>1, <1>2 DEF StreamWhole, llmVars
<1>9. Len(<<>>) = 0 /\ 1 .. 0 = {} OBVIOUS
<1>10. RunsInOrder'
  BY <1>1, <1>2, <1>3, <1>4, <1>9, NoMessages DEF RunsInOrder, llmVars, aggVars
<1>11. CommittedRuns'
  BY <1>1, <1>2, <1>3, <1>4, NoMessages DEF CommittedRuns, CommittedOnce, llmVars, aggVars
<1> QED BY <1>6, <1>7, <1>8, <1>10, <1>11 DEF Rest

\* The next frame of a completion goes to the aggregator, or its end when it has been cut.
LEMMA LlmStreamKeeps ==
  ASSUME DuplexInv, LlmStream
  PROVE  Rest'
<1>1. DuplexTypes /\ TurnsCurrent /\ StreamWhole /\ RunsInOrder /\ CommittedRuns BY DEF DuplexInv
<1>2. /\ llm # Idle /\ "agg" \in DuplexStages
      /\ UNCHANGED <<detectVars, barges, seen, runs, aggVars, speech, sinkVars, reactorVars, carrierQueue>>
  BY DEF LlmStream, DuplexStages
<1>3. /\ llm \in Streams /\ llm.run \in Nat /\ llm.turn \in Nat /\ llm.gen \in Nat
      /\ llm.left \in Seq(Msgs) /\ llm.left # <<>> /\ llm.turn = seen["llm"]
      /\ llm = [run |-> llm.run, turn |-> llm.turn, gen |-> llm.gen, left |-> llm.left]
  BY <1>1, <1>2 DEF DuplexTypes, Streams, TurnsCurrent
<1>4. /\ Tail(llm.left) \in Seq(Msgs) /\ Len(llm.left) \in Nat
      /\ Len(Tail(llm.left)) = Len(llm.left) - 1
      /\ Head(llm.left) \in Msgs /\ Head(llm.left) = llm.left[1] /\ 1 \in 1 .. Len(llm.left)
      /\ \A k \in 1 .. Len(Tail(llm.left)) :
           k + 1 \in 1 .. Len(llm.left) /\ Tail(llm.left)[k] = llm.left[k + 1]
  BY <1>3, TailAt
<1>5. /\ Within(Tail(llm.left), seen["llm"], seen["llm"])
      /\ seen["llm"] <= Head(llm.left).turn /\ Head(llm.left).turn <= seen["llm"]
  BY <1>1, <1>2, <1>3, OneLess DEF TurnsCurrent
<1>6. Head(llm.left).turn = seen["llm"] /\ seen["llm"] \in Nat
  <2>1. Head(llm.left).turn \in Nat BY <1>4 DEF Msgs
  <2> QED BY <1>5, <2>1, SeenIs
<1>7. /\ Head(llm.left).run = llm.run
      /\ Head(llm.left).kind = "LlmResponseEnd" => Len(llm.left) = 1
  BY <1>1, <1>4 DEF StreamWhole
<1>8. PICK m \in Msgs :
        /\ Put("agg", m) /\ m.run = llm.run /\ m.turn = seen["llm"]
        /\ \/ llm' = Idle
           \/ /\ m.kind # "LlmResponseEnd" /\ Len(llm.left) # 1
              /\ llm' = [run |-> llm.run, turn |-> llm.turn, gen |-> llm.gen, left |-> Tail(llm.left)]
  <2>1. CASE llm.gen = gen
    <3>1. Put("agg", Head(llm.left)) /\ llm' = IF Len(llm.left) = 1 THEN Idle ELSE [llm EXCEPT !.left = Tail(@)]
      BY <2>1 DEF LlmStream
    <3>2. [llm EXCEPT !.left = Tail(@)]
            = [run |-> llm.run, turn |-> llm.turn, gen |-> llm.gen, left |-> Tail(llm.left)]
      <4>1. llm \in Streams /\ Tail(llm.left) \in Seq(Msgs) BY <1>3, <1>4
      <4> QED BY <4>1, SMTT(40) DEF Streams
    <3> QED BY <1>4, <1>6, <1>7, <3>1, <3>2
  <2>2. CASE llm.gen # gen
    <3>1. Put("agg", Msg("LlmResponseEnd", llm.run, llm.turn)) /\ llm' = Idle
      BY <2>2 DEF LlmStream
    <3>2. /\ Msg("LlmResponseEnd", llm.run, llm.turn) \in Msgs
          /\ Msg("LlmResponseEnd", llm.run, llm.turn).run = llm.run
          /\ Msg("LlmResponseEnd", llm.run, llm.turn).turn = llm.turn
      BY <1>3 DEF Msg, Msgs, Kinds
    <3> QED BY <1>3, <3>1, <3>2
  <2> QED BY <2>1, <2>2
<1>9. /\ queue' \in [DuplexStages -> Seq(Msgs)] /\ queue'["agg"] = Append(queue["agg"], m)
      /\ \A t \in DuplexStages \ {"agg"} : queue'[t] = queue[t]
  BY <1>1, <1>2, <1>8, PutIs
<1>10. queue'["llm"] = queue["llm"] /\ queue'["tts"] = queue["tts"] /\ queue'["sink"] = queue["sink"]
  BY <1>9 DEF DuplexStages
<1>11. /\ llm' \in Streams
       /\ llm' # Idle =>
            /\ llm'.run = llm.run /\ llm'.turn = llm.turn /\ llm'.left = Tail(llm.left)
            /\ m.kind # "LlmResponseEnd" /\ Len(llm.left) # 1
  <2>1. Idle \in Streams BY NoMessages DEF Idle, Streams
  <2> DEFINE next == [run |-> llm.run, turn |-> llm.turn, gen |-> llm.gen, left |-> Tail(llm.left)]
  <2>2. /\ next \in Streams /\ next.run = llm.run /\ next.turn = llm.turn
        /\ next.left = Tail(llm.left)
    BY <1>3, <1>4 DEF Streams
  <2>3. \/ llm' = Idle
        \/ m.kind # "LlmResponseEnd" /\ Len(llm.left) # 1 /\ llm' = next
    BY <1>8
  <2> HIDE DEF next
  <2> QED BY <2>1, <2>2, <2>3
<1>12. DuplexTypes'
  BY <1>1, <1>2, <1>9, <1>11 DEF DuplexTypes, detectVars, aggVars, sinkVars, reactorVars
<1>13. queue["agg"] \in Seq(Msgs) /\ queue["llm"] \in Seq(Msgs) BY <1>1 DEF DuplexTypes, DuplexStages
<1>14. Within(queue'["agg"], seen["agg"], seen["llm"])
  <2>1. seen["agg"] <= seen["llm"] /\ seen["llm"] <= seen["llm"] BY SeenIs
  <2> QED BY <1>1, <1>8, <1>9, <1>13, <2>1, OneMore DEF TurnsCurrent
<1>15. llm' # Idle => llm'.left # <<>>
  <2>1. Len(<<>>) = 0 OBVIOUS
  <2>2. Len(llm.left) # 1 => Len(Tail(llm.left)) # 0 BY <1>4
  <2> QED BY <1>11, <2>1, <2>2
<1>16. TurnsCurrent'
  BY <1>1, <1>2, <1>3, <1>5, <1>10, <1>11, <1>14, <1>15 DEF TurnsCurrent, detectVars, aggVars, sinkVars
<1>17. StreamWhole'
  <2>1. CASE llm' = Idle
    <3>1. Len(<<>>) = 0 /\ 1 .. 0 = {} /\ Idle.left = <<>> BY DEF Idle
    <3> QED BY <2>1, <3>1 DEF StreamWhole
  <2>2. CASE llm' # Idle
    <3> SUFFICES ASSUME NEW k \in 1 .. Len(llm'.left)
                 PROVE  /\ llm'.left[k].run = llm'.run
                        /\ llm'.left[k].kind = "LlmResponseEnd" => k = Len(llm'.left)
      BY DEF StreamWhole
    <3>1. k \in 1 .. Len(Tail(llm.left)) /\ llm'.left[k] = llm.left[k + 1] /\ k + 1 \in 1 .. Len(llm.left)
      BY <1>4, <1>11, <2>2
    <3>2. /\ llm.left[k + 1].run = llm.run
          /\ llm.left[k + 1].kind = "LlmResponseEnd" => k + 1 = Len(llm.left)
      BY <1>1, <3>1 DEF StreamWhole
    <3>3. k + 1 = Len(llm.left) => k = Len(Tail(llm.left)) BY <1>4, <3>1
    <3>4. Len(llm'.left) = Len(Tail(llm.left)) BY <1>11, <2>2
    <3> QED BY <1>11, <2>2, <3>1, <3>2, <3>3, <3>4
  <2> QED BY <2>1, <2>2
<1>18. Below(queue["agg"], llm.run) /\ llm.run <= runs /\ llm.run <= llm.run
  BY <1>1, <1>2, <1>3 DEF RunsInOrder
<1>19. /\ Ordered(queue'["agg"]) /\ (llm' # Idle => Below(queue'["agg"], llm.run))
       /\ \A r : Under(queue["agg"], r) /\ llm.run < r => Under(queue'["agg"], r)
       /\ \A r : Over(queue["agg"], r) /\ r < llm.run => Over(queue'["agg"], r)
  BY <1>1, <1>8, <1>9, <1>11, <1>13, <1>18, OneMore DEF RunsInOrder
<1>20. \A k \in 1 .. Len(queue'["agg"]) :
         \/ k \in 1 .. Len(queue["agg"]) /\ queue'["agg"][k] = queue["agg"][k]
         \/ queue'["agg"][k] = m
  BY <1>8, <1>9, <1>13, AppendAt
<1>21. \A k \in 1 .. Len(queue'["agg"]) :
         queue'["agg"][k].run <= runs /\ (reply # <<>> => reply[1].run <= queue'["agg"][k].run)
  BY <1>1, <1>2, <1>8, <1>18, <1>20 DEF RunsInOrder
<1>22. \A k \in 1 .. Len(queue["llm"]) : Under(queue'["agg"], queue["llm"][k].run)
  BY <1>1, <1>2, <1>19 DEF RunsInOrder
<1>23. RunsInOrder'
  <2>1. /\ reply' = reply /\ runs' = runs /\ barges' = barges BY <1>2 DEF aggVars
  <2> QED BY <1>1, <1>2, <1>10, <1>11, <1>18, <1>19, <1>21, <1>22, <2>1 DEF RunsInOrder
<1>24. CommittedRuns'
  BY <1>1, <1>2, <1>10, <1>11, <1>19 DEF CommittedRuns, CommittedOnce, aggVars
<1> QED BY <1>12, <1>16, <1>17, <1>23, <1>24 DEF Rest

\* What the aggregator takes from its channel.
AggTakes ==
  /\ barges["agg"] = <<>> /\ queue["agg"] # <<>>
  /\ queue'["agg"] = Tail(queue["agg"]) /\ queue'["llm"] = queue["llm"]
  /\ UNCHANGED <<detectVars, barges, seen, llmVars, speech, sinkVars, reactorVars, carrierQueue>>

\* Taking a frame leaves the aggregator's channel in order, and the frame is of the turn the
\* stage is in and of a run that is not in the context yet.
LEMMA AggTakesIs ==
  ASSUME DuplexInv, AggTakes
  PROVE  LET h == Head(queue["agg"]) IN
         /\ h \in Msgs /\ h.turn = seen["agg"] /\ h.run \in Nat /\ h.run <= runs
         /\ Within(queue'["agg"], seen["agg"], seen["llm"])
         /\ Ordered(queue'["agg"]) /\ Rising(queue'["llm"])
         /\ \A k \in 1 .. Len(queue'["llm"]) :
              queue'["llm"][k].run <= runs /\ Under(queue'["agg"], queue'["llm"][k].run)
              /\ h.run < queue'["llm"][k].run
         /\ \A k \in 1 .. Len(queue'["agg"]) :
              /\ queue'["agg"][k].run <= runs /\ h.run <= queue'["agg"][k].run
              /\ reply # <<>> => reply[1].run <= queue'["agg"][k].run
         /\ reply # <<>> => reply[1].run <= h.run
         /\ h.kind = "LlmResponseEnd" => Over(queue'["agg"], h.run)
         /\ llm # Idle =>
              /\ llm.run <= runs /\ Below(queue'["agg"], llm.run) /\ h.run <= llm.run
              /\ h.kind = "LlmResponseEnd" => h.run < llm.run
         /\ \A k \in 1 .. Len(context) :
              /\ Over(queue'["agg"], context[k]) /\ Over(queue'["llm"], context[k])
              /\ context[k] < h.run
<1>1. DuplexTypes /\ TurnsCurrent /\ RunsInOrder /\ CommittedRuns BY DEF DuplexInv
<1> DEFINE h == Head(queue["agg"])
<1>2. queue["agg"] \in Seq(Msgs) BY <1>1 DEF DuplexTypes, DuplexStages
<1>3. /\ h \in Msgs
      /\ \A a, b : Within(queue["agg"], a, b) =>
                    Within(queue'["agg"], a, b) /\ a <= h.turn /\ h.turn <= b
      /\ \A r : Under(queue["agg"], r) => Under(queue'["agg"], r) /\ h.run < r
      /\ \A r : Over(queue["agg"], r) => Over(queue'["agg"], r) /\ r < h.run
      /\ \A r : Below(queue["agg"], r) => /\ Below(queue'["agg"], r) /\ h.run <= r
                                          /\ h.kind = "LlmResponseEnd" => h.run < r
      /\ Ordered(queue'["agg"])
      /\ \A k \in 1 .. Len(queue'["agg"]) : h.run <= queue'["agg"][k].run
      /\ h.kind = "LlmResponseEnd" => Over(queue'["agg"], h.run)
  BY <1>1, <1>2, OneLess DEF AggTakes, RunsInOrder
<1>4. /\ h = queue["agg"][1] /\ 1 \in 1 .. Len(queue["agg"])
      /\ \A k \in 1 .. Len(queue'["agg"]) :
           k + 1 \in 1 .. Len(queue["agg"]) /\ queue'["agg"][k] = queue["agg"][k + 1]
  BY <1>2, TailAt DEF AggTakes
<1> HIDE DEF h
<1>5. h.turn \in Nat /\ h.run \in Nat BY <1>3 DEF Msgs
<1>6. seen["agg"] = seen["llm"] /\ seen["agg"] \in Nat BY SeenIs DEF AggTakes
<1>7. Within(queue["agg"], seen["agg"], seen["llm"]) BY <1>1 DEF TurnsCurrent
<1>8. h.turn = seen["agg"] /\ Within(queue'["agg"], seen["agg"], seen["llm"])
  BY <1>3, <1>5, <1>6, <1>7
<1>9. Rising(queue'["llm"])
      /\ \A k \in 1 .. Len(queue'["llm"]) :
           queue'["llm"][k].run <= runs /\ Under(queue'["agg"], queue'["llm"][k].run)
           /\ h.run < queue'["llm"][k].run
  BY <1>1, <1>3 DEF RunsInOrder, AggTakes
<1>10. /\ h.run <= runs /\ (reply # <<>> => reply[1].run <= h.run)
       /\ \A k \in 1 .. Len(queue'["agg"]) :
            /\ queue'["agg"][k].run <= runs
            /\ reply # <<>> => reply[1].run <= queue'["agg"][k].run
  BY <1>1, <1>4 DEF RunsInOrder
<1>11. llm # Idle =>
              /\ llm.run <= runs /\ Below(queue'["agg"], llm.run) /\ h.run <= llm.run
              /\ h.kind = "LlmResponseEnd" => h.run < llm.run
  <2>1. llm # Idle => llm.run <= runs /\ Below(queue["agg"], llm.run) BY <1>1 DEF RunsInOrder
  <2>2. Below(queue["agg"], llm.run) =>
          /\ Below(queue'["agg"], llm.run) /\ h.run <= llm.run
          /\ h.kind = "LlmResponseEnd" => h.run < llm.run
    BY <1>3
  <2> QED BY <2>1, <2>2
<1>12. \A k \in 1 .. Len(context) :
              /\ Over(queue'["agg"], context[k]) /\ Over(queue'["llm"], context[k])
              /\ context[k] < h.run
  BY <1>1, <1>3 DEF CommittedRuns, AggTakes
<1> QED BY <1>3, <1>5, <1>8, <1>9, <1>10, <1>11, <1>12 DEF h

\* The aggregator begins a reply.
LEMMA AggStartKeeps ==
  ASSUME DuplexInv, AggStart
  PROVE  Rest'
<1>1. DuplexTypes /\ TurnsCurrent /\ StreamWhole /\ RunsInOrder /\ CommittedRuns BY DEF DuplexInv
<1>2. /\ barges["agg"] = <<>> /\ queue["agg"] # <<>> /\ reply' = <<>> /\ context' = context
      /\ queue' = [queue EXCEPT !["agg"] = Tail(@)] /\ "agg" \in DuplexStages
      /\ UNCHANGED <<detectVars, barges, seen, llmVars, speech, sinkVars, reactorVars, carrierQueue>>
  BY DEF AggStart, Next1, DuplexStages
<1>3. /\ queue' \in [DuplexStages -> Seq(Msgs)] /\ queue'["agg"] = Tail(queue["agg"])
      /\ queue'["llm"] = queue["llm"] /\ queue'["tts"] = queue["tts"] /\ queue'["sink"] = queue["sink"]
  BY <1>1, <1>2, TakeIs DEF DuplexStages
<1>4. AggTakes BY <1>2, <1>3 DEF AggTakes
<1>5. /\ Within(queue'["agg"], seen["agg"], seen["llm"])
      /\ Ordered(queue'["agg"]) /\ Rising(queue'["llm"])
      /\ \A k \in 1 .. Len(queue'["llm"]) :
           queue'["llm"][k].run <= runs /\ Under(queue'["agg"], queue'["llm"][k].run)
      /\ \A k \in 1 .. Len(queue'["agg"]) : queue'["agg"][k].run <= runs
      /\ llm # Idle => llm.run <= runs /\ Below(queue'["agg"], llm.run)
      /\ \A k \in 1 .. Len(context) : Over(queue'["agg"], context[k]) /\ Over(queue'["llm"], context[k])
  BY <1>4, AggTakesIs
<1>6. DuplexTypes'
  BY <1>1, <1>2, <1>3, NoMessages DEF DuplexTypes, detectVars, llmVars, sinkVars, reactorVars
<1>7. TurnsCurrent'
  BY <1>1, <1>2, <1>3, <1>5, NoMessages DEF TurnsCurrent, detectVars, llmVars, sinkVars
<1>8. StreamWhole' BY <1>1, <1>2 DEF StreamWhole, llmVars
<1>9. RunsInOrder' BY <1>1, <1>2, <1>3, <1>5 DEF RunsInOrder, llmVars
<1>10. CommittedRuns' BY <1>1, <1>2, <1>3, <1>5 DEF CommittedRuns, CommittedOnce, llmVars
<1> QED BY <1>6, <1>7, <1>8, <1>9, <1>10 DEF Rest

\* A text of the reply.
LEMMA AggTextKeeps ==
  ASSUME DuplexInv, AggText
  PROVE  Rest'
<1>1. DuplexTypes /\ TurnsCurrent /\ StreamWhole /\ RunsInOrder /\ CommittedRuns BY DEF DuplexInv
<1> DEFINE h == Head(queue["agg"])
<1>2. /\ barges["agg"] = <<>> /\ queue["agg"] # <<>> /\ reply' = Append(reply, h)
      /\ context' = context
      /\ queue' = [queue EXCEPT !["agg"] = Tail(@)] /\ "agg" \in DuplexStages
      /\ UNCHANGED <<detectVars, barges, seen, llmVars, speech, sinkVars, reactorVars, carrierQueue>>
  BY DEF AggText, Next1, DuplexStages
<1>3. /\ queue' \in [DuplexStages -> Seq(Msgs)] /\ queue'["agg"] = Tail(queue["agg"])
      /\ queue'["llm"] = queue["llm"] /\ queue'["tts"] = queue["tts"] /\ queue'["sink"] = queue["sink"]
  BY <1>1, <1>2, TakeIs DEF DuplexStages
<1>4. AggTakes BY <1>2, <1>3 DEF AggTakes
<1>5. /\ h \in Msgs /\ h.turn = seen["agg"] /\ h.run <= runs
      /\ Within(queue'["agg"], seen["agg"], seen["llm"])
      /\ Ordered(queue'["agg"]) /\ Rising(queue'["llm"])
      /\ \A k \in 1 .. Len(queue'["llm"]) :
           queue'["llm"][k].run <= runs /\ Under(queue'["agg"], queue'["llm"][k].run)
           /\ h.run < queue'["llm"][k].run
      /\ \A k \in 1 .. Len(queue'["agg"]) :
           /\ queue'["agg"][k].run <= runs /\ h.run <= queue'["agg"][k].run
           /\ reply # <<>> => reply[1].run <= queue'["agg"][k].run
      /\ llm # Idle => llm.run <= runs /\ Below(queue'["agg"], llm.run) /\ h.run <= llm.run
      /\ \A k \in 1 .. Len(context) :
           /\ Over(queue'["agg"], context[k]) /\ Over(queue'["llm"], context[k])
           /\ context[k] < h.run
  BY <1>4, AggTakesIs
<1> HIDE DEF h
<1>6. reply \in Seq(Msgs) BY <1>1 DEF DuplexTypes
<1>7. reply' \in Seq(Msgs) /\ reply' # <<>> BY <1>2, <1>5, <1>6, AppendProperties
<1>8. Within(reply', seen["agg"], seen["agg"])
  <2>1. seen["agg"] <= seen["agg"] BY SeenIs
  <2> QED BY <1>1, <1>2, <1>5, <1>6, <2>1, OneMore DEF TurnsCurrent
<1>9. (reply # <<>> /\ reply'[1] = reply[1]) \/ reply'[1] = h
  <2>1. CASE reply = <<>>
    <3>1. Len(reply) = 0 BY <2>1
    <3> QED BY <1>2, <1>5, <1>6, <3>1, AppendProperties
  <2>2. CASE reply # <<>>
    <3>1. 1 \in 1 .. Len(reply) BY <1>1, <2>2, ReplyFirst
    <3> QED BY <1>2, <1>5, <1>6, <2>2, <3>1, AppendProperties
  <2> QED BY <2>1, <2>2
<1>10. /\ reply'[1].run <= runs
       /\ \A k \in 1 .. Len(queue'["agg"]) : reply'[1].run <= queue'["agg"][k].run
       /\ \A k \in 1 .. Len(queue'["llm"]) : reply'[1].run < queue'["llm"][k].run
       /\ llm # Idle => reply'[1].run <= llm.run
       /\ \A k \in 1 .. Len(context) : context[k] < reply'[1].run
  <2>1. CASE reply'[1] = h BY <1>5, <2>1
  <2>2. CASE reply # <<>> /\ reply'[1] = reply[1]
    BY <1>1, <1>3, <1>5, <2>2 DEF RunsInOrder, CommittedRuns
  <2> QED BY <1>9, <2>1, <2>2
<1>11. DuplexTypes'
  BY <1>1, <1>2, <1>3, <1>7 DEF DuplexTypes, detectVars, llmVars, sinkVars, reactorVars
<1>12. TurnsCurrent'
  BY <1>1, <1>2, <1>3, <1>5, <1>8 DEF TurnsCurrent, detectVars, llmVars, sinkVars
<1>13. StreamWhole' BY <1>1, <1>2 DEF StreamWhole, llmVars
<1>14. RunsInOrder' BY <1>1, <1>2, <1>3, <1>5, <1>10 DEF RunsInOrder, llmVars
<1>15. CommittedRuns' BY <1>1, <1>2, <1>3, <1>5, <1>10 DEF CommittedRuns, CommittedOnce, llmVars
<1> QED BY <1>11, <1>12, <1>13, <1>14, <1>15 DEF Rest

\* A commit: the context is as it was, or has the run of the reply behind it; once.
LEMMA CommitIs ==
  ASSUME DuplexTypes, CommittedRuns, Commit
  PROVE  /\ context' \in Seq(Nat) /\ CommittedOnce'
         /\ \A k \in 1 .. Len(context') :
              \/ k \in 1 .. Len(context) /\ context'[k] = context[k]
              \/ reply # <<>> /\ context'[k] = reply[1].run
<1>1. context \in Seq(Nat) /\ CommittedOnce BY DEF DuplexTypes, CommittedRuns
<1>2. CASE reply = <<>>
  BY <1>1, <1>2 DEF Commit, CommittedOnce
<1>3. CASE reply # <<>>
  <2>1. context' = Append(context, reply[1].run) BY <1>3 DEF Commit
  <2>2. reply[1].run \in Nat BY <1>3, ReplyFirst
  <2>3. /\ context' \in Seq(Nat) /\ Len(context) \in Nat /\ Len(context') = Len(context) + 1
        /\ \A k \in 1 .. Len(context') :
             \/ k \in 1 .. Len(context) /\ context'[k] = context[k]
             \/ k = Len(context) + 1 /\ context'[k] = reply[1].run
    BY <1>1, <2>1, <2>2, AppendAt
  <2>4. \A k \in 1 .. Len(context) : context[k] # reply[1].run /\ context[k] \in Nat
    BY <1>3, <2>2, ContextNumbers DEF CommittedRuns
  <2>5. \A j, k \in 1 .. Len(context) : context[j] = context[k] => j = k
    BY <1>1, ContextNumbers DEF CommittedOnce
  <2>6. \A j, k \in 1 .. Len(context') : context'[j] = context'[k] => j = k
    BY <2>3, <2>4, <2>5
  <2>7. DOMAIN context' = 1 .. Len(context') BY <2>3
  <2> QED BY <1>3, <2>3, <2>6, <2>7 DEF CommittedOnce
<1> QED BY <1>2, <1>3

\* The end of a reply: it goes into the context and to the TTS stage.
LEMMA AggEndKeeps ==
  ASSUME DuplexInv, AggEnd
  PROVE  Rest'
<1>1. DuplexTypes /\ TurnsCurrent /\ StreamWhole /\ RunsInOrder /\ CommittedRuns BY DEF DuplexInv
<1> DEFINE h == Head(queue["agg"])
           speak == IF reply = <<>> THEN <<>>
                    ELSE <<Msg("TtsSpeak", reply[1].run, reply[1].turn)>>
<1>2. /\ barges["agg"] = <<>> /\ queue["agg"] # <<>> /\ h.kind = "LlmResponseEnd"
      /\ reply' = <<>> /\ Commit
      /\ queue' = [queue EXCEPT !["agg"] = Tail(@), !["tts"] = @ \o speak]
      /\ UNCHANGED <<detectVars, barges, seen, llmVars, speech, sinkVars, reactorVars, carrierQueue>>
  BY DEF AggEnd, Next1
<1>3. queue \in [DuplexStages -> Seq(Msgs)] /\ queue["agg"] \in Seq(Msgs) /\ queue["tts"] \in Seq(Msgs)
  BY <1>1 DEF DuplexTypes, DuplexStages
<1>4. speak \in Seq(Msgs) /\ queue["tts"] \o speak \in Seq(Msgs)
      /\ Within(queue["tts"] \o speak, seen["tts"], seen["agg"])
  <2>1. Within(queue["tts"], seen["tts"], seen["agg"]) BY <1>1 DEF TurnsCurrent
  <2>2. CASE reply = <<>>
    <3>1. speak = <<>> BY <2>2
    <3>2. queue["tts"] \o <<>> = queue["tts"] BY <1>3, ConcatEmptySeq
    <3> HIDE DEF speak
    <3> QED BY <1>3, <2>1, <3>1, <3>2, NoMessages
  <2>3. CASE reply # <<>>
    <3> DEFINE m == Msg("TtsSpeak", reply[1].run, reply[1].turn)
    <3>1. m \in Msgs /\ m.turn = reply[1].turn
      BY <1>1, <2>3, ReplyFirst DEF Msg, Msgs, Kinds
    <3>2. speak = <<m>> BY <2>3
    <3> HIDE DEF m, speak
    <3>3. queue["tts"] \o <<m>> = Append(queue["tts"], m) BY <1>3, <3>1, AppendIsConcat
    <3>4. Append(queue["tts"], m) \in Seq(Msgs) BY <1>3, <3>1, AppendProperties
    <3>5. seen["agg"] <= reply[1].turn /\ reply[1].turn <= seen["agg"] /\ reply[1].turn \in Nat
      BY <1>1, <2>3, ReplyFirst DEF TurnsCurrent, Within
    <3>6. seen["tts"] <= m.turn /\ m.turn <= seen["agg"] BY <3>1, <3>5, SeenIs
    <3>7. Within(Append(queue["tts"], m), seen["tts"], seen["agg"])
      BY <1>3, <2>1, <3>1, <3>6, OneMore
    <3>8. <<m>> \in Seq(Msgs) BY <3>1
    <3> QED BY <3>2, <3>3, <3>4, <3>7, <3>8
  <2> QED BY <2>2, <2>3
<1>5. Tail(queue["agg"]) \in Seq(Msgs) BY <1>2, <1>3, OneLess
<1> HIDE DEF speak
<1>6. /\ queue' \in [DuplexStages -> Seq(Msgs)] /\ queue'["agg"] = Tail(queue["agg"])
      /\ queue'["tts"] = queue["tts"] \o speak
      /\ queue'["llm"] = queue["llm"] /\ queue'["sink"] = queue["sink"]
  BY <1>2, <1>3, <1>4, <1>5 DEF DuplexStages
<1>7. AggTakes BY <1>2, <1>6 DEF AggTakes
<1>8. /\ h.run \in Nat
      /\ Within(queue'["agg"], seen["agg"], seen["llm"])
      /\ Ordered(queue'["agg"]) /\ Rising(queue'["llm"])
      /\ \A k \in 1 .. Len(queue'["llm"]) :
           queue'["llm"][k].run <= runs /\ Under(queue'["agg"], queue'["llm"][k].run)
      /\ \A k \in 1 .. Len(queue'["agg"]) : queue'["agg"][k].run <= runs
      /\ reply # <<>> => reply[1].run <= h.run
      /\ Over(queue'["agg"], h.run)
      /\ llm # Idle => llm.run <= runs /\ Below(queue'["agg"], llm.run) /\ h.run < llm.run
      /\ \A k \in 1 .. Len(context) : Over(queue'["agg"], context[k]) /\ Over(queue'["llm"], context[k])
  BY <1>2, <1>7, AggTakesIs
<1> HIDE DEF h
<1>9. /\ context' \in Seq(Nat) /\ CommittedOnce'
      /\ \A k \in 1 .. Len(context') :
           \/ k \in 1 .. Len(context) /\ context'[k] = context[k]
           \/ reply # <<>> /\ context'[k] = reply[1].run
  BY <1>1, <1>2, CommitIs
<1>10. reply # <<>> =>
         /\ reply[1].run <= runs /\ Over(queue'["agg"], reply[1].run) /\ Over(queue'["llm"], reply[1].run)
         /\ llm # Idle => reply[1].run < llm.run
  <2> SUFFICES ASSUME reply # <<>>
               PROVE  /\ reply[1].run <= runs /\ Over(queue'["agg"], reply[1].run)
                      /\ Over(queue'["llm"], reply[1].run) /\ (llm # Idle => reply[1].run < llm.run)
    OBVIOUS
  <2>1. reply[1].run \in Nat /\ reply[1].run <= h.run BY <1>1, <1>8, ReplyFirst
  <2>2. llm.run \in Nat BY <1>1 DEF DuplexTypes, Streams
  <2>3. \A k \in 1 .. Len(queue'["agg"]) : queue'["agg"][k].run \in Nat
    <3>1. queue'["agg"] \in Seq(Msgs) BY <1>5, <1>6
    <3> QED BY <3>1, Numbers
  <2>4. Over(queue'["agg"], reply[1].run) BY <1>8, <2>1, <2>3 DEF Over
  <2>5. llm # Idle => reply[1].run < llm.run BY <1>8, <2>1, <2>2
  <2>6. reply[1].run <= runs /\ Over(queue'["llm"], reply[1].run)
    BY <1>1, <1>6 DEF RunsInOrder, Over
  <2> QED BY <2>4, <2>5, <2>6
<1>11. DuplexTypes'
  BY <1>1, <1>2, <1>6, <1>9, NoMessages DEF DuplexTypes, detectVars, llmVars, sinkVars, reactorVars
<1>12. TurnsCurrent'
  BY <1>1, <1>2, <1>4, <1>6, <1>8, NoMessages DEF TurnsCurrent, detectVars, llmVars, sinkVars
<1>13. StreamWhole' BY <1>1, <1>2 DEF StreamWhole, llmVars
<1>14. RunsInOrder' BY <1>1, <1>2, <1>6, <1>8 DEF RunsInOrder, llmVars
<1>15. \A k \in 1 .. Len(context') :
         /\ context'[k] <= runs /\ Over(queue'["agg"], context'[k]) /\ Over(queue'["llm"], context'[k])
         /\ llm # Idle => context'[k] < llm.run
  BY <1>1, <1>8, <1>9, <1>10 DEF CommittedRuns
<1>16. CommittedRuns' BY <1>2, <1>9, <1>15 DEF CommittedRuns, llmVars
<1> QED BY <1>11, <1>12, <1>13, <1>14, <1>16 DEF Rest

\* The aggregator is interrupted: what has streamed of the reply goes into the context.
LEMMA AggInterruptedKeeps ==
  ASSUME DuplexInv, AggInterrupted
  PROVE  Rest'
<1>1. /\ DuplexTypes /\ TurnsCurrent /\ BargesInOrder
      /\ StreamWhole /\ RunsInOrder /\ CommittedRuns
  BY DEF DuplexInv
<1>2. /\ Interrupted("agg") /\ "agg" \in DuplexStages /\ barges["agg"] # <<>>
      /\ reply' = <<>> /\ Commit
      /\ UNCHANGED <<detectVars, llmVars, speech, sinkVars, reactorVars, carrierQueue>>
  BY DEF AggInterrupted, DuplexStages, Interrupted
<1>3. /\ seen' \in [DuplexStages -> Nat] /\ queue' \in [DuplexStages -> Seq(Msgs)]
      /\ barges' \in [DuplexStages -> Seq(Nat)]
      /\ seen'["agg"] = seen["agg"] + 1 /\ queue'["agg"] = <<>>
      /\ \A t \in DuplexStages \ {"agg"} : seen'[t] = seen[t] /\ queue'[t] = queue[t]
  BY <1>1, <1>2, InterruptedIs
<1>4. /\ seen'["llm"] = seen["llm"] /\ seen'["tts"] = seen["tts"] /\ seen'["sink"] = seen["sink"]
      /\ queue'["llm"] = queue["llm"] /\ queue'["tts"] = queue["tts"]
      /\ queue'["sink"] = queue["sink"]
  BY <1>3 DEF DuplexStages
<1>5. Within(queue["tts"], seen["tts"], seen["agg"] + 1)
  <2>1. /\ queue["tts"] \in Seq(Msgs) /\ seen["tts"] \in Nat /\ seen["agg"] \in Nat
        /\ seen["agg"] + 1 \in Nat /\ seen["agg"] <= seen["agg"] + 1
    BY <1>1, SMTT(40) DEF DuplexTypes, DuplexStages
  <2>2. Within(queue["tts"], seen["tts"], seen["agg"]) BY <1>1 DEF TurnsCurrent
  <2> QED BY <2>1, <2>2, Wider
<1>6. /\ context' \in Seq(Nat) /\ CommittedOnce'
      /\ \A k \in 1 .. Len(context') :
           \/ k \in 1 .. Len(context) /\ context'[k] = context[k]
           \/ reply # <<>> /\ context'[k] = reply[1].run
  BY <1>1, <1>2, CommitIs
<1>7. DuplexTypes'
  BY <1>1, <1>2, <1>3, <1>6, NoMessages DEF DuplexTypes, detectVars, llmVars, sinkVars, reactorVars
<1>8. TurnsCurrent'
  BY <1>1, <1>2, <1>3, <1>4, <1>5, NoMessages
  DEF TurnsCurrent, detectVars, llmVars, sinkVars
<1>9. StreamWhole' BY <1>1, <1>2 DEF StreamWhole, llmVars
<1>10. Len(<<>>) = 0 /\ 1 .. 0 = {} OBVIOUS
<1>11. RunsInOrder'
  BY <1>1, <1>2, <1>3, <1>4, <1>10, NoMessages DEF RunsInOrder, llmVars
<1>12. reply # <<>> =>
         /\ reply[1].run <= runs /\ Over(queue["llm"], reply[1].run)
         /\ llm # Idle => reply[1].run < llm.run
  BY <1>1, <1>2 DEF RunsInOrder, Over
<1>13. \A k \in 1 .. Len(context') :
         /\ context'[k] <= runs /\ Over(queue["llm"], context'[k])
         /\ llm # Idle => context'[k] < llm.run
  BY <1>1, <1>6, <1>12 DEF CommittedRuns
<1>14. CommittedRuns'
  BY <1>2, <1>3, <1>4, <1>6, <1>13, NoMessages DEF CommittedRuns, llmVars
<1> QED BY <1>7, <1>8, <1>9, <1>11, <1>14 DEF Rest

-----------------------------------------------------------------------------
(* The invariant and what it says.                                         *)

\* It holds at the beginning of a call.
LEMMA DuplexInitially ==
  DuplexInit => DuplexInv
<1> SUFFICES ASSUME DuplexInit PROVE DuplexInv OBVIOUS
<1>1. Len(<<>>) = 0 /\ 1 .. 0 = {} /\ <<>> \in Seq(Nat) /\ <<>> \in Seq(Msgs) OBVIOUS
<1>2. Idle \in Streams /\ Idle.left = <<>> BY <1>1 DEF Idle, Streams
<1>3. \A s \in DuplexStages : barges[s] = <<>> /\ queue[s] = <<>> /\ seen[s] = 0 BY DEF DuplexInit
<1>4. /\ barges \in [DuplexStages -> Seq(Nat)] /\ queue \in [DuplexStages -> Seq(Msgs)]
      /\ seen \in [DuplexStages -> Nat]
  BY <1>1 DEF DuplexInit
<1>5. DuplexTypes BY <1>1, <1>2, <1>4 DEF DuplexInit, DuplexTypes
<1>6. BargesInOrder
  <2> SUFFICES ASSUME NEW s \in DuplexStages PROVE Follows(barges[s], seen[s], Ahead(s))
    BY DEF BargesInOrder
  <2>1. Ahead(s) = 0 BY <1>3 DEF Ahead, DuplexStages, DuplexInit
  <2> QED BY <1>1, <1>3, <2>1 DEF Follows
<1>7. /\ queue["llm"] = <<>> /\ queue["agg"] = <<>> /\ queue["tts"] = <<>> /\ queue["sink"] = <<>>
      /\ seen["sink"] = 0
  BY <1>3 DEF DuplexStages
<1>8. Stamps BY <1>7 DEF DuplexInit, Stamps
<1>9. None.kind = "none" BY DEF None
<1>10. TurnsCurrent BY <1>1, <1>7, <1>9, NoMessages DEF DuplexInit, TurnsCurrent
<1>11. StreamWhole BY <1>1, <1>2 DEF DuplexInit, StreamWhole
<1>12. RunsInOrder BY <1>1, <1>7, NoMessages DEF DuplexInit, RunsInOrder
<1>13. CommittedRuns
  <2>1. DOMAIN <<>> = {} OBVIOUS
  <2> QED BY <1>1, <2>1 DEF DuplexInit, CommittedRuns, CommittedOnce
<1> QED BY <1>5, <1>6, <1>8, <1>10, <1>11, <1>12, <1>13 DEF DuplexInv

\* Every step keeps it.
LEMMA DuplexStep ==
  DuplexInv /\ [DuplexNext]_duplexVars => DuplexInv'
<1>1. ASSUME DuplexInv, DuplexNext PROVE DuplexInv'
  <2>1. Rest'
    BY <1>1, OutsideKeeps, ArrivesKeeps, UserTurnKeeps, LlmBeginKeeps, LlmStreamKeeps,
       LlmInterruptedKeeps, AggStartKeeps, AggTextKeeps, AggEndKeeps, AggInterruptedKeeps,
       TtsBeginKeeps, TtsPushKeeps, TtsInterruptedKeeps, SinkTakeKeeps, SinkSendKeeps,
       SinkInterruptedKeeps, SinkFlushKeeps
    DEF DuplexNext
  <2> QED BY <1>1, <2>1, BargesStep, StampsStep DEF DuplexInv, Rest
<1>2. ASSUME DuplexInv, UNCHANGED duplexVars PROVE DuplexInv'
  <2>1. UNCHANGED <<detectVars, pathVars, llmVars, aggVars, speech, sinkVars, reactorVars, carrierQueue>>
    BY <1>2 DEF duplexVars
  <2>2. Behind BY <2>1 DEF Behind, pathVars, llmVars, aggVars
  <2>3. DuplexTypes' /\ TurnsCurrent' /\ Stamps'
    BY <1>2, <2>1
    DEF DuplexInv, DuplexTypes, TurnsCurrent, Stamps, detectVars, pathVars, llmVars, aggVars,
        sinkVars, reactorVars
  <2>4. BargesInOrder'
    BY <1>2, <2>1 DEF DuplexInv, BargesInOrder, Ahead, detectVars, pathVars
  <2> QED BY <1>2, <2>2, <2>3, <2>4, BehindKeeps DEF DuplexInv
<1> QED BY <1>1, <1>2

\* The invariant says that a barge-in leaves the call clean.
LEMMA InvClean ==
  DuplexInv => BargeInClean
<1> SUFFICES ASSUME DuplexInv PROVE BargeInClean OBVIOUS
<1>1. DuplexTypes /\ Stamps /\ TurnsCurrent /\ CommittedRuns BY DEF DuplexInv
<1>2. StampsInOrder BY <1>1, SeenIs DEF StampsInOrder, Stamps
<1>3. SilencedAtSink
  <2>1. queue["sink"] \in Seq(Msgs) /\ seen["sink"] \in Nat BY SeenIs DEF DuplexStages
  <2>2. ASSUME NEW m \in ToSet(queue["sink"]) PROVE m.turn >= seen["sink"]
    <3>1. PICK k \in 1 .. Len(queue["sink"]) : m = queue["sink"][k] BY <2>1, <2>2 DEF ToSet
    <3>2. m.turn \in Nat BY <2>1, <3>1, Numbers
    <3>3. seen["sink"] <= m.turn BY <1>1, <3>1 DEF TurnsCurrent, Within
    <3> QED BY <2>1, <3>2, <3>3
  <2>3. sink.kind = "OutputAudio" => sink.turn >= seen["sink"]
    BY <1>1, <2>1 DEF TurnsCurrent
  <2>4. ASSUME sink.kind # "flush", ~ dead, NEW t \in ToSet(carrierQueue) PROVE t >= seen["sink"]
    <3>1. carrierQueue \in Seq(Nat) BY <1>1 DEF DuplexTypes
    <3>2. PICK k \in 1 .. Len(carrierQueue) : t = carrierQueue[k] BY <2>4, <3>1 DEF ToSet
    <3>3. t \in Nat BY <3>1, <3>2, ElementOfSeq
    <3>4. seen["sink"] <= t BY <1>1, <2>4, <3>2 DEF TurnsCurrent
    <3> QED BY <2>1, <3>3, <3>4
  <2> QED BY <2>2, <2>3, <2>4 DEF SilencedAtSink
<1>4. LatchOpens
  <2>1. seen["sink"] <= cleared /\ armed <= gen BY <1>1 DEF Stamps
  <2>2. gen \in Nat /\ armed \in Nat /\ cleared \in Nat BY <1>1 DEF DuplexTypes
  <2> QED BY <2>1, <2>2, SeenIs DEF LatchOpens, Stale
<1> QED BY <1>1, <1>2, <1>3, <1>4 DEF BargeInClean, CommittedRuns

\* A barge-in leaves the call clean, whatever the order in which the VAD stage, the reactor and
\* the stages of the frame path are scheduled: once the sink has handled it, nothing of the reply
\* it cut is played or can still come, the reply is in the context once, and the StaleAudioLatch
\* is open for the next one.
THEOREM BargeInLeavesClean == DuplexSpec => []BargeInClean
<1>1. DuplexSpec => []DuplexInv BY DuplexInitially, DuplexStep, PTL DEF DuplexSpec
<1> QED BY <1>1, InvClean, PTL

\* Of the steps only that of the sink takes a frame of audio from its channel and finds the
\* sink idle.
LEMMA FreshStep ==
  ASSUME DuplexInv, DuplexNext, NEW m, m = Head(queue["sink"]), Next1("sink", "OutputAudio"),
         m.turn = gen, ~ dead, sink = None, queue'["sink"] = Tail(queue["sink"])
  PROVE  sink' = m
<1>1. DuplexTypes /\ TurnsCurrent /\ Stamps /\ BargesInOrder BY DEF DuplexInv
<1>2. barges["sink"] = <<>> /\ queue["sink"] # <<>> BY DEF Next1
<1>3. queue["sink"] \in Seq(Msgs) /\ seen["sink"] = seen["tts"] /\ seen["sink"] \in Nat
  BY <1>2, SeenIs DEF DuplexStages
<1>4. m \in Msgs /\ seen["sink"] <= m.turn /\ m.turn <= seen["tts"]
  BY <1>1, <1>2, <1>3, OneLess DEF TurnsCurrent
<1>5. seen["sink"] = gen
  <2>1. m.turn \in Nat BY <1>4 DEF Msgs
  <2> QED BY <1>3, <1>4, <2>1
<1>6. ~ Stale BY <1>5, InvClean DEF BargeInClean, LatchOpens
<1>7. Len(Tail(queue["sink"])) # Len(queue["sink"]) BY <1>2, <1>3, TailAt
<1>8. queue'["sink"] # queue["sink"] BY <1>7
<1>9. CASE SinkTake BY <1>6, <1>9 DEF SinkTake
<1>10. CASE TtsPush
  <2>1. speech # <<>> /\ Put("sink", Head(speech)) BY <1>10 DEF TtsPush
  <2>2. Head(speech) \in Msgs /\ "sink" \in DuplexStages BY <1>1, <2>1, OneLess DEF DuplexTypes, DuplexStages
  <2>3. queue'["sink"] = Append(queue["sink"], Head(speech)) BY <1>1, <2>1, <2>2, PutIs
  <2> DEFINE f == Head(speech)
  <2> HIDE DEF f
  <2>4. Len(queue'["sink"]) = Len(queue["sink"]) + 1 /\ Len(queue["sink"]) \in Nat
    <3>1. f \in Msgs /\ queue'["sink"] = Append(queue["sink"], f) BY <2>2, <2>3 DEF f
    <3>2. Len(Append(queue["sink"], f)) = Len(queue["sink"]) + 1 BY <1>3, <3>1, AppendProperties
    <3> QED BY <1>3, <3>1, <3>2, LenProperties
  <2>5. Len(queue'["sink"]) = Len(queue["sink"]) - 1 BY <1>2, <1>3, TailAt
  <2> QED BY <2>4, <2>5
<1>11. CASE SinkInterrupted BY <1>2, <1>11 DEF SinkInterrupted, Interrupted
<1>12. CASE LlmInterrupted \/ AggInterrupted \/ TtsInterrupted
  <2>1. PICK s \in DuplexStages \ {"sink"} : Interrupted(s)
    BY <1>12 DEF LlmInterrupted, AggInterrupted, TtsInterrupted, DuplexStages
  <2>2. queue'["sink"] = queue["sink"] BY <1>1, <2>1, InterruptedIs DEF DuplexStages
  <2> QED BY <1>8, <2>2
<1>13. CASE UserTurn \/ LlmBegin \/ LlmStream \/ AggStart \/ AggText \/ AggEnd \/ TtsBegin
  <2>1. queue \in [DuplexStages -> Seq(Msgs)] BY <1>1 DEF DuplexTypes
  <2>2. \/ \E s \in {"llm", "agg", "tts"} : \E q : queue' = [queue EXCEPT ![s] = q]
        \/ \E p, q : queue' = [queue EXCEPT !["agg"] = p, !["tts"] = q]
    BY <1>13 DEF UserTurn, LlmBegin, LlmStream, AggStart, AggText, AggEnd, TtsBegin, Put
  <2>3. queue'["sink"] = queue["sink"] BY <2>1, <2>2 DEF DuplexStages
  <2> QED BY <1>8, <2>3
<1>14. CASE UNCHANGED queue BY <1>8, <1>14
<1> QED
  BY <1>9, <1>10, <1>11, <1>12, <1>13, <1>14
  DEF DuplexNext, VadStarted, VadStopped, BargeIn, InterruptionArrives, SinkSend, SinkFlush,
      ReactorArm, ReactorFlush, Plays, pathVars

\* The latch drops nothing of the turn that follows the last barge-in: a frame of it that the
\* sink takes, on a live transport, is sent.
THEOREM FreshAudioHeard == DuplexSpec => FreshAudioPlays
<1>1. DuplexSpec => []DuplexInv BY DuplexInitially, DuplexStep, PTL DEF DuplexSpec
<1>2. DuplexInv /\ [DuplexNext]_duplexVars =>
        [\A m \in ToSet(queue["sink"]) :
           Next1("sink", "OutputAudio") /\ m = Head(queue["sink"]) /\ m.turn = gen
           /\ ~ dead /\ sink = None /\ queue'["sink"] = Tail(queue["sink"]) => sink' = m]_duplexVars
  BY FreshStep
<1> QED BY <1>1, <1>2, PTL DEF DuplexSpec, FreshAudioPlays

-----------------------------------------------------------------------------
(* TurnTaking. The VAD, the stop strategies behind it, and the strategies  *)
(* of start and mute.                                                      *)

VadMachines == [state : {"Quiet", "Starting", "Speaking", "Stopping"}, starting : Nat, stopping : Nat]
Voiced(state) == state \in {"Speaking", "Stopping"}

\* A machine that counts has seen as many windows in a row, and fewer than it waits for.
RunCounted ==
  /\ vad.state = "Starting" => run.loud /\ vad.starting <= run.n /\ vad.starting < StartFrames
  /\ vad.state = "Stopping" => ~ run.loud /\ vad.stopping <= run.n /\ vad.stopping < StopFrames

VadTypes ==
  /\ vad \in VadMachines /\ lastState = vad.state
  /\ windows \in Seq(BOOLEAN) /\ frame \in Seq(BOOLEAN)
  /\ run \in [loud : BOOLEAN, n : Nat] /\ edges \in Seq({"started", "stopped"})

VadInv ==
  /\ VadTypes /\ RunCounted /\ EdgesAlternate
  /\ Voiced(vad.state) <=> Len(edges) % 2 = 1

\* What one window does to the VAD: it goes on counting, or a count is full.
LEMMA AdvanceCounts ==
  ASSUME NEW sm \in VadMachines, NEW loud \in BOOLEAN
  PROVE  LET new == Advance(sm, loud) IN
         /\ new \in VadMachines
         /\ new.state = "Starting" =>
              /\ loud /\ new.starting < StartFrames
              /\ \/ sm.state = "Quiet" /\ new.starting = 1
                 \/ sm.state = "Starting" /\ new.starting = sm.starting + 1
         /\ new.state = "Stopping" =>
              /\ ~ loud /\ new.stopping < StopFrames
              /\ \/ sm.state = "Speaking" /\ new.stopping = 1
                 \/ sm.state = "Stopping" /\ new.stopping = sm.stopping + 1
         /\ Voiced(new.state) /\ ~ Voiced(sm.state) =>
              /\ loud /\ new.state = "Speaking"
              /\ \/ sm.state = "Quiet" /\ 1 >= StartFrames
                 \/ sm.state = "Starting" /\ sm.starting + 1 >= StartFrames
         /\ ~ Voiced(new.state) /\ Voiced(sm.state) =>
              /\ ~ loud /\ new.state = "Quiet"
              /\ \/ sm.state = "Speaking" /\ 1 >= StopFrames
                 \/ sm.state = "Stopping" /\ sm.stopping + 1 >= StopFrames
<1> DEFINE moved == Moved(sm, loud)
           new == Advance(sm, loud)
           M(s, a, b) == [state |-> s, starting |-> a, stopping |-> b]
<1>0. StartFrames \in Nat \ {0} /\ StopFrames \in Nat \ {0} BY TurnAssumption
<1>1. sm = M(sm.state, sm.starting, sm.stopping) /\ sm.starting \in Nat /\ sm.stopping \in Nat
  BY DEF VadMachines
<1>2. /\ new = CASE moved.state = "Starting" /\ moved.starting >= StartFrames ->
                      [moved EXCEPT !.state = "Speaking", !.starting = 0]
                 [] moved.state = "Stopping" /\ moved.stopping >= StopFrames ->
                      [moved EXCEPT !.state = "Quiet", !.stopping = 0]
                 [] OTHER -> moved
  BY DEF Advance
<1>3. CASE sm.state = "Quiet"
  <2>1. CASE loud
    <3>1. moved = M("Starting", 1, sm.stopping) BY <1>1, <1>3, <2>1 DEF Moved
    <3> HIDE DEF moved, new
    <3>2. CASE 1 >= StartFrames
      <4>1. new = M("Speaking", 0, sm.stopping) BY <1>2, <3>1, <3>2
      <4>2. new \in VadMachines BY <1>1, <4>1 DEF VadMachines
      <4>5. /\ new.state = "Speaking" /\ new.starting = 0 /\ new.stopping = sm.stopping
            /\ Voiced(new.state) /\ ~ Voiced(sm.state) /\ new.state # "Starting" /\ new.state # "Stopping"
        BY <1>3, <4>1 DEF Voiced
      <4> QED BY <1>3, <2>1, <3>2, <4>1, <4>2, <4>5 DEF new
    <3>3. CASE ~ (1 >= StartFrames)
      <4>1. new = M("Starting", 1, sm.stopping) BY <1>2, <3>1, <3>3
      <4>2. new \in VadMachines BY <1>1, <4>1 DEF VadMachines
      <4>3. 1 < StartFrames BY <1>0, <1>1, <3>3
      <4>5. /\ new.state = "Starting" /\ new.starting = 1 /\ new.stopping = sm.stopping
            /\ ~ Voiced(new.state) /\ ~ Voiced(sm.state) /\ new.state # "Stopping"
        BY <1>3, <4>1 DEF Voiced
      <4> QED BY <1>3, <2>1, <4>1, <4>2, <4>3, <4>5 DEF new
    <3> QED BY <3>2, <3>3
  <2>2. CASE ~ loud
    <3>1. moved = M("Quiet", sm.starting, sm.stopping) BY <1>1, <1>3, <2>2 DEF Moved
    <3> HIDE DEF moved, new
    <3>2. new = M("Quiet", sm.starting, sm.stopping) BY <1>2, <3>1
    <3>3. new \in VadMachines BY <1>1, <3>2 DEF VadMachines
    <3>4. /\ new.state = "Quiet" /\ new.starting = sm.starting /\ new.stopping = sm.stopping
          /\ ~ Voiced(new.state) /\ ~ Voiced(sm.state) /\ new.state # "Starting" /\ new.state # "Stopping"
      BY <1>3, <3>2 DEF Voiced
    <3> QED BY <1>3, <2>2, <3>2, <3>3, <3>4 DEF new
  <2> QED BY <2>1, <2>2
<1>4. CASE sm.state = "Starting"
  <2>1. CASE loud
    <3>1. moved = M("Starting", sm.starting + 1, sm.stopping) BY <1>1, <1>4, <2>1 DEF Moved
    <3> HIDE DEF moved, new
    <3>2. CASE sm.starting + 1 >= StartFrames
      <4>1. new = M("Speaking", 0, sm.stopping) BY <1>2, <3>1, <3>2
      <4>2. new \in VadMachines BY <1>1, <4>1 DEF VadMachines
      <4>5. /\ new.state = "Speaking" /\ new.starting = 0 /\ new.stopping = sm.stopping
            /\ Voiced(new.state) /\ ~ Voiced(sm.state) /\ new.state # "Starting" /\ new.state # "Stopping"
        BY <1>4, <4>1 DEF Voiced
      <4> QED BY <1>4, <2>1, <3>2, <4>1, <4>2, <4>5 DEF new
    <3>3. CASE ~ (sm.starting + 1 >= StartFrames)
      <4>1. new = M("Starting", sm.starting + 1, sm.stopping) BY <1>2, <3>1, <3>3
      <4>2. new \in VadMachines BY <1>1, <4>1 DEF VadMachines
      <4>3. sm.starting + 1 < StartFrames BY <1>0, <1>1, <3>3
      <4>5. /\ new.state = "Starting" /\ new.starting = sm.starting + 1 /\ new.stopping = sm.stopping
            /\ ~ Voiced(new.state) /\ ~ Voiced(sm.state) /\ new.state # "Stopping"
        BY <1>4, <4>1 DEF Voiced
      <4> QED BY <1>4, <2>1, <4>1, <4>2, <4>3, <4>5 DEF new
    <3> QED BY <3>2, <3>3
  <2>2. CASE ~ loud
    <3>1. moved = M("Quiet", 0, sm.stopping) BY <1>1, <1>4, <2>2 DEF Moved
    <3> HIDE DEF moved, new
    <3>2. new = M("Quiet", 0, sm.stopping) BY <1>2, <3>1
    <3>3. new \in VadMachines BY <1>1, <3>2 DEF VadMachines
    <3>4. /\ new.state = "Quiet" /\ new.starting = 0 /\ new.stopping = sm.stopping
          /\ ~ Voiced(new.state) /\ ~ Voiced(sm.state) /\ new.state # "Starting" /\ new.state # "Stopping"
      BY <1>4, <3>2 DEF Voiced
    <3> QED BY <1>4, <2>2, <3>2, <3>3, <3>4 DEF new
  <2> QED BY <2>1, <2>2
<1>5. CASE sm.state = "Speaking"
  <2>1. CASE loud
    <3>1. moved = M("Speaking", sm.starting, sm.stopping) BY <1>1, <1>5, <2>1 DEF Moved
    <3> HIDE DEF moved, new
    <3>2. new = M("Speaking", sm.starting, sm.stopping) BY <1>2, <3>1
    <3>3. new \in VadMachines BY <1>1, <3>2 DEF VadMachines
    <3>4. /\ new.state = "Speaking" /\ new.starting = sm.starting /\ new.stopping = sm.stopping
          /\ Voiced(new.state) /\ Voiced(sm.state) /\ new.state # "Starting" /\ new.state # "Stopping"
      BY <1>5, <3>2 DEF Voiced
    <3> QED BY <1>5, <2>1, <3>2, <3>3, <3>4 DEF new
  <2>2. CASE ~ loud
    <3>1. moved = M("Stopping", sm.starting, 1) BY <1>1, <1>5, <2>2 DEF Moved
    <3> HIDE DEF moved, new
    <3>2. CASE 1 >= StopFrames
      <4>1. new = M("Quiet", sm.starting, 0) BY <1>2, <3>1, <3>2
      <4>2. new \in VadMachines BY <1>1, <4>1 DEF VadMachines
      <4>5. /\ new.state = "Quiet" /\ new.starting = sm.starting /\ new.stopping = 0
            /\ ~ Voiced(new.state) /\ Voiced(sm.state) /\ new.state # "Starting" /\ new.state # "Stopping"
        BY <1>5, <4>1 DEF Voiced
      <4> QED BY <1>5, <2>2, <3>2, <4>1, <4>2, <4>5 DEF new
    <3>3. CASE ~ (1 >= StopFrames)
      <4>1. new = M("Stopping", sm.starting, 1) BY <1>2, <3>1, <3>3
      <4>2. new \in VadMachines BY <1>1, <4>1 DEF VadMachines
      <4>3. 1 < StopFrames BY <1>0, <1>1, <3>3
      <4>5. /\ new.state = "Stopping" /\ new.starting = sm.starting /\ new.stopping = 1
            /\ Voiced(new.state) /\ Voiced(sm.state) /\ new.state # "Starting"
        BY <1>5, <4>1 DEF Voiced
      <4> QED BY <1>5, <2>2, <4>1, <4>2, <4>3, <4>5 DEF new
    <3> QED BY <3>2, <3>3
  <2> QED BY <2>1, <2>2
<1>6. CASE sm.state = "Stopping"
  <2>1. CASE loud
    <3>1. moved = M("Speaking", sm.starting, 0) BY <1>1, <1>6, <2>1 DEF Moved
    <3> HIDE DEF moved, new
    <3>2. new = M("Speaking", sm.starting, 0) BY <1>2, <3>1
    <3>3. new \in VadMachines BY <1>1, <3>2 DEF VadMachines
    <3>4. /\ new.state = "Speaking" /\ new.starting = sm.starting /\ new.stopping = 0
          /\ Voiced(new.state) /\ Voiced(sm.state) /\ new.state # "Starting" /\ new.state # "Stopping"
      BY <1>6, <3>2 DEF Voiced
    <3> QED BY <1>6, <2>1, <3>2, <3>3, <3>4 DEF new
  <2>2. CASE ~ loud
    <3>1. moved = M("Stopping", sm.starting, sm.stopping + 1) BY <1>1, <1>6, <2>2 DEF Moved
    <3> HIDE DEF moved, new
    <3>2. CASE sm.stopping + 1 >= StopFrames
      <4>1. new = M("Quiet", sm.starting, 0) BY <1>2, <3>1, <3>2
      <4>2. new \in VadMachines BY <1>1, <4>1 DEF VadMachines
      <4>5. /\ new.state = "Quiet" /\ new.starting = sm.starting /\ new.stopping = 0
            /\ ~ Voiced(new.state) /\ Voiced(sm.state) /\ new.state # "Starting" /\ new.state # "Stopping"
        BY <1>6, <4>1 DEF Voiced
      <4> QED BY <1>6, <2>2, <3>2, <4>1, <4>2, <4>5 DEF new
    <3>3. CASE ~ (sm.stopping + 1 >= StopFrames)
      <4>1. new = M("Stopping", sm.starting, sm.stopping + 1) BY <1>2, <3>1, <3>3
      <4>2. new \in VadMachines BY <1>1, <4>1 DEF VadMachines
      <4>3. sm.stopping + 1 < StopFrames BY <1>0, <1>1, <3>3
      <4>5. /\ new.state = "Stopping" /\ new.starting = sm.starting /\ new.stopping = sm.stopping + 1
            /\ Voiced(new.state) /\ Voiced(sm.state) /\ new.state # "Starting"
        BY <1>6, <4>1 DEF Voiced
      <4> QED BY <1>6, <2>2, <4>1, <4>2, <4>3, <4>5 DEF new
    <3> QED BY <3>2, <3>3
  <2> QED BY <2>1, <2>2
<1> QED BY <1>3, <1>4, <1>5, <1>6 DEF VadMachines

\* An edge is where the voice begins or ends.
LEMMA EdgeOfVoice ==
  ASSUME NEW sm \in VadMachines, NEW loud \in BOOLEAN
  PROVE  LET new == Advance(sm, loud) IN
         Edge(sm.state, new.state) =
           IF Voiced(new.state) /\ ~ Voiced(sm.state) THEN <<"started">>
           ELSE IF ~ Voiced(new.state) /\ Voiced(sm.state) THEN <<"stopped">> ELSE <<>>
<1> DEFINE new == Advance(sm, loud)
<1>1. /\ new \in VadMachines
      /\ Voiced(new.state) /\ ~ Voiced(sm.state) => new.state = "Speaking"
      /\ ~ Voiced(new.state) /\ Voiced(sm.state) => new.state = "Quiet"
  BY AdvanceCounts
<1> HIDE DEF new
<1> QED BY <1>1 DEF Edge, Voiced, new

\* One window: the count, the edge, and what the edge needs.
LEMMA WindowCounts ==
  ASSUME VadInv, VadWindow
  PROVE  /\ VadInv'
         /\ Len(edges') > Len(edges) =>
              IF edges'[Len(edges')] = "started" THEN run'.loud /\ run'.n >= StartFrames
              ELSE ~ run'.loud /\ run'.n >= StopFrames
<1> DEFINE loud == Head(windows)
           new == Advance(vad, loud)
           edge == Edge(lastState, new.state)
<1>1. VadTypes /\ RunCounted /\ EdgesAlternate /\ (Voiced(vad.state) <=> Len(edges) % 2 = 1)
  BY DEF VadInv
<1>2. loud \in BOOLEAN /\ Tail(windows) \in Seq(BOOLEAN)
  BY <1>1, TailAt DEF VadTypes, VadWindow
<1>3. /\ windows' = Tail(windows) /\ frame' = frame /\ vad' = new /\ lastState' = new.state
      /\ edges' = edges \o edge
      /\ run' = IF loud = run.loud
                THEN [run EXCEPT !.n = IF @ < StartFrames + StopFrames THEN @ + 1 ELSE @]
                ELSE [loud |-> loud, n |-> 1]
  BY DEF VadWindow
<1>4. vad \in VadMachines /\ lastState = vad.state /\ run \in [loud : BOOLEAN, n : Nat]
  BY <1>1 DEF VadTypes
<1>5. /\ new \in VadMachines
      /\ new.state = "Starting" =>
           /\ loud /\ new.starting < StartFrames
           /\ \/ vad.state = "Quiet" /\ new.starting = 1
              \/ vad.state = "Starting" /\ new.starting = vad.starting + 1
      /\ new.state = "Stopping" =>
           /\ ~ loud /\ new.stopping < StopFrames
           /\ \/ vad.state = "Speaking" /\ new.stopping = 1
              \/ vad.state = "Stopping" /\ new.stopping = vad.stopping + 1
      /\ Voiced(new.state) /\ ~ Voiced(vad.state) =>
           /\ loud /\ new.state = "Speaking"
           /\ \/ vad.state = "Quiet" /\ 1 >= StartFrames
              \/ vad.state = "Starting" /\ vad.starting + 1 >= StartFrames
      /\ ~ Voiced(new.state) /\ Voiced(vad.state) =>
           /\ ~ loud /\ new.state = "Quiet"
           /\ \/ vad.state = "Speaking" /\ 1 >= StopFrames
              \/ vad.state = "Stopping" /\ vad.stopping + 1 >= StopFrames
  BY <1>2, <1>4, AdvanceCounts, ZenonT(60)
<1>6. edge = IF Voiced(new.state) /\ ~ Voiced(vad.state) THEN <<"started">>
             ELSE IF ~ Voiced(new.state) /\ Voiced(vad.state) THEN <<"stopped">> ELSE <<>>
  BY <1>2, <1>4, EdgeOfVoice
<1> HIDE DEF loud, new, edge
<1>7. StartFrames \in Nat \ {0} /\ StopFrames \in Nat \ {0} BY TurnAssumption
<1>8. /\ run' \in [loud : BOOLEAN, n : Nat] /\ run'.loud = loud /\ run'.n >= 1
      /\ loud = run.loud => run'.n = run.n + 1 \/ run'.n >= StartFrames + StopFrames
  <2>1. CASE loud = run.loud
    <3>1. run.n \in Nat /\ StartFrames + StopFrames \in Nat /\ StartFrames + StopFrames >= 1 BY <1>4, <1>7
    <3>2. /\ run' \in [loud : BOOLEAN, n : Nat] /\ run'.loud = run.loud
          /\ run'.n = IF run.n < StartFrames + StopFrames THEN run.n + 1 ELSE run.n
      BY <1>3, <1>4, <2>1, <3>1
    <3> QED BY <2>1, <3>1, <3>2
  <2>2. CASE loud # run.loud BY <1>2, <1>3, <2>2
  <2> QED BY <2>1, <2>2
<1>9. vad.state = "Starting" => run.loud /\ vad.starting <= run.n /\ vad.starting < StartFrames
  BY <1>1 DEF RunCounted
<1>10. vad.state = "Stopping" => ~ run.loud /\ vad.stopping <= run.n /\ vad.stopping < StopFrames
  BY <1>1 DEF RunCounted
<1>11. vad.starting \in Nat /\ vad.stopping \in Nat /\ run.n \in Nat /\ run.loud \in BOOLEAN /\ run'.n \in Nat
  BY <1>4, <1>8 DEF VadMachines
<1>12. vad.state = "Starting" /\ loud => vad.starting + 1 <= run'.n
  <2> SUFFICES ASSUME vad.state = "Starting", loud PROVE vad.starting + 1 <= run'.n OBVIOUS
  <2>1. loud = run.loud BY <1>2, <1>9, <1>11
  <2>2. run'.n = run.n + 1 \/ run'.n >= StartFrames + StopFrames BY <1>8, <2>1
  <2> QED BY <1>7, <1>9, <1>11, <2>2
<1>13. vad.state = "Stopping" /\ ~ loud => vad.stopping + 1 <= run'.n
  <2> SUFFICES ASSUME vad.state = "Stopping", ~ loud PROVE vad.stopping + 1 <= run'.n OBVIOUS
  <2>1. loud = run.loud BY <1>2, <1>10, <1>11
  <2>2. run'.n = run.n + 1 \/ run'.n >= StartFrames + StopFrames BY <1>8, <2>1
  <2> QED BY <1>7, <1>10, <1>11, <2>2
<1>14. RunCounted'
  BY <1>3, <1>5, <1>8, <1>12, <1>13 DEF RunCounted
<1>15. /\ Voiced(new.state) /\ ~ Voiced(vad.state) => loud /\ run'.n >= StartFrames
       /\ ~ Voiced(new.state) /\ Voiced(vad.state) => ~ loud /\ run'.n >= StopFrames
  BY <1>5, <1>7, <1>8, <1>11, <1>12, <1>13
<1>16. edges \in Seq({"started", "stopped"}) /\ Len(edges) \in Nat BY <1>1, LenProperties DEF VadTypes
<1>17. \A k \in 1 .. Len(edges) : edges[k] = (IF k % 2 = 1 THEN "started" ELSE "stopped")
  BY <1>1, <1>16, LenProperties DEF EdgesAlternate
<1>18. \A n \in Nat : n % 2 = 1 <=> ~ ((n + 1) % 2 = 1) OBVIOUS
<1>19. CASE Voiced(new.state) <=> Voiced(vad.state)
  <2>1. edges' = edges BY <1>3, <1>6, <1>16, <1>19, ConcatEmptySeq
  <2>2. ~ (Len(edges') > Len(edges)) BY <1>16, <2>1
  <2>3. EdgesAlternate' BY <1>1, <2>1 DEF EdgesAlternate
  <2>4. VadTypes' BY <1>1, <1>2, <1>3, <1>5, <1>8, <2>1 DEF VadTypes
  <2>5. Voiced(vad'.state) <=> Len(edges') % 2 = 1 BY <1>1, <1>3, <1>19, <2>1
  <2> QED BY <1>14, <2>2, <2>3, <2>4, <2>5 DEF VadInv, Voiced
<1>20. CASE ~ (Voiced(new.state) <=> Voiced(vad.state))
  <2> DEFINE e == IF Voiced(new.state) THEN "started" ELSE "stopped"
  <2>1. edge = <<e>> BY <1>6, <1>20
  <2>2. e \in {"started", "stopped"} OBVIOUS
  <2>3. e = "started" <=> Voiced(new.state) OBVIOUS
  <2> HIDE DEF e
  <2>4. edges' = Append(edges, e) BY <1>3, <1>16, <2>1, <2>2, AppendIsConcat
  <2>5. /\ edges' \in Seq({"started", "stopped"}) /\ Len(edges') = Len(edges) + 1
        /\ edges'[Len(edges) + 1] = e /\ \A k \in 1 .. Len(edges) : edges'[k] = edges[k]
    BY <1>16, <2>2, <2>4, AppendProperties
  <2>6. Voiced(new.state) <=> ~ (Len(edges) % 2 = 1) BY <1>1, <1>20
  <2>7. Voiced(new.state) <=> (Len(edges) + 1) % 2 = 1 BY <1>16, <1>18, <2>6
  <2>8. \A k \in 1 .. Len(edges') : k \in 1 .. Len(edges) \/ k = Len(edges) + 1 BY <1>16, <2>5
  <2>9. DOMAIN edges' = 1 .. Len(edges') BY <2>5, LenProperties
  <2>10. e = (IF (Len(edges) + 1) % 2 = 1 THEN "started" ELSE "stopped") BY <2>2, <2>3, <2>7
  <2>11. EdgesAlternate' BY <1>17, <2>5, <2>8, <2>9, <2>10 DEF EdgesAlternate
  <2>12. VadTypes' BY <1>1, <1>2, <1>3, <1>5, <1>8, <2>5 DEF VadTypes
  <2>13. Voiced(vad'.state) <=> Len(edges') % 2 = 1 BY <1>3, <2>5, <2>7
  <2>14. edges'[Len(edges')] = e BY <2>5
  <2>15. IF e = "started" THEN run'.loud /\ run'.n >= StartFrames
         ELSE ~ run'.loud /\ run'.n >= StopFrames
    BY <1>8, <1>15, <1>20, <2>3
  <2> QED BY <1>14, <2>11, <2>12, <2>13, <2>14, <2>15 DEF VadInv, Voiced
<1> QED BY <1>19, <1>20

\* The stop strategy. TurnMsgs: what is on its way to the turn stage.
TurnMsgs == [kind : {"started", "stopped", "audio"}, ws : Seq(BOOLEAN)]

\* Where the k-th message of q is handled the caller speaks: since before q (on), or since an
\* edge in it.
SpeaksAt(q, on, k) ==
  \/ on /\ \A j \in 1 .. k - 1 : q[j].kind # "stopped"
  \/ \E i \in 1 .. k - 1 : q[i].kind = "started" /\ \A j \in i + 1 .. k - 1 : q[j].kind # "stopped"

\* A stop edge is behind its start.
StopsPaired(q, on) == \A k \in 1 .. Len(q) : q[k].kind = "stopped" => SpeaksAt(q, on, k)

Stoppers == [speaking : BOOLEAN, complete : BOOLEAN, text : BOOLEAN, final : BOOLEAN,
             speechDone : BOOLEAN, sttDone : BOOLEAN]
Spans == [final : BOOLEAN, reported : BOOLEAN, heard : BOOLEAN]

StopTypes ==
  /\ turnCase.stop \in {"none", "analyzer", "timeout"}
  /\ toTurn \in Seq(TurnMsgs) /\ turnVad \in {"Quiet", "Speaking"} /\ prediction \in BOOLEAN
  /\ stopper \in Stoppers /\ since \in Spans /\ quiet \in Nat /\ stops \in Seq(BOOLEAN)

\* What a strategy s has gathered was gathered since the caller began to speak.
Gathered(s, sn, on, q) ==
  /\ s.final => sn.final
  /\ s.complete => sn.reported
  /\ s.sttDone => sn.final \/ (~ on /\ q >= SttTimeout)
  /\ s.speechDone => ~ on /\ q >= SpeechTimeout

StopperInv ==
  /\ StopTypes /\ TurnStopEarned /\ VerdictLags
  /\ StopsPaired(toTurn, turnVad = "Speaking")
  /\ Voiced(vad.state) => SpeaksAt(toTurn, turnVad = "Speaking", Len(toTurn) + 1)
  /\ Gathered(stopper, since, turnVad = "Speaking", quiet)

\* A message behind the others changes nothing for them.
LEMMA PairedAppend ==
  ASSUME NEW q \in Seq(TurnMsgs), NEW m \in TurnMsgs, NEW on \in BOOLEAN, StopsPaired(q, on),
         m.kind = "stopped" => SpeaksAt(q, on, Len(q) + 1)
  PROVE  /\ Append(q, m) \in Seq(TurnMsgs) /\ StopsPaired(Append(q, m), on)
         /\ m.kind = "started" => SpeaksAt(Append(q, m), on, Len(Append(q, m)) + 1)
         /\ m.kind = "audio" /\ SpeaksAt(q, on, Len(q) + 1)
              => SpeaksAt(Append(q, m), on, Len(Append(q, m)) + 1)
<1> DEFINE a == Append(q, m)
<1>1. /\ a \in Seq(TurnMsgs) /\ Len(q) \in Nat /\ Len(a) = Len(q) + 1 /\ a[Len(q) + 1] = m
      /\ \A k \in 1 .. Len(q) : a[k] = q[k]
  BY AppendProperties, LenProperties
<1> HIDE DEF a
<1>2. ASSUME NEW k \in 1 .. Len(q) + 1, SpeaksAt(q, on, k) PROVE SpeaksAt(a, on, k)
  <2>1. \A j \in 1 .. k - 1 : j \in 1 .. Len(q) /\ a[j] = q[j] BY <1>1
  <2>2. CASE on /\ \A j \in 1 .. k - 1 : q[j].kind # "stopped" BY <2>1, <2>2 DEF SpeaksAt
  <2>3. ASSUME NEW i \in 1 .. k - 1, q[i].kind = "started", \A j \in i + 1 .. k - 1 : q[j].kind # "stopped"
        PROVE  SpeaksAt(a, on, k)
    <3>1. a[i].kind = "started" BY <2>1, <2>3
    <3>2. \A j \in i + 1 .. k - 1 : j \in 1 .. k - 1 BY <1>1
    <3>3. \A j \in i + 1 .. k - 1 : a[j].kind # "stopped" BY <2>1, <2>3, <3>2
    <3> QED BY <3>1, <3>3 DEF SpeaksAt
  <2> QED BY <1>2, <2>2, <2>3 DEF SpeaksAt
<1>3. \A k \in 1 .. Len(a) : k \in 1 .. Len(q) \/ k = Len(q) + 1 BY <1>1
<1>4. Len(q) + 1 \in 1 .. Len(q) + 1 /\ \A k \in 1 .. Len(q) : k \in 1 .. Len(q) + 1 BY <1>1
<1>5. StopsPaired(a, on) BY <1>1, <1>2, <1>3, <1>4 DEF StopsPaired
<1>6. ASSUME m.kind = "started" PROVE SpeaksAt(a, on, Len(a) + 1)
  <2>1. Len(q) + 1 \in 1 .. (Len(a) + 1) - 1 /\ a[Len(q) + 1].kind = "started" BY <1>1, <1>6
  <2>2. (Len(q) + 1) + 1 .. (Len(a) + 1) - 1 = {} BY <1>1
  <2> QED BY <2>1, <2>2 DEF SpeaksAt
<1>7. ASSUME m.kind = "audio", SpeaksAt(q, on, Len(q) + 1) PROVE SpeaksAt(a, on, Len(a) + 1)
  <2>1. SpeaksAt(a, on, Len(q) + 1) BY <1>2, <1>4, <1>7
  <2>2. a[Len(q) + 1].kind # "stopped" BY <1>1, <1>7
  <2>3. CASE on /\ \A j \in 1 .. (Len(q) + 1) - 1 : a[j].kind # "stopped"
    <3>1. \A j \in 1 .. (Len(a) + 1) - 1 : j \in 1 .. (Len(q) + 1) - 1 \/ j = Len(q) + 1 BY <1>1
    <3> QED BY <2>2, <2>3, <3>1 DEF SpeaksAt
  <2>4. ASSUME NEW i \in 1 .. (Len(q) + 1) - 1, a[i].kind = "started",
               \A j \in i + 1 .. (Len(q) + 1) - 1 : a[j].kind # "stopped"
        PROVE  SpeaksAt(a, on, Len(a) + 1)
    <3>1. i \in 1 .. (Len(a) + 1) - 1 BY <1>1
    <3>2. \A j \in i + 1 .. (Len(a) + 1) - 1 : j \in i + 1 .. (Len(q) + 1) - 1 \/ j = Len(q) + 1 BY <1>1
    <3> QED BY <2>2, <2>4, <3>1, <3>2 DEF SpeaksAt
  <2> QED BY <2>1, <2>3, <2>4 DEF SpeaksAt
<1> QED BY <1>1, <1>5, <1>6, <1>7 DEF a

\* The first message is handled.
LEMMA PairedTail ==
  ASSUME NEW q \in Seq(TurnMsgs), q # <<>>, NEW on \in BOOLEAN, NEW on2 \in BOOLEAN, StopsPaired(q, on),
         q[1].kind = "started" => on2,
         q[1].kind = "audio" => on2 = on
  PROVE  /\ q[1].kind = "stopped" => on
         /\ StopsPaired(Tail(q), on2)
         /\ SpeaksAt(q, on, Len(q) + 1) => SpeaksAt(Tail(q), on2, Len(Tail(q)) + 1)
<1> DEFINE t == Tail(q)
<1>1. /\ t \in Seq(TurnMsgs) /\ Len(q) \in Nat /\ Len(t) = Len(q) - 1 /\ 1 \in 1 .. Len(q)
      /\ \A k \in 1 .. Len(t) : k + 1 \in 1 .. Len(q) /\ t[k] = q[k + 1]
  BY TailAt
<1> HIDE DEF t
<1>2. q[1].kind = "stopped" => on
  <2>1. 1 .. 1 - 1 = {} OBVIOUS
  <2> QED BY <1>1, <2>1 DEF StopsPaired, SpeaksAt
<1>3. q[1].kind \in {"started", "stopped", "audio"}
  <2>1. q[1] \in TurnMsgs BY <1>1
  <2> QED BY <2>1 DEF TurnMsgs
<1>4. ASSUME NEW k \in 1 .. Len(q), SpeaksAt(q, on, k + 1) PROVE SpeaksAt(t, on2, k)
  <2>1. \A j \in 1 .. k - 1 : j \in 1 .. Len(t) /\ j + 1 \in 1 .. (k + 1) - 1 /\ t[j] = q[j + 1] BY <1>1
  <2>2. 1 \in 1 .. (k + 1) - 1 OBVIOUS
  <2>3. CASE on /\ \A j \in 1 .. (k + 1) - 1 : q[j].kind # "stopped"
    <3>1. on2 BY <1>3, <2>2, <2>3
    <3> QED BY <2>1, <2>3, <3>1 DEF SpeaksAt
  <2>4. ASSUME NEW i \in 1 .. (k + 1) - 1, q[i].kind = "started",
               \A j \in i + 1 .. (k + 1) - 1 : q[j].kind # "stopped"
        PROVE  SpeaksAt(t, on2, k)
    <3>1. CASE i = 1
      <4>1. on2 BY <2>4, <3>1
      <4>2. \A j \in 1 .. k - 1 : j + 1 \in i + 1 .. (k + 1) - 1 BY <3>1
      <4>3. \A j \in 1 .. k - 1 : t[j].kind # "stopped" BY <2>1, <2>4, <4>2
      <4> QED BY <4>1, <4>3 DEF SpeaksAt
    <3>2. CASE i # 1
      <4>1. i - 1 \in 1 .. k - 1 /\ (i - 1) + 1 = i BY <3>2
      <4>2. t[i - 1].kind = "started" BY <2>1, <2>4, <4>1
      <4>3. \A j \in (i - 1) + 1 .. k - 1 : j \in 1 .. k - 1 /\ j + 1 \in i + 1 .. (k + 1) - 1 BY <3>2
      <4>4. \A j \in (i - 1) + 1 .. k - 1 : t[j].kind # "stopped" BY <2>1, <2>4, <4>3
      <4> QED BY <4>1, <4>2, <4>4 DEF SpeaksAt
    <3> QED BY <3>1, <3>2
  <2> QED BY <1>4, <2>3, <2>4 DEF SpeaksAt
<1>5. StopsPaired(t, on2)
  <2> SUFFICES ASSUME NEW k \in 1 .. Len(t), t[k].kind = "stopped" PROVE SpeaksAt(t, on2, k)
    BY DEF StopsPaired
  <2>1. k + 1 \in 1 .. Len(q) /\ q[k + 1].kind = "stopped" /\ k \in 1 .. Len(q) BY <1>1
  <2>2. SpeaksAt(q, on, k + 1) BY <2>1 DEF StopsPaired
  <2> QED BY <1>4, <2>1, <2>2
<1>6. SpeaksAt(q, on, Len(q) + 1) => SpeaksAt(t, on2, Len(t) + 1)
  <2>1. Len(q) \in 1 .. Len(q) /\ Len(t) + 1 = Len(q) BY <1>1
  <2> QED BY <1>4, <2>1
<1> QED BY <1>2, <1>5, <1>6 DEF t

\* Only the kinds of the messages matter.
LEMMA PairedAlike ==
  ASSUME NEW q \in Seq(TurnMsgs), NEW p \in Seq(TurnMsgs), NEW on \in BOOLEAN, Len(p) = Len(q),
         \A k \in 1 .. Len(q) : p[k].kind = q[k].kind, StopsPaired(q, on)
  PROVE  /\ StopsPaired(p, on)
         /\ SpeaksAt(q, on, Len(q) + 1) => SpeaksAt(p, on, Len(p) + 1)
<1>1. Len(q) \in Nat BY LenProperties
<1>2. ASSUME NEW k \in 1 .. Len(q) + 1, SpeaksAt(q, on, k) PROVE SpeaksAt(p, on, k)
  <2>1. \A j \in 1 .. k - 1 : j \in 1 .. Len(q) /\ p[j].kind = q[j].kind BY <1>1
  <2>2. CASE on /\ \A j \in 1 .. k - 1 : q[j].kind # "stopped" BY <2>1, <2>2 DEF SpeaksAt
  <2>3. ASSUME NEW i \in 1 .. k - 1, q[i].kind = "started", \A j \in i + 1 .. k - 1 : q[j].kind # "stopped"
        PROVE  SpeaksAt(p, on, k)
    <3>1. p[i].kind = "started" BY <2>1, <2>3
    <3>2. \A j \in i + 1 .. k - 1 : j \in 1 .. k - 1 BY <1>1
    <3>3. \A j \in i + 1 .. k - 1 : p[j].kind # "stopped" BY <2>1, <2>3, <3>2
    <3> QED BY <3>1, <3>3 DEF SpeaksAt
  <2> QED BY <1>2, <2>2, <2>3 DEF SpeaksAt
<1>3. Len(q) + 1 \in 1 .. Len(q) + 1 /\ \A k \in 1 .. Len(q) : k \in 1 .. Len(q) + 1 BY <1>1
<1> QED BY <1>2, <1>3 DEF StopsPaired

\* What triggers has been earned.
LEMMA DecidedEarned ==
  ASSUME NEW s \in Stoppers, turnCase.stop \in {"none", "analyzer", "timeout"},
         stops \in Seq(BOOLEAN), TurnStopEarned, TurnDecide(s),
         Gathered(s, since', turnVad' = "Speaking", quiet')
  PROVE  /\ stopper' \in Stoppers /\ stops' \in Seq(BOOLEAN) /\ TurnStopEarned'
         /\ Gathered(stopper', since', turnVad' = "Speaking", quiet')
<1>1. CASE Evaluate(s)
  <2>1. stopper' = Waiting BY <1>1 DEF TurnDecide
  <2>2. since'.final \/ quiet' >= SttTimeout BY <1>1 DEF Evaluate, EvaluateTimeout, Gathered
  <2>3. turnCase.stop = "analyzer" => since'.reported BY <1>1 DEF Evaluate, Gathered
  <2>4. turnCase.stop = "timeout" => quiet' >= SpeechTimeout
    BY <1>1 DEF Evaluate, EvaluateTimeout, Gathered
  <2>5. stops' = Append(stops, TRUE) BY <1>1, <2>2, <2>3, <2>4 DEF TurnDecide
  <2>6. /\ stops' \in Seq(BOOLEAN) /\ Len(stops) \in Nat /\ Len(stops') = Len(stops) + 1
        /\ stops'[Len(stops) + 1] = TRUE /\ \A k \in 1 .. Len(stops) : stops'[k] = stops[k]
    BY <2>5, AppendProperties, LenProperties
  <2>7. DOMAIN stops = 1 .. Len(stops) /\ DOMAIN stops' = 1 .. Len(stops') BY <2>6, LenProperties
  <2>8. \A k \in 1 .. Len(stops') : k \in 1 .. Len(stops) \/ k = Len(stops) + 1 BY <2>6
  <2>9. TurnStopEarned' BY <2>6, <2>7, <2>8 DEF TurnStopEarned
  <2>10. Waiting \in Stoppers /\ Gathered(Waiting, since', turnVad' = "Speaking", quiet')
    BY DEF Waiting, Stoppers, Gathered
  <2> QED BY <2>1, <2>6, <2>9, <2>10
<1>2. CASE ~ Evaluate(s)
  <2>1. stopper' = s /\ stops' = stops BY <1>2 DEF TurnDecide
  <2> QED BY <2>1 DEF TurnStopEarned
<1> QED BY <1>1, <1>2

\* Steps that the strategies do not see.
LEMMA StopperLeft ==
  ASSUME StopperInv, UNCHANGED <<turnCase, toTurn, turnVad, prediction, stopVars>>, vad'.state = vad.state
  PROVE  StopperInv'
<1>1. UNCHANGED <<stopper, quiet, since, stops>> BY DEF stopVars
<1>2. /\ StopTypes /\ TurnStopEarned /\ VerdictLags /\ StopsPaired(toTurn, turnVad = "Speaking")
      /\ Voiced(vad.state) => SpeaksAt(toTurn, turnVad = "Speaking", Len(toTurn) + 1)
      /\ Gathered(stopper, since, turnVad = "Speaking", quiet)
  BY DEF StopperInv
<1>3. StopTypes' BY <1>1, <1>2 DEF StopTypes, TurnMsgs, Stoppers, Spans
<1>4. TurnStopEarned' BY <1>1, <1>2 DEF TurnStopEarned
<1>5. StopsPaired(toTurn', turnVad' = "Speaking") BY <1>2
<1>6. Voiced(vad'.state) => SpeaksAt(toTurn', turnVad' = "Speaking", Len(toTurn') + 1) BY <1>2
<1>7. Gathered(stopper', since', turnVad' = "Speaking", quiet') BY <1>1, <1>2
<1>8. VerdictLags' BY <1>1, <1>2 DEF VerdictLags
<1> QED BY <1>3, <1>4, <1>5, <1>6, <1>7, <1>8 DEF StopperInv, StopsPaired, SpeaksAt, Gathered, Voiced

\* An edge of the voice goes out to the turn stage.
LEMMA StopperWindow == ASSUME VadInv, StopperInv, VadWindow PROVE StopperInv'
<1> DEFINE loud == Head(windows)
           new == Advance(vad, loud)
           edge == Edge(lastState, new.state)
           on == turnVad = "Speaking"
           msgs == [k \in DOMAIN edge |-> [kind |-> edge[k], ws |-> <<>>]]
<1>1. vad \in VadMachines /\ lastState = vad.state /\ loud \in BOOLEAN
  BY TailAt DEF VadInv, VadTypes, VadWindow
<1>2. /\ StopTypes /\ TurnStopEarned /\ VerdictLags /\ StopsPaired(toTurn, on)
      /\ Voiced(vad.state) => SpeaksAt(toTurn, on, Len(toTurn) + 1)
      /\ Gathered(stopper, since, on, quiet)
  BY DEF StopperInv
<1>3. /\ vad' = new /\ toTurn' = toTurn \o msgs
      /\ UNCHANGED <<turnCase, turnVad, prediction, stopper, quiet, since, stops>>
  BY DEF VadWindow, stageVars, stopVars
<1>4. edge = IF Voiced(new.state) /\ ~ Voiced(vad.state) THEN <<"started">>
             ELSE IF ~ Voiced(new.state) /\ Voiced(vad.state) THEN <<"stopped">> ELSE <<>>
  BY <1>1, EdgeOfVoice
<1>5. toTurn \in Seq(TurnMsgs) /\ on \in BOOLEAN BY <1>2 DEF StopTypes
<1> HIDE DEF loud, new, edge, on
<1>6. /\ toTurn' \in Seq(TurnMsgs) /\ StopsPaired(toTurn', on)
      /\ Voiced(new.state) => SpeaksAt(toTurn', on, Len(toTurn') + 1)
  <2>1. CASE Voiced(new.state) <=> Voiced(vad.state)
    <3>1. edge = <<>> BY <1>4, <2>1
    <3>2. msgs = <<>> BY <3>1
    <3>3. toTurn' = toTurn BY <1>3, <1>5, <3>2, ConcatEmptySeq
    <3> QED BY <1>2, <1>5, <2>1, <3>3
  <2>2. CASE ~ (Voiced(new.state) <=> Voiced(vad.state))
    <3> DEFINE e == IF Voiced(new.state) THEN "started" ELSE "stopped"
               m == [kind |-> e, ws |-> <<>>]
    <3>1. edge = <<e>> BY <1>4, <2>2
    <3>2. e \in {"started", "stopped"} /\ (e = "started" <=> Voiced(new.state)) OBVIOUS
    <3> HIDE DEF e
    <3>3. msgs = <<m>> BY <3>1
    <3>4. <<>> \in Seq(BOOLEAN) OBVIOUS
    <3>5. m \in TurnMsgs /\ m.kind = e BY <3>2, <3>4 DEF TurnMsgs
    <3> HIDE DEF m, msgs
    <3>6. toTurn' = Append(toTurn, m) BY <1>3, <1>5, <3>3, <3>5, AppendIsConcat
    <3>7. m.kind = "stopped" => SpeaksAt(toTurn, on, Len(toTurn) + 1) BY <1>2, <2>2, <3>2, <3>5
    <3>8. /\ toTurn' \in Seq(TurnMsgs) /\ StopsPaired(toTurn', on)
          /\ m.kind = "started" => SpeaksAt(toTurn', on, Len(toTurn') + 1)
      BY <1>2, <1>5, <3>5, <3>6, <3>7, PairedAppend
    <3> QED BY <3>2, <3>5, <3>8
  <2> QED BY <2>1, <2>2
<1>7. StopTypes' BY <1>2, <1>3, <1>6 DEF StopTypes, TurnMsgs, Stoppers, Spans
<1>8. TurnStopEarned' BY <1>2, <1>3 DEF TurnStopEarned
<1>9. Gathered(stopper', since', turnVad' = "Speaking", quiet') BY <1>2, <1>3 DEF on
<1>10. StopsPaired(toTurn', turnVad' = "Speaking") BY <1>3, <1>6 DEF on
<1>11. Voiced(vad'.state) => SpeaksAt(toTurn', turnVad' = "Speaking", Len(toTurn') + 1)
  BY <1>3, <1>6 DEF on
<1>12. VerdictLags' BY <1>2, <1>3 DEF VerdictLags
<1> QED BY <1>7, <1>8, <1>9, <1>10, <1>11, <1>12 DEF StopperInv, StopsPaired, SpeaksAt, Gathered, Voiced

\* The audio follows the edges that were found in it.
LEMMA StopperForward == ASSUME VadInv, StopperInv, VadForward PROVE StopperInv'
<1> DEFINE on == turnVad = "Speaking"
           m == [kind |-> "audio", ws |-> frame]
<1>1. /\ StopTypes /\ TurnStopEarned /\ VerdictLags /\ StopsPaired(toTurn, on)
      /\ Voiced(vad.state) => SpeaksAt(toTurn, on, Len(toTurn) + 1)
      /\ Gathered(stopper, since, on, quiet)
  BY DEF StopperInv
<1>2. /\ vad' = vad /\ toTurn' = Append(toTurn, m)
      /\ UNCHANGED <<turnCase, turnVad, prediction, stopper, quiet, since, stops>>
  BY DEF VadForward, stageVars, stopVars
<1>3. toTurn \in Seq(TurnMsgs) /\ on \in BOOLEAN BY <1>1 DEF StopTypes
<1>4. m \in TurnMsgs /\ m.kind = "audio" BY DEF VadInv, VadTypes, TurnMsgs
<1> HIDE DEF on, m
<1>5. /\ toTurn' \in Seq(TurnMsgs) /\ StopsPaired(toTurn', on)
      /\ SpeaksAt(toTurn, on, Len(toTurn) + 1) => SpeaksAt(toTurn', on, Len(toTurn') + 1)
  BY <1>1, <1>2, <1>3, <1>4, PairedAppend
<1>6. StopTypes' BY <1>1, <1>2, <1>5 DEF StopTypes, TurnMsgs, Stoppers, Spans
<1>7. TurnStopEarned' BY <1>1, <1>2 DEF TurnStopEarned
<1>8. Gathered(stopper', since', turnVad' = "Speaking", quiet') BY <1>1, <1>2 DEF on
<1>9. StopsPaired(toTurn', turnVad' = "Speaking") BY <1>2, <1>5 DEF on
<1>10. Voiced(vad'.state) => SpeaksAt(toTurn', turnVad' = "Speaking", Len(toTurn') + 1)
  BY <1>1, <1>2, <1>5 DEF on
<1>11. VerdictLags' BY <1>1, <1>2 DEF VerdictLags
<1> QED BY <1>6, <1>7, <1>8, <1>9, <1>10, <1>11 DEF StopperInv, StopsPaired, SpeaksAt, Gathered, Voiced

\* The turn stage analyzes a window, or is done with the audio.
LEMMA StopperAudio == ASSUME StopperInv, TurnAudio PROVE StopperInv'
<1> DEFINE on == turnVad = "Speaking"
<1>1. /\ StopTypes /\ TurnStopEarned /\ VerdictLags /\ StopsPaired(toTurn, on)
      /\ Voiced(vad.state) => SpeaksAt(toTurn, on, Len(toTurn) + 1)
      /\ Gathered(stopper, since, on, quiet)
  BY DEF StopperInv
<1>2. /\ vad' = vad /\ toTurn # <<>> /\ Head(toTurn).kind = "audio"
      /\ UNCHANGED <<turnCase, turnVad, stopper, quiet, stops>>
  BY DEF TurnAudio, vadVars
<1>3. toTurn \in Seq(TurnMsgs) /\ on \in BOOLEAN BY <1>1 DEF StopTypes
<1>4. /\ Head(toTurn) = toTurn[1] /\ Head(toTurn) \in TurnMsgs /\ Tail(toTurn) \in Seq(TurnMsgs)
      /\ Len(toTurn) \in Nat /\ Len(Tail(toTurn)) = Len(toTurn) - 1 /\ 1 \in 1 .. Len(toTurn)
      /\ \A k \in 1 .. Len(Tail(toTurn)) : k + 1 \in 1 .. Len(toTurn) /\ Tail(toTurn)[k] = toTurn[k + 1]
  BY <1>2, <1>3, TailAt
<1> HIDE DEF on
<1>5. /\ toTurn' \in Seq(TurnMsgs) /\ StopsPaired(toTurn', on)
      /\ SpeaksAt(toTurn, on, Len(toTurn) + 1) => SpeaksAt(toTurn', on, Len(toTurn') + 1)
  <2>1. CASE Head(toTurn).ws = <<>>
    <3>1. toTurn' = Tail(toTurn) BY <2>1 DEF TurnAudio
    <3> QED BY <1>1, <1>2, <1>3, <1>4, <3>1, PairedTail
  <2>2. CASE Head(toTurn).ws # <<>>
    <3> DEFINE h == [kind |-> "audio", ws |-> Tail(Head(toTurn).ws)]
               p == <<h>> \o Tail(toTurn)
    <3>1. toTurn' = p BY <2>2 DEF TurnAudio
    <3>2. Head(toTurn).ws \in Seq(BOOLEAN) BY <1>4 DEF TurnMsgs
    <3>3. h \in TurnMsgs /\ h.kind = "audio" BY <2>2, <3>2, TailAt DEF TurnMsgs
    <3> HIDE DEF h
    <3>4. <<h>> \in Seq(TurnMsgs) /\ Len(<<h>>) = 1 /\ <<h>>[1] = h BY <3>3
    <3>5. /\ p \in Seq(TurnMsgs) /\ Len(p) = Len(<<h>>) + Len(Tail(toTurn))
          /\ \A i \in 1 .. Len(<<h>>) + Len(Tail(toTurn)) :
               p[i] = IF i <= Len(<<h>>) THEN <<h>>[i] ELSE Tail(toTurn)[i - Len(<<h>>)]
      BY <1>4, <3>4, ConcatProperties
    <3> HIDE DEF p
    <3>6. Len(p) = Len(toTurn) BY <1>4, <3>4, <3>5
    <3>7. \A i \in 1 .. Len(toTurn) : p[i] = IF i <= 1 THEN h ELSE Tail(toTurn)[i - 1]
      BY <1>4, <3>4, <3>5, <3>6
    <3>8. \A i \in 1 .. Len(toTurn) : i # 1 => i - 1 \in 1 .. Len(Tail(toTurn)) /\ (i - 1) + 1 = i /\ ~ (i <= 1)
      BY <1>4
    <3>9. \A i \in 1 .. Len(toTurn) : p[i].kind = toTurn[i].kind
      <4> SUFFICES ASSUME NEW i \in 1 .. Len(toTurn) PROVE p[i].kind = toTurn[i].kind OBVIOUS
      <4>1. CASE i = 1
        <5>1. p[i] = h BY <3>7, <4>1
        <5> QED BY <1>2, <1>4, <3>3, <4>1, <5>1
      <4>2. CASE i # 1
        <5>1. p[i] = Tail(toTurn)[i - 1] BY <3>7, <3>8, <4>2
        <5>2. Tail(toTurn)[i - 1] = toTurn[i] BY <1>4, <3>8, <4>2
        <5> QED BY <5>1, <5>2
      <4> QED BY <4>1, <4>2
    <3> QED BY <1>1, <1>3, <3>1, <3>5, <3>6, <3>9, PairedAlike
  <2> QED BY <2>1, <2>2
<1>6. /\ prediction' \in BOOLEAN /\ since' \in Spans
      /\ since'.final = since.final /\ since'.reported = since.reported /\ VerdictLags'
  <2>1. prediction \in BOOLEAN /\ since \in Spans BY <1>1 DEF StopTypes
  <2>2. CASE Head(toTurn).ws = <<>>
    <3>1. prediction' = prediction /\ since' = since BY <2>2 DEF TurnAudio
    <3> QED BY <1>1, <1>2, <2>1, <3>1 DEF VerdictLags
  <2>3. CASE Head(toTurn).ws # <<>>
    <3>1. PICK r \in AnalyzeTurn(tracker, turnVad = "Speaking") :
            prediction' = r.complete /\ since' = [since EXCEPT !.heard = TRUE]
      BY <2>3 DEF TurnAudio
    <3>2. \A t, voice : \A x \in AnalyzeTurn(t, voice) : \E c \in BOOLEAN : x.complete = c
      <4> SUFFICES ASSUME NEW t, NEW voice, NEW x \in AnalyzeTurn(t, voice)
                   PROVE  \E c \in BOOLEAN : x.complete = c
        OBVIOUS
      <4> DEFINE next == Append1(t, voice)
                 forced == ~ voice /\ next.triggered /\ next.silence >= SilenceWindows
                 verdicts == IF forced THEN {TRUE} ELSE Predicted(next, voice)
      <4>1. verdicts \subseteq BOOLEAN BY DEF Predicted
      <4>2. \E c \in verdicts : x = [next |-> IF c THEN Cleared ELSE next, complete |-> c]
        BY DEF AnalyzeTurn
      <4> HIDE DEF verdicts
      <4> QED BY <4>1, <4>2
    <3>3. r.complete \in BOOLEAN BY <3>2
    <3>4. \A t : \A x \in AnalyzeTurn(t, TRUE) : x.complete = FALSE BY DEF AnalyzeTurn, Predicted
    <3>5. turnVad = "Speaking" => ~ r.complete
      <4> SUFFICES ASSUME turnVad = "Speaking" PROVE ~ r.complete OBVIOUS
      <4>1. (turnVad = "Speaking") = TRUE OBVIOUS
      <4> QED BY <3>4, <4>1
    <3>6. VerdictLags' BY <1>2, <3>1, <3>5 DEF VerdictLags
    <3> QED BY <2>1, <3>1, <3>3, <3>6 DEF Spans
  <2> QED BY <2>2, <2>3
<1>7. StopTypes' BY <1>1, <1>2, <1>5, <1>6 DEF StopTypes, TurnMsgs, Stoppers, Spans
<1>8. TurnStopEarned' BY <1>1, <1>2 DEF TurnStopEarned
<1>9. Gathered(stopper', since', turnVad' = "Speaking", quiet') BY <1>1, <1>2, <1>6 DEF on, Gathered
<1>10. StopsPaired(toTurn', turnVad' = "Speaking") BY <1>2, <1>5 DEF on
<1>11. Voiced(vad'.state) => SpeaksAt(toTurn', turnVad' = "Speaking", Len(toTurn') + 1)
  BY <1>1, <1>2, <1>5 DEF on
<1> QED BY <1>6, <1>7, <1>8, <1>9, <1>10, <1>11 DEF StopperInv, StopsPaired, SpeaksAt, Gathered, Voiced

\* An edge reaches the turn stage and the strategy.
LEMMA StopperEdge == ASSUME StopperInv, TurnStarted \/ TurnStopped PROVE StopperInv'
<1> DEFINE on == turnVad = "Speaking"
<1>1. /\ StopTypes /\ TurnStopEarned /\ VerdictLags /\ StopsPaired(toTurn, on)
      /\ Voiced(vad.state) => SpeaksAt(toTurn, on, Len(toTurn) + 1)
      /\ Gathered(stopper, since, on, quiet)
  BY DEF StopperInv
<1>2. /\ vad' = vad /\ toTurn # <<>> /\ toTurn' = Tail(toTurn) /\ quiet' = 0
      /\ UNCHANGED <<turnCase, prediction>>
  BY DEF TurnStarted, TurnStopped, vadVars
<1>3. toTurn \in Seq(TurnMsgs) /\ on \in BOOLEAN BY <1>1 DEF StopTypes
<1>4. Head(toTurn) = toTurn[1] /\ Tail(toTurn) \in Seq(TurnMsgs) BY <1>2, <1>3, TailAt
<1>5. stopper \in Stoppers /\ since \in Spans /\ prediction \in BOOLEAN /\ stops \in Seq(BOOLEAN)
      /\ turnCase.stop \in {"none", "analyzer", "timeout"}
  BY <1>1 DEF StopTypes
<1>6. SttTimeout \in Nat /\ SpeechTimeout \in Nat BY TurnAssumption
<1> HIDE DEF on
<1>7. CASE TurnStarted
  <2>1. /\ toTurn[1].kind = "started" /\ turnVad' = "Speaking" /\ TurnDecide(OnStarted(stopper))
        /\ since' = [final |-> FALSE, reported |-> FALSE, heard |-> FALSE]
    BY <1>4, <1>7 DEF TurnStarted
  <2> DEFINE s == OnStarted(stopper)
  <2>2. s \in Stoppers /\ s.final = FALSE /\ s.complete = FALSE /\ s.sttDone = FALSE /\ s.speechDone = FALSE
    BY <1>5 DEF OnStarted, Stoppers
  <2>3. since' \in Spans BY <2>1 DEF Spans
  <2> HIDE DEF s
  <2>4. Gathered(s, since', turnVad' = "Speaking", quiet') BY <2>2 DEF Gathered
  <2>5. /\ stopper' \in Stoppers /\ stops' \in Seq(BOOLEAN) /\ TurnStopEarned'
        /\ Gathered(stopper', since', turnVad' = "Speaking", quiet')
    BY <1>1, <1>5, <2>1, <2>2, <2>4, DecidedEarned DEF s
  <2>6. /\ StopsPaired(toTurn', TRUE)
        /\ SpeaksAt(toTurn, on, Len(toTurn) + 1) => SpeaksAt(toTurn', TRUE, Len(toTurn') + 1)
    BY <1>1, <1>2, <1>3, <2>1, PairedTail
  <2>7. (turnVad' = "Speaking") = TRUE BY <2>1
  <2>8. StopTypes' BY <1>1, <1>2, <1>4, <2>1, <2>3, <2>5 DEF StopTypes, TurnMsgs, Stoppers, Spans
  <2>9. StopsPaired(toTurn', turnVad' = "Speaking") BY <2>6, <2>7
  <2>10. Voiced(vad'.state) => SpeaksAt(toTurn', turnVad' = "Speaking", Len(toTurn') + 1)
    BY <1>1, <1>2, <2>6, <2>7
  <2>11. VerdictLags' BY <2>1 DEF VerdictLags
  <2> QED BY <2>5, <2>8, <2>9, <2>10, <2>11 DEF StopperInv, StopsPaired, SpeaksAt, Gathered, Voiced
<1>8. CASE TurnStopped
  <2> DEFINE s0 == [stopper EXCEPT !.complete = prediction]
             s == OnStopped(s0)
  <2>1. /\ toTurn[1].kind = "stopped" /\ turnVad' = "Quiet" /\ TurnDecide(s)
        /\ since' = [since EXCEPT !.reported = @ \/ prediction]
    BY <1>4, <1>8 DEF TurnStopped
  <2>2. /\ on /\ StopsPaired(toTurn', FALSE)
        /\ SpeaksAt(toTurn, on, Len(toTurn) + 1) => SpeaksAt(toTurn', FALSE, Len(toTurn') + 1)
    BY <1>1, <1>2, <1>3, <2>1, PairedTail
  <2>3. /\ s0 \in Stoppers /\ s0.final = stopper.final /\ s0.complete = prediction
        /\ s0.sttDone = stopper.sttDone /\ s0.speechDone = stopper.speechDone
    BY <1>5 DEF Stoppers
  <2> HIDE DEF s0
  <2>4. /\ s \in Stoppers /\ s.final = s0.final /\ s.complete = s0.complete
        /\ s.sttDone = (s0.sttDone \/ (turnCase.stop = "timeout" /\ (s0.final \/ SttTimeout = 0)))
        /\ s.speechDone = s0.speechDone
    BY <2>3 DEF OnStopped, Stoppers
  <2> HIDE DEF s
  <2>5. /\ since' \in Spans /\ since'.final = since.final
        /\ since'.reported = (since.reported \/ prediction)
    BY <1>5, <2>1 DEF Spans
  <2>6. stopper.sttDone => since.final BY <1>1, <2>2 DEF Gathered
  <2>7. ~ stopper.speechDone BY <1>1, <2>2 DEF Gathered
  <2>8. stopper.final => since.final BY <1>1 DEF Gathered
  <2>9. SttTimeout = 0 => quiet' >= SttTimeout BY <1>2, <1>6
  <2>10. s.sttDone => since'.final \/ quiet' >= SttTimeout
    BY <2>3, <2>4, <2>5, <2>6, <2>8, <2>9
  <2>11. Gathered(s, since', turnVad' = "Speaking", quiet')
    BY <2>1, <2>3, <2>4, <2>5, <2>7, <2>8, <2>10 DEF Gathered
  <2>12. /\ stopper' \in Stoppers /\ stops' \in Seq(BOOLEAN) /\ TurnStopEarned'
         /\ Gathered(stopper', since', turnVad' = "Speaking", quiet')
    BY <1>1, <1>5, <2>1, <2>4, <2>11, DecidedEarned
  <2>13. (turnVad' = "Speaking") = FALSE BY <2>1
  <2>14. StopTypes' BY <1>1, <1>2, <1>4, <2>1, <2>5, <2>12 DEF StopTypes, TurnMsgs, Stoppers, Spans
  <2>15. StopsPaired(toTurn', turnVad' = "Speaking") BY <2>2, <2>13
  <2>16. Voiced(vad'.state) => SpeaksAt(toTurn', turnVad' = "Speaking", Len(toTurn') + 1)
    BY <1>1, <1>2, <2>2, <2>13
  <2>17. VerdictLags' BY <2>1 DEF VerdictLags
  <2> QED BY <2>12, <2>14, <2>15, <2>16, <2>17 DEF StopperInv, StopsPaired, SpeaksAt, Gathered, Voiced
<1> QED BY <1>7, <1>8

\* A transcript or a tick reaches the strategy.
LEMMA StopperHears ==
  ASSUME StopperInv, SilenceTick \/ \E text, final \in BOOLEAN : Transcript(text, final)
  PROVE  StopperInv'
<1> DEFINE on == turnVad = "Speaking"
<1>1. /\ StopTypes /\ TurnStopEarned /\ VerdictLags /\ StopsPaired(toTurn, on)
      /\ Voiced(vad.state) => SpeaksAt(toTurn, on, Len(toTurn) + 1)
      /\ Gathered(stopper, since, on, quiet)
  BY DEF StopperInv
<1>2. UNCHANGED <<vad, toTurn, turnVad, turnCase, prediction>>
  BY DEF SilenceTick, Transcript, vadVars, stageVars
<1>3. stopper \in Stoppers /\ since \in Spans /\ stops \in Seq(BOOLEAN) /\ quiet \in Nat
      /\ turnCase.stop \in {"none", "analyzer", "timeout"} /\ on \in BOOLEAN
  BY <1>1 DEF StopTypes
<1>4. SttTimeout \in Nat /\ SpeechTimeout \in Nat BY TurnAssumption
<1>5. ASSUME NEW s \in Stoppers, TurnDecide(s), Gathered(s, since', on, quiet'), since' \in Spans, quiet' \in Nat,
             since'.heard = since.heard
      PROVE  StopperInv'
  <2>0. Gathered(s, since', turnVad' = "Speaking", quiet') BY <1>2, <1>5
  <2>1. /\ stopper' \in Stoppers /\ stops' \in Seq(BOOLEAN) /\ TurnStopEarned'
        /\ Gathered(stopper', since', turnVad' = "Speaking", quiet')
    BY <1>1, <1>3, <1>5, <2>0, DecidedEarned
  <2>2. StopTypes' BY <1>1, <1>2, <1>5, <2>1 DEF StopTypes, TurnMsgs, Stoppers, Spans
  <2>3. StopsPaired(toTurn', turnVad' = "Speaking") BY <1>1, <1>2
  <2>4. Voiced(vad'.state) => SpeaksAt(toTurn', turnVad' = "Speaking", Len(toTurn') + 1)
    BY <1>1, <1>2
  <2>5. VerdictLags' BY <1>1, <1>2, <1>5 DEF VerdictLags
  <2> QED BY <2>1, <2>2, <2>3, <2>4, <2>5 DEF StopperInv, StopsPaired, SpeaksAt, Gathered, Voiced
<1> HIDE DEF on
<1>6. ASSUME NEW text \in BOOLEAN, NEW final \in BOOLEAN, Transcript(text, final) PROVE StopperInv'
  <2> DEFINE s == OnTranscript(stopper, text, final)
  <2>1. /\ since' = [since EXCEPT !.final = @ \/ final] /\ quiet' = quiet /\ TurnDecide(s)
    BY <1>6 DEF Transcript
  <2>2. since' \in Spans /\ since'.final = (since.final \/ final) /\ since'.reported = since.reported
        /\ since'.heard = since.heard
    BY <1>3, <2>1 DEF Spans
  <2>3. /\ s \in Stoppers /\ s.final = (stopper.final \/ final) /\ s.complete = stopper.complete
        /\ s.sttDone = (stopper.sttDone \/ (turnCase.stop = "timeout" /\ final))
        /\ s.speechDone = stopper.speechDone
    BY <1>3 DEF OnTranscript, Stoppers
  <2> HIDE DEF s
  <2>4. Gathered(s, since', on, quiet') BY <1>1, <2>1, <2>2, <2>3 DEF Gathered
  <2> QED BY <1>3, <1>5, <2>1, <2>2, <2>3, <2>4
<1>7. CASE SilenceTick
  <2> DEFINE s == OnSilenceTick(stopper, quiet')
  <2>1. /\ since' = since /\ TurnDecide(s) /\ turnVad = "Quiet"
        /\ quiet' = IF quiet < SttTimeout + SpeechTimeout THEN quiet + 1 ELSE quiet
    BY <1>7 DEF SilenceTick
  <2>2. quiet' \in Nat /\ quiet' >= quiet BY <1>3, <1>4, <2>1
  <2>3. /\ s \in Stoppers /\ s.final = stopper.final /\ s.complete = stopper.complete
        /\ s.sttDone = (stopper.sttDone \/ (~ stopper.speaking /\ quiet' >= SttTimeout))
        /\ s.speechDone = (stopper.speechDone \/ (~ stopper.speaking /\ quiet' >= SpeechTimeout))
    BY <1>3 DEF OnSilenceTick, Stoppers
  <2> HIDE DEF s
  <2>4. ~ on BY <2>1 DEF on
  <2>5. stopper.sttDone => since.final \/ quiet' >= SttTimeout
    <3>1. stopper.sttDone => since.final \/ quiet >= SttTimeout BY <1>1 DEF Gathered
    <3>2. quiet >= SttTimeout => quiet' >= SttTimeout BY <1>3, <1>4, <2>2
    <3> QED BY <3>1, <3>2
  <2>6. stopper.speechDone => quiet' >= SpeechTimeout
    <3>1. stopper.speechDone => quiet >= SpeechTimeout BY <1>1 DEF Gathered
    <3>2. quiet >= SpeechTimeout => quiet' >= SpeechTimeout BY <1>3, <1>4, <2>2
    <3> QED BY <3>1, <3>2
  <2>7. (stopper.final => since.final) /\ (stopper.complete => since.reported) BY <1>1 DEF Gathered
  <2>8. Gathered(s, since', on, quiet') BY <2>1, <2>3, <2>4, <2>5, <2>6, <2>7 DEF Gathered
  <2> QED BY <1>3, <1>5, <2>1, <2>2, <2>3, <2>8
<1> QED BY <1>6, <1>7

-----------------------------------------------------------------------------
(* Start and mute strategies: what they remember is how it is.             *)

Floors == [bot : BOOLEAN, taken : BOOLEAN, spoken : BOOLEAN, live : SUBSET ToolCalls]
Takings == [words : Nat, over : BOOLEAN]

TalkTypes ==
  /\ floor \in Floors
  /\ starts \in Seq(Takings)
  /\ turnCase.mute \in {"none", "always", "untilFirst", "first", "calls"}

TalkInv ==
  /\ TalkTypes /\ FloorKept
  /\ floor.bot /\ ~ floor.taken => starter
  /\ muter = [bot |-> floor.bot, handled |-> floor.spoken, inProgress |-> floor.live]

\* The strategies know the floor, so the mute has its reason.
LEMMA TalkSound == TalkInv => MuteMatches
<1> SUFFICES ASSUME TalkInv PROVE MuteMatches OBVIOUS
<1>1. muter.bot = floor.bot /\ muter.handled = floor.spoken /\ muter.inProgress = floor.live
  BY DEF TalkInv
<1>2. turnCase.mute \in {"none", "always", "untilFirst", "first", "calls"} BY DEF TalkInv, TalkTypes
<1> QED BY <1>1, <1>2 DEF MuteMatches, Muted

\* Steps of the audio side do not touch them.
LEMMA TalkLeft == ASSUME TalkInv, UNCHANGED <<turnCase, talkVars>> PROVE TalkInv'
BY DEF TalkInv, TalkTypes, FloorKept, Floors, Takings, talkVars

\* The bot begins or ends, a call starts or ends, a turn starts.
LEMMA TalkSteps ==
  ASSUME TalkInv,
         \/ \E on \in BOOLEAN : BotEdge(on)
         \/ \E c \in ToolCalls, event \in {"CallStarted", "CallResult", "CallCancel"} : CallEvent(c, event)
         \/ \E n \in 0 .. MinWords : WordsHeard(n)
  PROVE  TalkInv'
<1>1. /\ TalkTypes /\ FloorKept /\ (floor.bot /\ ~ floor.taken => starter)
      /\ muter = [bot |-> floor.bot, handled |-> floor.spoken, inProgress |-> floor.live]
  BY DEF TalkInv
<1>2. floor \in Floors
      /\ starts \in Seq(Takings)
  BY <1>1 DEF TalkTypes
<1>3. turnCase' = turnCase BY DEF BotEdge, CallEvent, WordsHeard
<1>4. ASSUME NEW on \in BOOLEAN, BotEdge(on) PROVE TalkInv'
  <2>1. /\ floor' = [floor EXCEPT !.bot = on, !.taken = FALSE, !.spoken = @ \/ ~ on] /\ starter' = on
        /\ starts' = starts /\ floor.bot # on
        /\ muter' = OnMuteFrame(muter, IF on THEN "BotStarted" ELSE "BotStopped", "")
    BY <1>4 DEF BotEdge
  <2>2. /\ floor' \in Floors
        /\ floor'.bot = on /\ floor'.spoken = (floor.spoken \/ ~ on) /\ floor'.live = floor.live
    BY <1>2, <2>1 DEF Floors
  <2>3. CASE on
    <3>1. muter' = [muter EXCEPT !.bot = TRUE] BY <2>1, <2>3 DEF OnMuteFrame
    <3>2. floor'.bot = TRUE /\ floor'.spoken = floor.spoken BY <1>2, <2>2, <2>3 DEF Floors
    <3>3. muter' = [bot |-> floor'.bot, handled |-> floor'.spoken, inProgress |-> floor'.live]
      BY <1>1, <2>2, <3>1, <3>2
    <3> QED BY <1>1, <1>3, <2>1, <2>2, <3>3 DEF TalkInv, TalkTypes, FloorKept, Takings
  <2>4. CASE ~ on
    <3>1. muter' = [muter EXCEPT !.bot = FALSE, !.handled = TRUE] BY <2>1, <2>4 DEF OnMuteFrame
    <3>2. floor'.bot = FALSE /\ floor'.spoken = TRUE BY <1>2, <2>2, <2>4 DEF Floors
    <3>3. muter' = [bot |-> floor'.bot, handled |-> floor'.spoken, inProgress |-> floor'.live]
      BY <1>1, <2>2, <3>1, <3>2
    <3> QED BY <1>1, <1>3, <2>1, <2>2, <3>3 DEF TalkInv, TalkTypes, FloorKept, Takings
  <2> QED BY <2>3, <2>4
<1>5. ASSUME NEW c \in ToolCalls, NEW event \in {"CallStarted", "CallResult", "CallCancel"}, CallEvent(c, event)
      PROVE  TalkInv'
  <2>1. /\ floor' = [floor EXCEPT !.live = IF event = "CallStarted" THEN @ \union {c} ELSE @ \ {c}]
        /\ muter' = OnMuteFrame(muter, event, c) /\ starter' = starter /\ starts' = starts
    BY <1>5 DEF CallEvent
  <2>2. /\ floor' \in Floors
        /\ floor'.bot = floor.bot /\ floor'.taken = floor.taken /\ floor'.spoken = floor.spoken
        /\ floor'.live = IF event = "CallStarted" THEN floor.live \union {c} ELSE floor.live \ {c}
    BY <1>2, <2>1 DEF Floors
  <2>3. muter' = [muter EXCEPT !.inProgress = IF event = "CallStarted" THEN @ \union {c} ELSE @ \ {c}]
    BY <2>1 DEF OnMuteFrame
  <2>4. muter' = [bot |-> floor'.bot, handled |-> floor'.spoken, inProgress |-> floor'.live]
    BY <1>1, <2>2, <2>3
  <2> QED BY <1>1, <1>3, <2>1, <2>2, <2>4 DEF TalkInv, TalkTypes, FloorKept, Takings
<1>6. ASSUME NEW n \in 0 .. MinWords, WordsHeard(n) PROVE TalkInv'
  <2> DEFINE m == [words |-> n, over |-> floor.bot /\ ~ floor.taken]
  <2>1. /\ n >= WordFloor /\ starts' = Append(starts, m) /\ starter' = FALSE /\ muter' = muter
        /\ floor' = [floor EXCEPT !.taken = floor.bot]
    BY <1>6 DEF WordsHeard
  <2>2. MinWords \in Nat BY TurnAssumption
  <2>3. m \in Takings /\ m.over = (floor.bot /\ ~ floor.taken) /\ m.words = n BY <1>2, <2>2 DEF Takings, Floors
  <2>4. m.over => m.words >= MinWords
    <3> SUFFICES ASSUME floor.bot, ~ floor.taken PROVE n >= MinWords BY <2>3
    <3>1. WordFloor = IF MinWords > 1 THEN MinWords ELSE 1 BY <1>1 DEF WordFloor
    <3> QED BY <2>1, <2>2, <3>1
  <2> HIDE DEF m
  <2>5. /\ starts' \in Seq(Takings) /\ Len(starts) \in Nat
        /\ Len(starts') = Len(starts) + 1 /\ starts'[Len(starts) + 1] = m
        /\ \A k \in 1 .. Len(starts) : starts'[k] = starts[k]
    BY <1>2, <2>1, <2>3, AppendProperties, LenProperties
  <2>6. DOMAIN starts = 1 .. Len(starts) /\ DOMAIN starts' = 1 .. Len(starts') BY <1>2, <2>5, LenProperties
  <2>7. \A k \in 1 .. Len(starts') : k \in 1 .. Len(starts) \/ k = Len(starts) + 1 BY <2>5
  <2>8. FloorKept' BY <1>1, <2>4, <2>5, <2>6, <2>7 DEF FloorKept
  <2>9. /\ floor' \in Floors /\ floor'.bot = floor.bot /\ floor'.taken = floor.bot
        /\ floor'.spoken = floor.spoken /\ floor'.live = floor.live
    BY <1>2, <2>1 DEF Floors
  <2>10. muter' = [bot |-> floor'.bot, handled |-> floor'.spoken, inProgress |-> floor'.live]
    BY <1>1, <2>1, <2>9
  <2>11. TalkTypes' BY <1>1, <1>3, <2>5, <2>9 DEF TalkTypes, Takings, Floors
  <2>12. floor'.bot /\ ~ floor'.taken => starter' BY <2>9
  <2> QED BY <2>8, <2>10, <2>11, <2>12 DEF TalkInv
<1> QED BY <1>4, <1>5, <1>6

-----------------------------------------------------------------------------
TurnInv == VadInv /\ StopperInv /\ TalkInv

\* The side of the audio, which VadWindow alone moves.
LEMMA VadLeft ==
  ASSUME VadInv, UNCHANGED <<vad, lastState, run, edges>>, windows' \in Seq(BOOLEAN), frame' \in Seq(BOOLEAN)
  PROVE  VadInv'
BY DEF VadInv, VadTypes, RunCounted, EdgesAlternate, Voiced, VadMachines

\* TurnInv is inductive, and an edge has its windows.
LEMMA TurnStep ==
  ASSUME TurnInv, [TurnNext]_turnVars
  PROVE  /\ TurnInv'
         /\ Len(edges') > Len(edges) =>
              IF edges'[Len(edges')] = "started" THEN run'.loud /\ run'.n >= StartFrames
              ELSE ~ run'.loud /\ run'.n >= StopFrames
<1>1. VadInv /\ StopperInv /\ TalkInv BY DEF TurnInv
<1>2. windows \in Seq(BOOLEAN) /\ frame \in Seq(BOOLEAN) /\ Len(edges) \in Nat
  BY <1>1, LenProperties DEF VadInv, VadTypes
<1>3. edges' = edges => ~ (Len(edges') > Len(edges)) BY <1>2
<1>4. ASSUME NEW n \in 1 .. FrameWindows, NEW ws \in [1 .. n -> BOOLEAN], VadAudio(ws)
      PROVE  TurnInv' /\ edges' = edges
  <2>1. ws \in Seq(BOOLEAN) BY TurnAssumption
  <2>2. /\ windows' = ws /\ frame' = ws /\ UNCHANGED <<vad, lastState, run, edges>>
        /\ UNCHANGED <<turnCase, toTurn, turnVad, prediction, stopVars, talkVars>>
    BY <1>4 DEF VadAudio, stageVars
  <2>3. VadInv' BY <1>1, <2>1, <2>2, VadLeft
  <2>4. StopperInv' BY <1>1, <2>2, StopperLeft
  <2>5. TalkInv' BY <1>1, <2>2, TalkLeft
  <2> QED BY <2>2, <2>3, <2>4, <2>5 DEF TurnInv
<1>5. CASE VadWindow
  <2>1. TalkInv' BY <1>1, <1>5, TalkLeft DEF VadWindow
  <2>2. StopperInv' BY <1>1, <1>5, StopperWindow
  <2> QED BY <1>1, <1>5, <2>1, <2>2, WindowCounts DEF TurnInv
<1>6. CASE VadForward
  <2>1. <<>> \in Seq(BOOLEAN) OBVIOUS
  <2>2. UNCHANGED <<vad, lastState, run, edges, windows, turnCase, talkVars>> /\ frame' = <<>>
    BY <1>6 DEF VadForward
  <2>3. VadInv' BY <1>1, <1>2, <2>1, <2>2, VadLeft
  <2>4. StopperInv' BY <1>1, <1>6, StopperForward
  <2>5. TalkInv' BY <1>1, <2>2, TalkLeft
  <2> QED BY <1>3, <2>2, <2>3, <2>4, <2>5 DEF TurnInv
<1>7. CASE TurnAudio \/ TurnStarted \/ TurnStopped \/ SilenceTick
           \/ \E text, final \in BOOLEAN : Transcript(text, final)
  <2>1. UNCHANGED <<vad, lastState, run, edges, windows, frame, turnCase, talkVars>>
    BY <1>7 DEF TurnAudio, TurnStarted, TurnStopped, SilenceTick, Transcript, vadVars
  <2>2. VadInv' BY <1>1, <1>2, <2>1, VadLeft
  <2>3. StopperInv' BY <1>1, <1>7, StopperAudio, StopperEdge, StopperHears
  <2>4. TalkInv' BY <1>1, <2>1, TalkLeft
  <2> QED BY <1>3, <2>1, <2>2, <2>3, <2>4 DEF TurnInv
<1>8. CASE \/ \E on \in BOOLEAN : BotEdge(on)
           \/ \E c \in ToolCalls, event \in {"CallStarted", "CallResult", "CallCancel"} : CallEvent(c, event)
           \/ \E n \in 0 .. MinWords : WordsHeard(n)
  <2>1. /\ UNCHANGED <<vad, lastState, run, edges, windows, frame>>
        /\ UNCHANGED <<turnCase, toTurn, turnVad, prediction, stopVars>>
    BY <1>8 DEF BotEdge, CallEvent, WordsHeard, vadVars, stageVars
  <2>2. VadInv' BY <1>1, <1>2, <2>1, VadLeft
  <2>3. StopperInv' BY <1>1, <2>1, StopperLeft
  <2>4. TalkInv' BY <1>1, <1>8, TalkSteps
  <2> QED BY <1>3, <2>1, <2>2, <2>3, <2>4 DEF TurnInv
<1>9. CASE UNCHANGED turnVars
  <2>1. /\ UNCHANGED <<vad, lastState, run, edges, windows, frame>>
        /\ UNCHANGED <<turnCase, toTurn, turnVad, prediction, stopVars, talkVars>>
    BY <1>9 DEF turnVars, vadVars, stageVars
  <2>2. VadInv' BY <1>1, <1>2, <2>1, VadLeft
  <2>3. StopperInv' BY <1>1, <2>1, StopperLeft
  <2>4. TalkInv' BY <1>1, <2>1, TalkLeft
  <2> QED BY <1>3, <2>1, <2>2, <2>3, <2>4 DEF TurnInv
<1> QED BY <1>3, <1>4, <1>5, <1>6, <1>7, <1>8, <1>9 DEF TurnNext

\* Everything starts quiet.
LEMMA TurnStarts == TurnInit => TurnInv
<1> SUFFICES ASSUME TurnInit PROVE TurnInv OBVIOUS
<1>1. Len(<<>>) = 0 /\ DOMAIN <<>> = {} /\ 1 .. 0 = {} OBVIOUS
<1>2. <<>> \in Seq(BOOLEAN) /\ <<>> \in Seq({"started", "stopped"}) OBVIOUS
<1>3. <<>> \in Seq(TurnMsgs) /\ <<>> \in Seq(Takings) OBVIOUS
<1>4. VadInv
  <2>1. vad = Quieted /\ lastState = "Quiet" /\ windows = <<>> /\ frame = <<>> /\ edges = <<>>
        /\ run = [loud |-> FALSE, n |-> 0]
    BY DEF TurnInit
  <2>2. VadTypes BY <1>2, <2>1 DEF VadTypes, Quieted, VadMachines
  <2>3. RunCounted BY <2>1 DEF RunCounted, Quieted
  <2>4. EdgesAlternate BY <1>1, <2>1 DEF EdgesAlternate
  <2>5. ~ Voiced(vad.state) BY <2>1 DEF Voiced, Quieted
  <2>6. ~ (Len(edges) % 2 = 1) BY <1>1, <2>1
  <2> QED BY <2>2, <2>3, <2>4, <2>5, <2>6 DEF VadInv
<1>5. turnCase.stop \in {"none", "analyzer", "timeout"}
      /\ turnCase.mute \in {"none", "always", "untilFirst", "first", "calls"}
  BY DEF TurnInit
<1>6. StopperInv
  <2>1. /\ toTurn = <<>> /\ turnVad = "Quiet" /\ prediction = FALSE /\ stopper = Waiting /\ quiet = 0
        /\ since = [final |-> FALSE, reported |-> FALSE, heard |-> FALSE] /\ stops = <<>>
        /\ vad = Quieted
    BY DEF TurnInit
  <2>2. StopTypes BY <1>2, <1>3, <1>5, <2>1 DEF StopTypes, Stoppers, Spans, Waiting
  <2>3. TurnStopEarned BY <1>1, <2>1 DEF TurnStopEarned
  <2>4. StopsPaired(toTurn, turnVad = "Speaking") BY <1>1, <2>1 DEF StopsPaired
  <2>5. ~ Voiced(vad.state) BY <2>1 DEF Voiced, Quieted
  <2>6. Gathered(stopper, since, turnVad = "Speaking", quiet) BY <2>1 DEF Gathered, Waiting
  <2>7. VerdictLags BY <2>1 DEF VerdictLags
  <2> QED BY <2>2, <2>3, <2>4, <2>5, <2>6, <2>7 DEF StopperInv
<1>7. TalkInv
  <2>1. /\ starter = FALSE /\ muter = [bot |-> FALSE, handled |-> FALSE, inProgress |-> {}]
        /\ floor = [bot |-> FALSE, taken |-> FALSE, spoken |-> FALSE, live |-> {}] /\ starts = <<>>
    BY DEF TurnInit
  <2>2. TalkTypes BY <1>3, <1>5, <2>1 DEF TalkTypes, Floors
  <2>3. FloorKept BY <1>1, <2>1 DEF FloorKept
  <2> QED BY <2>1, <2>2, <2>3 DEF TalkInv
<1> QED BY <1>4, <1>6, <1>7 DEF TurnInv

\* audio/vad.rs, audio/turn.rs, audio/strategy.rs: for any thresholds and any audio, edges
\* alternate, a turn ends only on transcripts, waits and reports that came since the caller
\* last began to speak, a report that says complete is about the silence before that, a word
\* of assent does not take the floor first, and a mute lasts as long as its reason.
THEOREM FloorIsEarned == TurnSpec => []TurnsEarned
<1>1. TurnInit => TurnInv BY TurnStarts
<1>2. TurnInv /\ [TurnNext]_turnVars => TurnInv' BY TurnStep
<1>3. TurnInv => TurnsEarned
  BY TalkSound DEF TurnInv, VadInv, StopperInv, TalkInv, TurnsEarned
<1> QED BY <1>1, <1>2, <1>3, PTL DEF TurnSpec

\* VadStateMachine::advance: a start edge has StartFrames loud windows in a row behind it and
\* a stop edge StopFrames quiet ones, however the audio is cut into frames.
THEOREM NoiseIsNoEdge == TurnSpec => EdgesDebounced
<1>1. TurnInit => TurnInv BY TurnStarts
<1>2. TurnInv /\ [TurnNext]_turnVars => TurnInv' BY TurnStep
<1>3. TurnInv /\ [TurnNext]_turnVars =>
        [Len(edges') > Len(edges) =>
           IF edges'[Len(edges')] = "started" THEN run'.loud /\ run'.n >= StartFrames
           ELSE ~ run'.loud /\ run'.n >= StopFrames]_turnVars
  BY TurnStep
<1> QED BY <1>1, <1>2, <1>3, PTL DEF TurnSpec, EdgesDebounced

-----------------------------------------------------------------------------
(* RtpMedia.                                                               *)

\* Packet n of the peer, when the stream changed after packet w; the first t of them.
PeerPacket(n, w) == Packet(n, IF n <= w THEN 1 ELSE 2, "peer")
PeerPackets(w, t) == {PeerPacket(n, w) : n \in 1 .. t}
Strange == Packet(1, 9, "stranger")

\* In the order they were sent, one sequence before the other, up to m, beyond m.
InOrder(s) == \A i, j \in 1 .. Len(s) : i < j => s[i].n < s[j].n
Precedes(s, r) == \A i \in 1 .. Len(s), j \in 1 .. Len(r) : s[i].n < r[j].n
UpTo(s, m) == \A i \in 1 .. Len(s) : s[i].n <= m
Beyond(s, m) == \A i \in 1 .. Len(s) : m < s[i].n

\* The packets that have come, from m on.
Arrived(e, m) == {k \in 1 .. MaxPackets : k >= m /\ e[k] >= 0}

NetInv(w) ==
  /\ sent \in 0 .. MaxPackets /\ w \in 0 .. MaxPackets /\ stream \in {1, 2}
  /\ stream = 1 => w = MaxPackets
  /\ stream = 2 => w <= sent
  /\ inFlight \in Seq(PeerPackets(w, sent) \cup {Strange})

\* Every packet behind the jitter buffer was sent no later than m, every one in it later.
OrderInv(w, m) ==
  /\ jitter \in Seq(PeerPackets(w, sent)) /\ released \in Seq(PeerPackets(w, sent))
  /\ inbound \in Seq(PeerPackets(w, sent)) /\ played \in Seq(PeerPackets(w, sent))
  /\ m \in 0 .. MaxPackets
  /\ InOrder(jitter) /\ InOrder(released) /\ InOrder(inbound) /\ InOrder(played)
  /\ Precedes(played, inbound) /\ Precedes(played, released) /\ Precedes(inbound, released)
  /\ UpTo(played, m) /\ UpTo(inbound, m) /\ UpTo(released, m) /\ Beyond(jitter, m)

\* While packets are received: the buffer is of the current stream and has come; m was
\* released last, when the buffer was full behind it; a stream begins behind the other.
JitterInv(w, m) ==
  /\ Len(jitter) <= JitterDepth
  /\ \A k \in 1 .. Len(jitter) : jitter[k].ssrc = currentSsrc /\ early[jitter[k].n] >= 0
  /\ currentSsrc = 0 => m = 0 /\ lastReleased = -1 /\ jitter = <<>>
  /\ currentSsrc = 1 => m <= w
  /\ currentSsrc = 2 => w <= m /\ stream = 2
  /\ lastReleased # -1 =>
       /\ m \in 1 .. sent
       /\ PeerPacket(m, w).ssrc = currentSsrc /\ PeerPacket(m, w).seq = lastReleased
       /\ early[m] >= 0 /\ Cardinality(Arrived(early, m)) > JitterDepth
  /\ lastReleased = -1 => m = (IF currentSsrc = 2 THEN w ELSE 0)

LossInv ==
  /\ early \in [1 .. MaxPackets -> Int]
  /\ \A d \in dropped : d.n \in 1 .. MaxPackets /\ (d.again \/ early[d.n] > JitterDepth)

Clean == learnedPeer # "stranger" /\ ~ flapped

RxInv(w, m) ==
  /\ NetInv(w)
  /\ Clean =>
       /\ currentSsrc \in {0, 1, 2} /\ lastReleased \in Int
       /\ learnedPeer \in {"none", "peer"}
       /\ OrderInv(w, m) /\ LossInv
       /\ rxTask = "loop" => JitterInv(w, m)

\* The channel is closed, and the token fired, by the drop; the loop comes after the preroll.
TxInv ==
  /\ {botAudio, outbound, pending, framesOut, unsent} \subseteq Nat
  /\ BotAudioWhole
  /\ ~ channelOpen => ~ transportUp
  /\ ~ transportUp => rtpHangup
  /\ txTask = "loop" => silent = PrerollFrames
  /\ txTask = "preroll" => framesOut = 0 /\ unsent = 0

RtpInv == TxInv /\ \E w, m \in 0 .. MaxPackets : RxInv(w, m)

\* seq_lt orders the packets of one stream as they were sent, wherever the circle wraps.
LEMMA SeqOrder ==
  ASSUME NEW w \in Int, NEW a \in 1 .. MaxPackets, NEW b \in 1 .. MaxPackets,
         PeerPacket(a, w).ssrc = PeerPacket(b, w).ssrc
  PROVE  /\ PeerPacket(a, w).seq \in 0 .. (SeqCircle - 1)
         /\ PeerPacket(a, w).seq = PeerPacket(b, w).seq <=> a = b
         /\ SeqLt(PeerPacket(a, w).seq, PeerPacket(b, w).seq) <=> a < b
<1> DEFINE off == IF PeerPacket(a, w).ssrc = 2 THEN SeqCircle \div 4 ELSE 0
           x == FirstSeq + a - off
           y == FirstSeq + b - off
           C == SeqCircle
<1>1. C \in Nat \ {0} /\ FirstSeq \in Nat /\ MaxPackets \in Nat /\ MaxPackets < C \div 2
  BY RtpAssumption
<1>2. off \in Int /\ C \div 2 \in Int /\ 2 * (C \div 2) <= C
  BY <1>1
<1>3. x \in Int /\ y \in Int /\ x - y = a - b
  BY <1>1, <1>2
<1>4. PeerPacket(a, w).seq = x % C /\ PeerPacket(b, w).seq = y % C
  BY DEF PeerPacket, Packet
<1> HIDE DEF off, x, y
<1>5. ((x % C) - (y % C)) % C = (a - b) % C
  <2>1. ((x % C) - (y % C)) % C = (x - y) % C
    BY <1>1, <1>3, ModDifference
  <2> QED BY <2>1, <1>3
<1>6. (a - b) % C = IF a - b < 0 THEN a - b + C ELSE a - b
  <2>1. a - b \in Int /\ -C < a - b /\ a - b < C
    BY <1>1, <1>2
  <2> HIDE DEF C
  <2> QED BY <1>1, <2>1, ModNear
<1>7. x % C \in 0 .. (C - 1) /\ y % C \in 0 .. (C - 1)
  BY <1>1, <1>3, ModRange
<1>8. x % C = y % C <=> a = b
  <2>1. ASSUME x % C = y % C PROVE a = b
    <3>1. (x % C) - (y % C) = 0
      BY <2>1, <1>7
    <3>2. 0 % C = 0
      BY <1>1, ModNear
    <3> QED BY <3>1, <3>2, <1>1, <1>2, <1>5, <1>6
  <2>2. ASSUME a = b PROVE x % C = y % C
    BY <2>2 DEF x, y
  <2> QED BY <2>1, <2>2
<1>9. SeqLt(x % C, y % C) <=> a < b
  BY <1>1, <1>2, <1>5, <1>6, <1>8 DEF SeqLt
<1> QED BY <1>4, <1>7, <1>8, <1>9

\* A packet is known by its number.
LEMMA PeerPacketFacts ==
  ASSUME NEW w \in Int, NEW t \in 0 .. MaxPackets, NEW p \in PeerPackets(w, t)
  PROVE  /\ p.n \in 1 .. t /\ p.n \in 1 .. MaxPackets /\ p = PeerPacket(p.n, w) /\ p.src = "peer"
         /\ p.ssrc \in {1, 2} /\ (p.ssrc = 1 <=> p.n <= w) /\ p.seq \in 0 .. (SeqCircle - 1)
<1>0. MaxPackets \in Nat BY RtpAssumption
<1>1. PICK n \in 1 .. t : p = PeerPacket(n, w)
  BY DEF PeerPackets
<1>2. p.n = n /\ p.src = "peer" /\ p.ssrc = IF n <= w THEN 1 ELSE 2
  BY <1>1 DEF PeerPacket, Packet
<1>3. n \in 1 .. MaxPackets
  BY <1>0
<1>4. p.seq \in 0 .. (SeqCircle - 1)
  BY <1>1, <1>3, SeqOrder
<1> QED BY <1>1, <1>2, <1>3, <1>4

\* Where the elements are after one was put in, or taken out.
LEMMA InsertFacts ==
  ASSUME NEW S, NEW s \in Seq(S), NEW e \in S, NEW pos \in 1 .. (Len(s) + 1)
  PROVE  /\ InsertAt(s, pos, e) \in Seq(S) /\ Len(InsertAt(s, pos, e)) = Len(s) + 1
         /\ \A k \in 1 .. (Len(s) + 1) :
              InsertAt(s, pos, e)[k] = IF k < pos THEN s[k] ELSE IF k = pos THEN e ELSE s[k - 1]
<1> DEFINE a == SubSeq(s, 1, pos - 1)
           b == SubSeq(s, pos, Len(s))
           o == <<e>>
<1>0. Len(s) \in Nat /\ \A i \in 1 .. Len(s) : s[i] \in S
  BY LenProperties, ElementOfSeq
<1>1. /\ a \in Seq(S) /\ Len(a) = pos - 1 /\ \A i \in 1 .. (pos - 1) : a[i] = s[i]
  <2>1. pos - 1 \in Int /\ 1 \in Int /\ \A i \in 1 .. (pos - 1) : s[i] \in S
    BY <1>0
  <2>2. /\ a \in Seq(S) /\ Len(a) = (IF 1 <= pos - 1 THEN pos - 1 - 1 + 1 ELSE 0)
        /\ \A i \in 1 .. (pos - 1 - 1 + 1) : a[i] = s[1 + i - 1]
    BY <2>1, SubSeqProperties
  <2> HIDE DEF a
  <2> QED BY <1>0, <2>2
<1>2. /\ b \in Seq(S) /\ Len(b) = Len(s) - pos + 1
      /\ \A i \in 1 .. (Len(s) - pos + 1) : b[i] = s[pos + i - 1]
  <2>1. pos \in Int /\ Len(s) \in Int /\ \A i \in pos .. Len(s) : s[i] \in S
    BY <1>0
  <2>2. /\ b \in Seq(S) /\ Len(b) = (IF pos <= Len(s) THEN Len(s) - pos + 1 ELSE 0)
        /\ \A i \in 1 .. (Len(s) - pos + 1) : b[i] = s[pos + i - 1]
    BY <2>1, SubSeqProperties
  <2> HIDE DEF b
  <2> QED BY <1>0, <2>2
<1>3. o \in Seq(S) /\ Len(o) = 1 /\ o[1] = e
  OBVIOUS
<1> HIDE DEF a, b, o
<1>4. /\ a \o o \in Seq(S) /\ Len(a \o o) = pos
      /\ \A i \in 1 .. pos : (a \o o)[i] = IF i <= pos - 1 THEN s[i] ELSE e
  <2>1. /\ a \o o \in Seq(S) /\ Len(a \o o) = Len(a) + Len(o)
        /\ \A i \in 1 .. Len(a) + Len(o) : (a \o o)[i] = IF i <= Len(a) THEN a[i] ELSE o[i - Len(a)]
    BY <1>1, <1>3, ConcatProperties
  <2> QED BY <2>1, <1>0, <1>1, <1>3
<1> DEFINE c == a \o o
<1>5. c \in Seq(S) /\ Len(c) = pos /\ \A i \in 1 .. pos : c[i] = IF i <= pos - 1 THEN s[i] ELSE e
  BY <1>4
<1> HIDE DEF c
<1>6. /\ c \o b \in Seq(S) /\ Len(c \o b) = Len(c) + Len(b)
      /\ \A i \in 1 .. Len(c) + Len(b) : (c \o b)[i] = IF i <= Len(c) THEN c[i] ELSE b[i - Len(c)]
  BY <1>2, <1>5, ConcatProperties
<1>7. InsertAt(s, pos, e) = c \o b
  BY DEF InsertAt, a, b, o, c
<1>8. ASSUME NEW k \in 1 .. (Len(s) + 1)
      PROVE  (c \o b)[k] = IF k < pos THEN s[k] ELSE IF k = pos THEN e ELSE s[k - 1]
  <2>1. CASE k <= pos
    BY <2>1, <1>0, <1>2, <1>5, <1>6
  <2>2. CASE k > pos
    <3>1. k - pos \in 1 .. (Len(s) - pos + 1) /\ pos + (k - pos) - 1 = k - 1
      BY <2>2, <1>0
    <3> QED BY <2>2, <3>1, <1>0, <1>2, <1>5, <1>6
  <2>3. k <= pos \/ k > pos
    OBVIOUS
  <2> QED BY <2>1, <2>2, <2>3
<1>9. Len(c \o b) = Len(s) + 1
  BY <1>0, <1>2, <1>5, <1>6
<1> QED BY <1>6, <1>7, <1>8, <1>9

LEMMA RemoveFacts ==
  ASSUME NEW S, NEW s \in Seq(S), NEW k \in 1 .. Len(s)
  PROVE  RemoveAt(s, k) \in Seq(S)
<1>0. Len(s) \in Nat /\ \A i \in 1 .. Len(s) : s[i] \in S
  BY LenProperties, ElementOfSeq
<1>1. SubSeq(s, 1, k - 1) \in Seq(S)
  BY <1>0, SubSeqProperties
<1>2. SubSeq(s, k + 1, Len(s)) \in Seq(S)
  BY <1>0, SubSeqProperties
<1> QED BY <1>1, <1>2, ConcatProperties DEF RemoveAt

\* The packets that are there do not change when the stream does behind them.
LEMMA PeerPacketsSame ==
  ASSUME NEW t \in 0 .. MaxPackets, NEW v \in Int, NEW w \in Int, v >= t, w >= t
  PROVE  /\ PeerPackets(v, t) = PeerPackets(w, t)
         /\ \A n \in 1 .. t : PeerPacket(n, v) = PeerPacket(n, w)
<1>1. \A n \in 1 .. t : n <= v /\ n <= w
  BY RtpAssumption
<1>2. \A n \in 1 .. t : PeerPacket(n, v) = PeerPacket(n, w)
  BY <1>1 DEF PeerPacket
<1> QED BY <1>2 DEF PeerPackets

LEMMA PeerPacketsGrow ==
  ASSUME NEW t \in Nat, NEW w \in Int
  PROVE  PeerPackets(w, t) \subseteq PeerPackets(w, t + 1) /\ PeerPacket(t + 1, w) \in PeerPackets(w, t + 1)
BY DEF PeerPackets

\* The peer sends a packet, under the same SSRC or, once, under the new one.
LEMMA SendsKeep ==
  ASSUME NEW w \in 0 .. MaxPackets, NEW m \in 0 .. MaxPackets, RxInv(w, m), PeerSends
  PROVE  \E v \in 0 .. MaxPackets : RxInv(v, m)'
<1>0. MaxPackets \in Nat
  BY RtpAssumption
<1>1. /\ sent \in 0 .. MaxPackets /\ stream \in {1, 2} /\ sent < MaxPackets /\ sent' = sent + 1
      /\ stream = 1 => w = MaxPackets
      /\ stream = 2 => w <= sent
      /\ inFlight \in Seq(PeerPackets(w, sent) \cup {Strange})
      /\ stream' = stream \/ (stream = 1 /\ stream' = 2)
      /\ inFlight' = Append(inFlight, Packet(sent', stream', "peer"))
  BY DEF RxInv, NetInv, PeerSends
<1>v. PICK v \in 0 .. MaxPackets : v = IF stream' = stream THEN w ELSE sent
  BY <1>1
<1>2. v \in 0 .. MaxPackets /\ (stream' = 1 => v = MaxPackets) /\ (stream' = 2 => v <= sent')
  BY <1>0, <1>1, <1>v
<1>3. v = w \/ (v = sent /\ w >= sent /\ w = MaxPackets /\ stream = 1)
  BY <1>1, <1>0, <1>v
<1>4. /\ PeerPackets(w, sent) = PeerPackets(v, sent)
      /\ \A n \in 1 .. sent : PeerPacket(n, w) = PeerPacket(n, v)
  <2>1. CASE v = w
    BY <2>1
  <2>2. CASE v = sent /\ w >= sent
    BY <2>2, <1>1, <1>2, PeerPacketsSame
  <2> QED BY <1>3, <2>1, <2>2
<1>5. Packet(sent', stream', "peer") = PeerPacket(sent', v)
  BY <1>0, <1>1, <1>v DEF PeerPacket
<1>6. PeerPackets(v, sent) \subseteq PeerPackets(v, sent') /\ PeerPacket(sent', v) \in PeerPackets(v, sent')
  <2>1. sent \in Nat /\ v \in Int
    BY <1>0, <1>1
  <2> QED BY <2>1, <1>1, PeerPacketsGrow
<1>7. inFlight' \in Seq(PeerPackets(v, sent') \cup {Strange})
  <2>1. PeerPackets(w, sent) \cup {Strange} \subseteq PeerPackets(v, sent') \cup {Strange}
    BY <1>4, <1>6
  <2>2. inFlight \in Seq(PeerPackets(v, sent') \cup {Strange})
    BY <1>1, <2>1, SeqSuperset
  <2> QED BY <1>1, <1>5, <1>6, <2>2, AppendProperties
<1>8. NetInv(v)'
  BY <1>0, <1>1, <1>2, <1>7 DEF NetInv
<1>9. /\ jitter' = jitter /\ lastReleased' = lastReleased /\ currentSsrc' = currentSsrc
      /\ learnedPeer' = learnedPeer /\ released' = released /\ rxTask' = rxTask /\ inbound' = inbound
      /\ played' = played /\ early' = early /\ dropped' = dropped /\ flapped' = flapped
  BY DEF PeerSends, rtpRx, rtpSeen
<1>10. ASSUME Clean'
       PROVE  /\ (currentSsrc \in {0, 1, 2} /\ lastReleased \in Int)'
              /\ (learnedPeer \in {"none", "peer"})'
              /\ OrderInv(v, m)' /\ LossInv'
              /\ (rxTask = "loop" => JitterInv(v, m))'
  <2>1. Clean
    BY <1>9, <1>10 DEF Clean
  <2>2. /\ currentSsrc \in {0, 1, 2} /\ lastReleased \in Int
        /\ learnedPeer \in {"none", "peer"}
        /\ OrderInv(w, m) /\ LossInv
        /\ rxTask = "loop" => JitterInv(w, m)
    BY <2>1 DEF RxInv
  <2>3. Seq(PeerPackets(w, sent)) \subseteq Seq(PeerPackets(v, sent'))
    BY <1>4, <1>6, SeqSuperset
  <2>4. OrderInv(v, m)'
    BY <1>9, <2>2, <2>3 DEF OrderInv, InOrder, Precedes, UpTo, Beyond
  <2>5. LossInv'
    BY <1>9, <2>2 DEF LossInv
  <2>6. ASSUME rxTask = "loop" PROVE JitterInv(v, m)'
    <3>1. JitterInv(w, m)
      BY <2>2, <2>6
    <3>2. ASSUME lastReleased # -1
          PROVE  /\ m \in 1 .. sent'
                 /\ PeerPacket(m, v).ssrc = currentSsrc /\ PeerPacket(m, v).seq = lastReleased
                 /\ early[m] >= 0 /\ Cardinality(Arrived(early, m)) > JitterDepth
      <4>1. /\ m \in 1 .. sent
            /\ PeerPacket(m, w).ssrc = currentSsrc /\ PeerPacket(m, w).seq = lastReleased
            /\ early[m] >= 0 /\ Cardinality(Arrived(early, m)) > JitterDepth
        BY <3>1, <3>2 DEF JitterInv
      <4> QED BY <4>1, <1>0, <1>1, <1>4
    <3>3. currentSsrc = 1 => m <= v
      BY <3>1, <3>2, <1>0, <1>1, <1>3, <2>2 DEF JitterInv
    <3>4. currentSsrc = 2 => v = w /\ w <= m /\ stream' = 2
      BY <3>1, <1>1, <1>3 DEF JitterInv
    <3>5. lastReleased = -1 => m = (IF currentSsrc = 2 THEN v ELSE 0)
      BY <3>1, <3>4 DEF JitterInv
    <3>6. /\ Len(jitter) <= JitterDepth
          /\ \A k \in 1 .. Len(jitter) : jitter[k].ssrc = currentSsrc /\ early[jitter[k].n] >= 0
          /\ currentSsrc = 0 => m = 0 /\ lastReleased = -1 /\ jitter = <<>>
      BY <3>1 DEF JitterInv
    <3>7. Arrived(early, m)' = Arrived(early, m)
      BY <1>9 DEF Arrived
    <3> QED BY <3>2, <3>3, <3>4, <3>5, <3>6, <3>7, <1>9 DEF JitterInv
  <2> QED BY <1>9, <2>2, <2>4, <2>5, <2>6
<1> QED BY <1>2, <1>8, <1>10 DEF RxInv

\* The network loses or repeats a packet, or brings a stranger's.
LEMMA FaultKeeps ==
  ASSUME NEW w \in 0 .. MaxPackets, NEW m \in 0 .. MaxPackets, RxInv(w, m), Fault
  PROVE  RxInv(w, m)'
<1> DEFINE S == PeerPackets(w, sent) \cup {Strange}
<1>1. inFlight \in Seq(S) /\ Strange \in S
  BY DEF RxInv, NetInv
<1>2. /\ sent' = sent /\ stream' = stream /\ jitter' = jitter /\ lastReleased' = lastReleased
      /\ currentSsrc' = currentSsrc
      /\ learnedPeer' = learnedPeer /\ released' = released /\ rxTask' = rxTask /\ inbound' = inbound
      /\ played' = played /\ early' = early /\ dropped' = dropped /\ flapped' = flapped
  BY DEF Fault, rtpRx, rtpSeen
<1> HIDE DEF S
<1>3. inFlight' \in Seq(S)
  <2>0. DOMAIN inFlight = 1 .. Len(inFlight) /\ \A i \in 1 .. Len(inFlight) : inFlight[i] \in S
    BY <1>1, LenProperties, ElementOfSeq
  <2>1. CASE \E k \in DOMAIN inFlight : inFlight' = RemoveAt(inFlight, k)
    BY <2>0, <2>1, <1>1, RemoveFacts
  <2>2. CASE \E k \in DOMAIN inFlight : inFlight' = Append(inFlight, inFlight[k])
    BY <2>0, <2>2, <1>1, AppendProperties
  <2>3. CASE inFlight' = Append(inFlight, Packet(1, 9, "stranger"))
    BY <2>3, <1>1, AppendProperties DEF Strange
  <2> QED BY <2>1, <2>2, <2>3 DEF Fault
<1>4. NetInv(w)'
  BY <1>2, <1>3 DEF NetInv, RxInv, S
<1>5. Arrived(early, m)' = Arrived(early, m)
  BY <1>2 DEF Arrived
<1>6. /\ OrderInv(w, m)' = OrderInv(w, m) /\ LossInv' = LossInv /\ Clean' = Clean
  BY <1>2 DEF OrderInv, LossInv, Clean, InOrder, Precedes, UpTo, Beyond
<1>7. JitterInv(w, m)' = JitterInv(w, m)
  BY <1>2, <1>5 DEF JitterInv
<1> QED BY <1>2, <1>4, <1>6, <1>7 DEF RxInv

\* A packet that is put where its sequence number belongs is where it was sent.
LEMMA InsertedInOrder ==
  ASSUME NEW w \in Int, NEW t \in 0 .. MaxPackets, jitter \in Seq(PeerPackets(w, t)), InOrder(jitter),
         NEW p \in PeerPackets(w, t), \A k \in 1 .. Len(jitter) : jitter[k].ssrc = p.ssrc,
         ~ IsDuplicate(p)
  PROVE  /\ Inserted(p) \in Seq(PeerPackets(w, t)) /\ Len(Inserted(p)) = Len(jitter) + 1
         /\ InOrder(Inserted(p))
         /\ \A k \in 1 .. Len(Inserted(p)) :
              Inserted(p)[k] = p \/ \E i \in 1 .. Len(jitter) : Inserted(p)[k] = jitter[i]
<1> DEFINE after == {k \in DOMAIN jitter : SeqLt(p.seq, jitter[k].seq)}
           pos == IF after = {} THEN Len(jitter) + 1 ELSE Min(after)
<1>0. MaxPackets \in Nat /\ Len(jitter) \in Nat /\ DOMAIN jitter = 1 .. Len(jitter)
  BY RtpAssumption, LenProperties
<1>1. \A k \in 1 .. Len(jitter) : jitter[k] \in PeerPackets(w, t)
  BY ElementOfSeq
<1>2. p.n \in 1 .. MaxPackets /\ p = PeerPacket(p.n, w)
  BY PeerPacketFacts
<1>3. ASSUME NEW k \in 1 .. Len(jitter)
      PROVE  /\ jitter[k].n \in 1 .. MaxPackets /\ jitter[k].n # p.n
             /\ k \in after <=> p.n < jitter[k].n
  <2>1. jitter[k].n \in 1 .. MaxPackets /\ jitter[k] = PeerPacket(jitter[k].n, w)
    BY <1>1, PeerPacketFacts
  <2>2. PeerPacket(p.n, w).ssrc = PeerPacket(jitter[k].n, w).ssrc
    BY <1>2, <2>1
  <2>3. /\ PeerPacket(p.n, w).seq = PeerPacket(jitter[k].n, w).seq <=> p.n = jitter[k].n
        /\ SeqLt(PeerPacket(p.n, w).seq, PeerPacket(jitter[k].n, w).seq) <=> p.n < jitter[k].n
    BY <1>2, <2>1, <2>2, SeqOrder
  <2>4. /\ p.seq = jitter[k].seq <=> p.n = jitter[k].n
        /\ SeqLt(p.seq, jitter[k].seq) <=> p.n < jitter[k].n
    BY <1>2, <2>1, <2>3
  <2>5. p.seq # jitter[k].seq
    BY <1>0 DEF IsDuplicate
  <2> QED BY <1>0, <2>1, <2>4, <2>5
<1>4. after \in SUBSET (1 .. Len(jitter))
  BY <1>0
<1> HIDE DEF after
<1>5. pos \in 1 .. (Len(jitter) + 1)
  <2>1. CASE after = {}
    BY <2>1, <1>0
  <2>2. CASE after # {}
    <3>1. after \in SUBSET Nat
      BY <1>0, <1>4
    <3>2. Min(after) \in after
      BY <2>2, <3>1, MinNat
    <3>3. Min(after) \in 1 .. Len(jitter) /\ pos = Min(after)
      BY <2>2, <3>2, <1>4
    <3> HIDE DEF pos
    <3> QED BY <3>3, <1>0
  <2> QED BY <2>1, <2>2
<1>6. \A k \in 1 .. Len(jitter) : IF k < pos THEN jitter[k].n < p.n ELSE p.n < jitter[k].n
  <2>1. CASE after = {}
    <3>1. \A k \in 1 .. Len(jitter) : k < pos /\ k \notin after
      BY <2>1, <1>0
    <3> QED BY <3>1, <1>2, <1>3
  <2>2. CASE after # {}
    <3>1. after \in SUBSET Nat
      BY <1>0, <1>4
    <3>2. Min(after) \in after /\ \A y \in after : Min(after) <= y
      BY <2>2, <3>1, MinNat
    <3>3. pos = Min(after) /\ pos \in 1 .. Len(jitter)
      BY <2>2, <3>2, <1>4
    <3>4. p.n < jitter[pos].n
      BY <3>2, <3>3, <1>3
    <3>5. ASSUME NEW k \in 1 .. Len(jitter), k < pos PROVE jitter[k].n < p.n
      <4>1. k \notin after
        BY <3>2, <3>3, <3>5, <1>0
      <4> QED BY <4>1, <1>2, <1>3
    <3>6. ASSUME NEW k \in 1 .. Len(jitter), ~ (k < pos) PROVE p.n < jitter[k].n
      <4>1. CASE k = pos
        BY <4>1, <3>4
      <4>2. CASE k > pos
        <5>1. jitter[pos].n < jitter[k].n
          BY <4>2, <3>3 DEF InOrder
        <5> QED BY <5>1, <3>3, <3>4, <1>2, <1>3, SMTT(40)
      <4> QED BY <4>1, <4>2, <3>3, <3>6
    <3> QED BY <3>5, <3>6
  <2> QED BY <2>1, <2>2
<1>7. Inserted(p) = InsertAt(jitter, pos, p)
  BY DEF Inserted, after
<1> HIDE DEF pos
<1> DEFINE buf == InsertAt(jitter, pos, p)
<1>8. /\ buf \in Seq(PeerPackets(w, t)) /\ Len(buf) = Len(jitter) + 1
      /\ \A k \in 1 .. (Len(jitter) + 1) :
           buf[k] = IF k < pos THEN jitter[k] ELSE IF k = pos THEN p ELSE jitter[k - 1]
  <2> DEFINE S == PeerPackets(w, t)
  <2>1. jitter \in Seq(S) /\ p \in S
    OBVIOUS
  <2> HIDE DEF S
  <2>2. /\ buf \in Seq(S) /\ Len(buf) = Len(jitter) + 1
        /\ \A k \in 1 .. (Len(jitter) + 1) :
             buf[k] = IF k < pos THEN jitter[k] ELSE IF k = pos THEN p ELSE jitter[k - 1]
    BY <2>1, <1>5, InsertFacts
  <2> QED BY <2>2 DEF S
<1> HIDE DEF buf
<1>9. ASSUME NEW k \in 1 .. Len(buf)
      PROVE  buf[k] = p \/ \E i \in 1 .. Len(jitter) : buf[k] = jitter[i]
  <2>1. CASE k < pos
    <3>1. k \in 1 .. Len(jitter) /\ buf[k] = jitter[k]
      BY <2>1, <1>0, <1>5, <1>8
    <3> QED BY <3>1
  <2>2. CASE k = pos
    BY <2>2, <1>8
  <2>3. CASE k > pos
    <3>1. k - 1 \in 1 .. Len(jitter) /\ buf[k] = jitter[k - 1]
      BY <2>3, <1>0, <1>5, <1>8
    <3> QED BY <3>1
  <2> QED BY <2>1, <2>2, <2>3, <1>5
<1>10. ASSUME NEW i \in 1 .. Len(buf), NEW j \in 1 .. Len(buf), i < j PROVE buf[i].n < buf[j].n
  <2>0. i \in 1 .. (Len(jitter) + 1) /\ j \in 1 .. (Len(jitter) + 1) /\ pos \in Int
    BY <1>5, <1>8
  <2>1. CASE j < pos
    <3>1. /\ i \in 1 .. Len(jitter) /\ j \in 1 .. Len(jitter) /\ i < pos
      BY <2>0, <2>1, <1>0, <1>5, <1>10
    <3>2. buf[i] = jitter[i] /\ buf[j] = jitter[j]
      BY <2>0, <2>1, <3>1, <1>8
    <3> QED BY <3>1, <3>2, <1>10 DEF InOrder
  <2>2. CASE j = pos
    <3>1. i \in 1 .. Len(jitter) /\ i < pos
      BY <2>0, <2>2, <1>0, <1>5, <1>10
    <3>2. buf[i] = jitter[i] /\ buf[j] = p
      BY <2>0, <2>2, <3>1, <1>8
    <3> QED BY <3>1, <3>2, <1>6
  <2>3. CASE j > pos
    <3>1. j - 1 \in 1 .. Len(jitter) /\ buf[j] = jitter[j - 1] /\ ~ (j - 1 < pos)
      BY <2>0, <2>3, <1>0, <1>5, <1>8
    <3>2. CASE i < pos
      <4>1. i \in 1 .. Len(jitter) /\ buf[i] = jitter[i] /\ i < j - 1
        BY <2>0, <2>3, <3>2, <1>0, <1>5, <1>8
      <4> QED BY <3>1, <4>1 DEF InOrder
    <3>3. CASE i = pos
      <4>1. buf[i] = p
        BY <2>0, <3>3, <1>8
      <4> QED BY <3>1, <4>1, <1>6
    <3>4. CASE i > pos
      <4>1. i - 1 \in 1 .. Len(jitter) /\ buf[i] = jitter[i - 1] /\ i - 1 < j - 1
        BY <2>0, <3>4, <1>0, <1>5, <1>8, <1>10
      <4> QED BY <3>1, <4>1 DEF InOrder
    <3> QED BY <2>0, <3>2, <3>3, <3>4
  <2> QED BY <2>0, <2>1, <2>2, <2>3
<1>11. InOrder(buf)
  BY <1>10 DEF InOrder
<1> QED BY <1>7, <1>8, <1>9, <1>11 DEF buf

\* What a packet's arrival does to the history of arrivals.
Noted(n) ==
  /\ early' \in [1 .. MaxPackets -> Int] /\ early'[n] >= 0
  /\ \A i \in 1 .. MaxPackets : early[i] >= 0 => early'[i] = early[i]
  /\ \A k \in 0 .. MaxPackets : Cardinality(Arrived(early', k)) >= Cardinality(Arrived(early, k))
  /\ \A k \in 0 .. MaxPackets :
       ~ (early[n] >= 0) /\ n < k => early'[n] >= Cardinality(Arrived(early, k))

LEMMA ArrivalNoted ==
  ASSUME NEW n \in 1 .. MaxPackets, early \in [1 .. MaxPackets -> Int],
         early' = [early EXCEPT ![n] = IF @ >= 0 THEN @ ELSE
              Cardinality({k \in DOMAIN early : k > n /\ early[k] >= 0})]
  PROVE  Noted(n)
<1> DEFINE over == {k \in DOMAIN early : k > n /\ early[k] >= 0}
<1>0. MaxPackets \in Nat /\ DOMAIN early = 1 .. MaxPackets
  BY RtpAssumption
<1>1. IsFiniteSet(1 .. MaxPackets)
  BY <1>0, FS_Interval
<1>2. IsFiniteSet(over) /\ Cardinality(over) \in Nat
  <2>1. over \in SUBSET (1 .. MaxPackets)
    BY <1>0
  <2> HIDE DEF over
  <2>2. IsFiniteSet(over)
    BY <1>1, <2>1, FS_Subset
  <2> QED BY <2>2, FS_CardinalityType
<1>3. over = {k \in 1 .. MaxPackets : k > n /\ early[k] >= 0}
  BY <1>0
<1>4. early' = [early EXCEPT ![n] = IF early[n] >= 0 THEN early[n] ELSE Cardinality(over)]
  OBVIOUS
<1> HIDE DEF over
<1>5. /\ early' \in [1 .. MaxPackets -> Int] /\ early'[n] >= 0
      /\ \A i \in 1 .. MaxPackets : early[i] >= 0 => early'[i] = early[i]
  BY <1>0, <1>2, <1>4
<1>6. ASSUME NEW m \in 0 .. MaxPackets
      PROVE  Cardinality(Arrived(early', m)) >= Cardinality(Arrived(early, m))
  <2>1. Arrived(early', m) \in SUBSET (1 .. MaxPackets) /\ Arrived(early, m) \in SUBSET Arrived(early', m)
    BY <1>5 DEF Arrived
  <2>2. IsFiniteSet(Arrived(early', m))
    BY <1>1, <2>1, FS_Subset
  <2>3. /\ Cardinality(Arrived(early, m)) <= Cardinality(Arrived(early', m))
        /\ IsFiniteSet(Arrived(early, m))
    BY <2>1, <2>2, FS_Subset
  <2>4. Cardinality(Arrived(early, m)) \in Nat /\ Cardinality(Arrived(early', m)) \in Nat
    BY <2>2, <2>3, FS_CardinalityType
  <2> QED BY <2>3, <2>4
<1>7. ASSUME NEW m \in 0 .. MaxPackets, ~ (early[n] >= 0), n < m
      PROVE  early'[n] >= Cardinality(Arrived(early, m))
  <2>1. Arrived(early, m) \in SUBSET over
    BY <1>0, <1>3, <1>7 DEF Arrived
  <2>2. Cardinality(Arrived(early, m)) <= Cardinality(over) /\ IsFiniteSet(Arrived(early, m))
    BY <1>2, <2>1, FS_Subset
  <2>3. Cardinality(Arrived(early, m)) \in Nat
    BY <2>2, FS_CardinalityType
  <2>4. early'[n] = Cardinality(over)
    BY <1>0, <1>4, <1>7
  <2> QED BY <1>2, <2>2, <2>3, <2>4
<1> QED BY <1>5, <1>6, <1>7 DEF Noted

LEMMA ArrivedFinite ==
  ASSUME NEW e, NEW m
  PROVE  IsFiniteSet(Arrived(e, m)) /\ Cardinality(Arrived(e, m)) \in Nat
<1>1. Arrived(e, m) \in SUBSET (1 .. MaxPackets)
  BY DEF Arrived
<1>2. IsFiniteSet(1 .. MaxPackets)
  BY RtpAssumption, FS_Interval
<1>3. IsFiniteSet(Arrived(e, m))
  BY <1>1, <1>2, FS_Subset
<1> QED BY <1>3, FS_CardinalityType

\* A buffer of one stream, in order and beyond base, whose packets have come; and what
\* has left the buffer before.
BufferFits(w, base, ssrc, buf, e) ==
  /\ buf \in Seq(PeerPackets(w, sent)) /\ InOrder(buf)
  /\ \A k \in 1 .. Len(buf) : base < buf[k].n /\ buf[k].ssrc = ssrc /\ e[buf[k].n] >= 0

GoneBefore(w, base) ==
  /\ inbound \in Seq(PeerPackets(w, sent)) /\ played \in Seq(PeerPackets(w, sent))
  /\ InOrder(inbound) /\ InOrder(played) /\ Precedes(played, inbound)
  /\ UpTo(played, base) /\ UpTo(inbound, base)

\* The buffer is full: its first packet goes out, and is the last released from then on.
LEMMA ReleasedNext ==
  ASSUME NEW w \in 0 .. MaxPackets, NEW base \in 0 .. MaxPackets, NEW ssrc \in {1, 2}, NEW buf, NEW e,
         NetInv(w), BufferFits(w, base, ssrc, buf, e), GoneBefore(w, base),
         ssrc = 2 => w <= base /\ stream = 2, Len(buf) = JitterDepth + 1,
         jitter' = SubSeq(buf, 2, Len(buf)), released' = SubSeq(buf, 1, 1), lastReleased' = buf[1].seq,
         early' = e, currentSsrc' = ssrc,
         sent' = sent, stream' = stream, inbound' = inbound, played' = played
  PROVE  \E k \in 0 .. MaxPackets : OrderInv(w, k)' /\ JitterInv(w, k)' /\ lastReleased' \in Int
<1> DEFINE S == PeerPackets(w, sent)
<1>a. /\ MaxPackets \in Nat /\ JitterDepth \in Nat \ {0} /\ Len(buf) \in Nat
      /\ SeqCircle \in Nat \ {0} /\ sent \in 0 .. MaxPackets
  BY RtpAssumption, LenProperties DEF BufferFits, NetInv
<1>b. buf \in Seq(S) /\ InOrder(buf)
  BY DEF BufferFits
<1>c. \A k \in 1 .. Len(buf) :
        /\ buf[k] \in S /\ buf[k].n \in 1 .. sent /\ buf[k].n \in 1 .. MaxPackets
        /\ buf[k].n > base /\ buf[k].ssrc = ssrc
        /\ e[buf[k].n] >= 0 /\ buf[k] = PeerPacket(buf[k].n, w) /\ buf[k].seq \in 0 .. (SeqCircle - 1)
  <2> TAKE k \in 1 .. Len(buf)
  <2>1. buf[k] \in S
    BY <1>b, ElementOfSeq
  <2>2. /\ buf[k].n \in 1 .. sent /\ buf[k].n \in 1 .. MaxPackets /\ buf[k] = PeerPacket(buf[k].n, w)
        /\ buf[k].seq \in 0 .. (SeqCircle - 1)
    BY <2>1, <1>a, PeerPacketFacts DEF S
  <2> QED BY <2>1, <2>2 DEF BufferFits
<1>d. /\ UpTo(played, base) /\ UpTo(inbound, base) /\ InOrder(inbound) /\ InOrder(played)
      /\ Precedes(played, inbound) /\ inbound \in Seq(S) /\ played \in Seq(S)
  BY DEF GoneBefore
<1> HIDE DEF S
<1>0. Len(buf) = JitterDepth + 1 /\ 1 \in 1 .. Len(buf)
  BY <1>a
<1>1. PICK k \in 1 .. MaxPackets : k = buf[1].n
  BY <1>0, <1>c
<1>2. /\ SubSeq(buf, 1, 1) \in Seq(S) /\ Len(SubSeq(buf, 1, 1)) = 1 /\ SubSeq(buf, 1, 1)[1] = buf[1]
  <2>1. \A i \in 1 .. 1 : buf[i] \in S
    BY <1>0, <1>c
  <2>2. /\ SubSeq(buf, 1, 1) \in Seq(S) /\ Len(SubSeq(buf, 1, 1)) = (IF 1 <= 1 THEN 1 - 1 + 1 ELSE 0)
        /\ \A i \in 1 .. (1 - 1 + 1) : SubSeq(buf, 1, 1)[i] = buf[1 + i - 1]
    BY <2>1, SubSeqProperties
  <2> QED BY <2>2
<1>3. /\ SubSeq(buf, 2, Len(buf)) \in Seq(S) /\ Len(SubSeq(buf, 2, Len(buf))) = JitterDepth
      /\ \A i \in 1 .. JitterDepth : SubSeq(buf, 2, Len(buf))[i] = buf[i + 1]
  <2>1. \A i \in 2 .. Len(buf) : buf[i] \in S
    BY <1>0, <1>a, <1>c
  <2>2. /\ SubSeq(buf, 2, Len(buf)) \in Seq(S)
        /\ Len(SubSeq(buf, 2, Len(buf))) = (IF 2 <= Len(buf) THEN Len(buf) - 2 + 1 ELSE 0)
        /\ \A i \in 1 .. (Len(buf) - 2 + 1) : SubSeq(buf, 2, Len(buf))[i] = buf[2 + i - 1]
    <3>1. Len(buf) \in Int
      BY <1>a, <1>0
    <3> QED BY <2>1, <3>1, SubSeqProperties
  <2> QED BY <2>2, <1>0, <1>a
<1>6. /\ jitter' \in Seq(S) /\ Len(jitter') = JitterDepth
      /\ \A i \in 1 .. JitterDepth : jitter'[i] = buf[i + 1] /\ i + 1 \in 1 .. Len(buf)
      /\ released' \in Seq(S) /\ Len(released') = 1 /\ released'[1] = buf[1]
  BY <1>0, <1>2, <1>3, <1>a
<1>7. k > base /\ k \in 1 .. sent /\ \A i \in 1 .. Len(buf) : k <= buf[i].n /\ (i > 1 => k < buf[i].n)
  <2>1. \A i \in 1 .. Len(buf) : i > 1 => buf[1].n < buf[i].n
    BY <1>0, <1>b DEF InOrder
  <2>2. \A i \in 1 .. Len(buf) : buf[i].n \in Int /\ (i = 1 \/ i > 1)
    BY <1>c
  <2> QED BY <1>0, <1>1, <2>1, <2>2, <1>c
<1>8. OrderInv(w, k)'
  <2>1. InOrder(jitter') /\ Beyond(jitter', k)
    <3>1. \A i, j \in 1 .. JitterDepth : i < j => buf[i + 1].n < buf[j + 1].n
      BY <1>0, <1>a, <1>b DEF InOrder
    <3>2. \A i \in 1 .. JitterDepth : i + 1 \in 1 .. Len(buf) /\ i + 1 > 1
      BY <1>0, <1>a
    <3> QED BY <3>1, <3>2, <1>6, <1>7 DEF InOrder, Beyond
  <2>2. InOrder(released') /\ UpTo(released', k)
    BY <1>1, <1>6 DEF InOrder, UpTo
  <2>3. \A i \in 1 .. Len(played) : played[i].n \in Int /\ played[i].n < k
    <3>1. \A i \in 1 .. Len(played) : played[i].n \in Int
      BY <1>a, <1>d, ElementOfSeq, PeerPacketFacts DEF S
    <3> QED BY <3>1, <1>7, <1>a, <1>d DEF UpTo
  <2>4. \A i \in 1 .. Len(inbound) : inbound[i].n \in Int /\ inbound[i].n < k
    <3>1. \A i \in 1 .. Len(inbound) : inbound[i].n \in Int
      BY <1>a, <1>d, ElementOfSeq, PeerPacketFacts DEF S
    <3> QED BY <3>1, <1>7, <1>a, <1>d, SMTT(40) DEF UpTo
  <2>5. Precedes(played, released') /\ Precedes(inbound, released')
    <3>1. \A j \in 1 .. Len(released') : released'[j].n = k
      BY <1>1, <1>6
    <3>2. Precedes(played, released')
      BY <2>3, <3>1 DEF Precedes
    <3>3. Precedes(inbound, released')
      BY <2>4, <3>1 DEF Precedes
    <3> QED BY <3>2, <3>3
  <2>6. UpTo(played, k) /\ UpTo(inbound, k)
    <3>1. k \in Int
      BY <1>1
    <3>2. \A x \in Int : x < k => x <= k
      BY <3>1
    <3>3. \A i \in 1 .. Len(played) : played[i].n <= k
      BY <2>3, <3>2
    <3>4. \A i \in 1 .. Len(inbound) : inbound[i].n <= k
      BY <2>4, <3>2
    <3> QED BY <3>3, <3>4 DEF UpTo
  <2> QED BY <1>6, <2>1, <2>2, <2>5, <2>6, <1>a, <1>d DEF OrderInv, S, InOrder, Precedes, UpTo, Beyond
<1>9. Cardinality(Arrived(e, k)) > JitterDepth
  <2> DEFINE f == [i \in 1 .. (JitterDepth + 1) |-> buf[i].n]
             A == Arrived(e, k)
  <2>1. IsFiniteSet(A) /\ Cardinality(A) \in Nat
    BY ArrivedFinite
  <2>2. \A i \in 1 .. (JitterDepth + 1) : buf[i].n \in A
    BY <1>0, <1>7, <1>c DEF Arrived
  <2>3. \A i, j \in 1 .. (JitterDepth + 1) : buf[i].n = buf[j].n => i = j
    <3>1. \A i, j \in 1 .. (JitterDepth + 1) : i < j => buf[i].n < buf[j].n
      BY <1>0, <1>b DEF InOrder
    <3>2. \A i \in 1 .. (JitterDepth + 1) : buf[i].n \in Int
      BY <1>0, <1>c
    <3> TAKE i, j \in 1 .. (JitterDepth + 1)
    <3>3. i < j \/ j < i \/ i = j
      BY <1>a
    <3>4. CASE i < j
      BY <3>1, <3>2, <3>4
    <3>5. CASE j < i
      BY <3>1, <3>2, <3>5
    <3> QED BY <3>3, <3>4, <3>5
  <2> HIDE DEF A
  <2>4. f \in Injection(1 .. (JitterDepth + 1), A)
    BY <2>2, <2>3 DEF Injection, IsInjective
  <2>5. Cardinality(1 .. (JitterDepth + 1)) <= Cardinality(A)
    <3> HIDE DEF f
    <3> QED BY <2>1, <2>4, FS_Injection
  <2>6. Cardinality(1 .. (JitterDepth + 1)) = JitterDepth + 1
    BY <1>a, FS_Interval
  <2> QED BY <2>1, <2>5, <2>6, <1>a DEF A
<1>10. JitterInv(w, k)'
  <2>1. PeerPacket(k, w) = buf[1] /\ e[k] >= 0 /\ buf[1].ssrc = ssrc /\ buf[1].seq \in Nat
    BY <1>0, <1>1, <1>a, <1>c
  <2>2. \A i \in 1 .. Len(jitter') : jitter'[i].ssrc = ssrc /\ e[jitter'[i].n] >= 0
    BY <1>6, <1>c
  <2>3. ssrc = 1 => k <= w
    <3>1. PeerPacket(k, w).ssrc = IF k <= w THEN 1 ELSE 2
      BY DEF PeerPacket, Packet
    <3> QED BY <2>1, <3>1
  <2>4. ssrc = 2 => w <= k /\ stream = 2
    BY <1>7, <1>a
  <2>5. ssrc # 0 /\ buf[1].seq # -1
    BY <1>a, <2>1
  <2> QED BY <1>6, <1>7, <1>9, <2>1, <2>2, <2>3, <2>4, <2>5, <1>a DEF JitterInv, Arrived
<1>11. lastReleased' \in Int /\ k \in 0 .. MaxPackets
  BY <1>0, <1>a, <1>c, RtpAssumption
<1> QED BY <1>8, <1>10, <1>11


\* There is still room: the packet stays.
LEMMA BufferHeld ==
  ASSUME NEW w \in 0 .. MaxPackets, NEW base \in 0 .. MaxPackets, NEW ssrc \in {1, 2}, NEW buf, NEW e,
         NetInv(w), BufferFits(w, base, ssrc, buf, e), GoneBefore(w, base),
         ssrc = 1 => base <= w,
         ssrc = 2 => w <= base /\ stream = 2, Len(buf) <= JitterDepth,
         jitter' = buf, released' = <<>>, lastReleased' = lastReleased,
         lastReleased # -1 =>
            /\ base \in 1 .. sent
            /\ PeerPacket(base, w).ssrc = ssrc /\ PeerPacket(base, w).seq = lastReleased
            /\ e[base] >= 0 /\ Cardinality(Arrived(e, base)) > JitterDepth,
         lastReleased = -1 => base = (IF ssrc = 2 THEN w ELSE 0),
         early' = e, currentSsrc' = ssrc,
         sent' = sent, stream' = stream, inbound' = inbound, played' = played
  PROVE  OrderInv(w, base)' /\ JitterInv(w, base)'
<1> DEFINE S == PeerPackets(w, sent)
<1>a. /\ MaxPackets \in Nat /\ JitterDepth \in Nat \ {0} /\ Len(buf) \in Nat
      /\ SeqCircle \in Nat \ {0} /\ sent \in 0 .. MaxPackets
  BY RtpAssumption, LenProperties DEF BufferFits, NetInv
<1>b. buf \in Seq(S) /\ InOrder(buf)
  BY DEF BufferFits
<1>d. /\ UpTo(played, base) /\ UpTo(inbound, base) /\ InOrder(inbound) /\ InOrder(played)
      /\ Precedes(played, inbound) /\ inbound \in Seq(S) /\ played \in Seq(S)
  BY DEF GoneBefore
<1>1. OrderInv(w, base)'
  <2>1. released' \in Seq(S) /\ Len(released') = 0
    OBVIOUS
  <2>2. InOrder(released') /\ Precedes(played, released') /\ Precedes(inbound, released') /\ UpTo(released', base)
    BY <2>1 DEF InOrder, Precedes, UpTo
  <2>3. Beyond(buf, base)
    BY DEF Beyond, BufferFits
  <2> QED BY <2>1, <2>2, <2>3, <1>d, <1>b, <1>a DEF OrderInv, InOrder, Precedes, UpTo, Beyond
<1>2. JitterInv(w, base)'
  BY <1>a DEF JitterInv, BufferFits
<1> QED BY <1>1, <1>2

\* A packet of the peer that push takes: it comes after everything that was released, and
\* what it pushes out of the buffer is the next in order.
LEMMA PushKeeps ==
  ASSUME NEW w \in 0 .. MaxPackets, NEW m \in 0 .. MaxPackets, NetInv(w), OrderInv(w, m), LossInv,
         JitterInv(w, m), released = <<>>, lastReleased \in Int, currentSsrc \in {0, 1, 2},
         NEW p \in PeerPackets(w, sent), currentSsrc \in {0, p.ssrc}, currentSsrc' = p.ssrc,
         Noted(p.n),
         ~ IsLate(p), ~ IsDuplicate(p), Push(p),
         sent' = sent, stream' = stream, inbound' = inbound, played' = played
  PROVE  \E k \in 0 .. MaxPackets :
           OrderInv(w, k)' /\ LossInv' /\ JitterInv(w, k)' /\ lastReleased' \in Int
<1> DEFINE S == PeerPackets(w, sent)
           buf == Inserted(p)
<1>0. /\ MaxPackets \in Nat /\ JitterDepth \in Nat \ {0} /\ Len(jitter) \in Nat
      /\ sent \in 0 .. MaxPackets /\ Len(jitter) <= JitterDepth
  BY RtpAssumption, LenProperties DEF OrderInv, NetInv, JitterInv
<1>1. /\ p.n \in 1 .. sent /\ p.n \in 1 .. MaxPackets /\ p = PeerPacket(p.n, w)
      /\ p.ssrc \in {1, 2} /\ (p.ssrc = 1 <=> p.n <= w) /\ p.seq \in 0 .. (SeqCircle - 1)
  BY <1>0, PeerPacketFacts
<1>2. /\ early' \in [1 .. MaxPackets -> Int] /\ early'[p.n] >= 0
      /\ \A i \in 1 .. MaxPackets : early[i] >= 0 => early'[i] = early[i]
      /\ \A k \in 0 .. MaxPackets : Cardinality(Arrived(early', k)) >= Cardinality(Arrived(early, k))
  BY DEF Noted
<1>3. /\ jitter \in Seq(S) /\ InOrder(jitter) /\ inbound \in Seq(S) /\ played \in Seq(S)
      /\ \A k \in 1 .. Len(jitter) : jitter[k] \in S /\ jitter[k].n > m
      /\ \A k \in 1 .. Len(jitter) : jitter[k].ssrc = p.ssrc /\ early[jitter[k].n] >= 0
  <2>1. jitter \in Seq(S) /\ InOrder(jitter) /\ inbound \in Seq(S) /\ played \in Seq(S) /\ Beyond(jitter, m)
    BY DEF OrderInv
  <2>2. \A k \in 1 .. Len(jitter) : jitter[k] \in S
    BY <2>1, ElementOfSeq
  <2>3. currentSsrc = 0 => Len(jitter) = 0
    BY DEF JitterInv
  <2>4. \A k \in 1 .. Len(jitter) : jitter[k].ssrc = currentSsrc /\ early[jitter[k].n] >= 0
    BY DEF JitterInv
  <2>5. \A k \in 1 .. Len(jitter) : jitter[k].n \in Int
    BY <2>2, <1>0, PeerPacketFacts
  <2> QED BY <2>1, <2>2, <2>3, <2>4, <2>5, <1>0 DEF Beyond
<1>4. /\ buf \in Seq(S) /\ Len(buf) = Len(jitter) + 1 /\ InOrder(buf)
      /\ \A k \in 1 .. Len(buf) : buf[k] = p \/ \E i \in 1 .. Len(jitter) : buf[k] = jitter[i]
  BY <1>0, <1>3, InsertedInOrder
<1>5. /\ jitter' = SubSeq(buf, Len(SubSeq(buf, 1, ReleasedCount(buf))) + 1, Len(buf))
      /\ lastReleased' = IF SubSeq(buf, 1, ReleasedCount(buf)) = <<>> THEN lastReleased
                         ELSE Last(SubSeq(buf, 1, ReleasedCount(buf))).seq
      /\ released' = SubSeq(buf, 1, ReleasedCount(buf))
      /\ dropped' = dropped
  BY DEF Push
<1> HIDE DEF S, buf
<1>b. PICK base \in 0 .. MaxPackets : base = IF currentSsrc = 0 /\ p.ssrc = 2 THEN w ELSE m
  OBVIOUS
<1>6. p.n > base /\ base >= m /\ \A k \in 1 .. Len(jitter) : jitter[k].n > base
  <2>1. CASE currentSsrc = 0
    <3>1. m = 0 /\ Len(jitter) = 0
      BY <2>1 DEF JitterInv
    <3> QED BY <2>1, <3>1, <1>0, <1>1, <1>b
  <2>2. CASE currentSsrc # 0
    <3>1. base = m /\ currentSsrc = p.ssrc
      BY <2>2, <1>b
    <3>2. p.n > m
      <4>1. CASE lastReleased = -1
        <5>1. m = (IF currentSsrc = 2 THEN w ELSE 0)
          BY <4>1 DEF JitterInv
        <5> QED BY <5>1, <3>1, <1>0, <1>1
      <4>2. CASE lastReleased # -1
        <5>1. /\ m \in 1 .. sent
              /\ PeerPacket(m, w).ssrc = p.ssrc /\ PeerPacket(m, w).seq = lastReleased
          BY <4>2, <3>1 DEF JitterInv
        <5>2. m \in 1 .. MaxPackets
          BY <5>1, <1>0
        <5>3. PeerPacket(p.n, w).ssrc = PeerPacket(m, w).ssrc
          BY <5>1, <1>1
        <5>4. /\ PeerPacket(p.n, w).seq = PeerPacket(m, w).seq <=> p.n = m
              /\ SeqLt(PeerPacket(p.n, w).seq, PeerPacket(m, w).seq) <=> p.n < m
          BY <5>2, <5>3, <1>1, SeqOrder
        <5>5. p.n # m /\ ~ (p.n < m)
          BY <5>1, <5>4, <4>2, <1>1 DEF IsLate
        <5> QED BY <5>2, <5>5, <1>1
      <4> QED BY <4>1, <4>2
    <3> QED BY <3>1, <3>2, <1>0, <1>3
  <2> QED BY <2>1, <2>2
<1>7. BufferFits(w, base, p.ssrc, buf, early')
  <2>1. ASSUME NEW k \in 1 .. Len(buf)
        PROVE  base < buf[k].n /\ buf[k].ssrc = p.ssrc /\ early'[buf[k].n] >= 0
    <3>1. CASE buf[k] = p
      BY <3>1, <1>2, <1>6
    <3>2. CASE \E i \in 1 .. Len(jitter) : buf[k] = jitter[i]
      <4>1. PICK i \in 1 .. Len(jitter) : buf[k] = jitter[i]
        BY <3>2
      <4>2. jitter[i].n \in 1 .. MaxPackets
        BY <1>0, <1>3, PeerPacketFacts DEF S
      <4>3. jitter[i].n > base /\ jitter[i].ssrc = p.ssrc /\ early[jitter[i].n] >= 0
        BY <1>3, <1>6
      <4> QED BY <4>1, <4>2, <4>3, <1>2
    <3> QED BY <3>1, <3>2, <1>4
  <2> QED BY <2>1, <1>4 DEF BufferFits, S
<1>8. ReleasedCount(buf) = IF Len(buf) > JitterDepth THEN 1 ELSE 0
  <2>1. Len(buf) - JitterDepth \in Int /\ Len(buf) - JitterDepth <= 1
    BY <1>0, <1>4
  <2> DEFINE d == Len(buf) - JitterDepth
  <2>2. Max({0, d}) = IF d > 0 THEN d ELSE 0
    <3> HIDE DEF d
    <3>1. d \in Int BY <2>1 DEF d
    <3> QED BY <3>1 DEF Max
  <2> QED BY <2>1, <2>2, <1>0, <1>4 DEF ReleasedCount
<1>9. LossInv'
  <2>1. ASSUME NEW d \in dropped PROVE d.n \in 1 .. MaxPackets /\ (d.again \/ early'[d.n] > JitterDepth)
    <3>1. d.n \in 1 .. MaxPackets /\ (d.again \/ early[d.n] > JitterDepth)
      BY DEF LossInv
    <3>2. early[d.n] \in Int
      BY <3>1 DEF LossInv
    <3>3. early[d.n] > JitterDepth => early'[d.n] > JitterDepth
      BY <3>1, <3>2, <1>0, <1>2, SMTT(40)
    <3> QED BY <3>1, <3>3
  <2> QED BY <1>2, <1>5, <2>1 DEF LossInv
<1>10. GoneBefore(w, base)
  <2>1. /\ UpTo(played, m) /\ UpTo(inbound, m) /\ InOrder(inbound) /\ InOrder(played) /\ Precedes(played, inbound)
    BY DEF OrderInv
  <2>2. \A k \in 1 .. Len(played) : played[k].n \in Int
    BY <1>0, <1>3, ElementOfSeq, PeerPacketFacts DEF S
  <2>3. \A k \in 1 .. Len(inbound) : inbound[k].n \in Int
    BY <1>0, <1>3, ElementOfSeq, PeerPacketFacts DEF S
  <2> QED BY <2>1, <2>2, <2>3, <1>3, <1>6, SMTT(40) DEF UpTo, GoneBefore, S
<1>11. p.ssrc = 2 => w <= base /\ stream = 2
  <2>1. p.ssrc = 2 => sent > w
    BY <1>0, <1>1
  <2>2. p.ssrc = 2 => stream = 2
    BY <2>1, <1>0 DEF NetInv
  <2>3. currentSsrc = 2 => w <= m
    BY DEF JitterInv
  <2> QED BY <2>2, <2>3, <1>b, <1>1
<1>12. CASE ~ (Len(buf) > JitterDepth)
  <2>1. SubSeq(buf, 1, 0) = <<>> /\ SubSeq(buf, 1, Len(buf)) = buf /\ Len(<<>>) = 0
    BY <1>4, SubSeqEmpty, SubSeqFull
  <2>2. jitter' = buf /\ lastReleased' = lastReleased /\ released' = <<>>
    BY <2>1, <1>5, <1>8, <1>12
  <2>3. p.ssrc = 1 => base <= w
    BY <1>0, <1>1, <1>6
  <2>4. ASSUME lastReleased # -1
        PROVE  /\ base \in 1 .. sent
               /\ PeerPacket(base, w).ssrc = p.ssrc /\ PeerPacket(base, w).seq = lastReleased
               /\ early'[base] >= 0 /\ Cardinality(Arrived(early', base)) > JitterDepth
    <3>1. currentSsrc # 0
      BY <2>4 DEF JitterInv
    <3>2. base = m /\ currentSsrc = p.ssrc
      BY <3>1, <1>b
    <3>3. /\ m \in 1 .. sent
          /\ PeerPacket(m, w).ssrc = currentSsrc /\ PeerPacket(m, w).seq = lastReleased
          /\ early[m] >= 0 /\ Cardinality(Arrived(early, m)) > JitterDepth
      BY <2>4 DEF JitterInv
    <3>4. early'[m] >= 0
      BY <3>3, <1>0, <1>2
    <3>5. Cardinality(Arrived(early', m)) > JitterDepth
      <4>1. Cardinality(Arrived(early', m)) \in Nat /\ Cardinality(Arrived(early, m)) \in Nat
        BY ArrivedFinite
      <4>2. Cardinality(Arrived(early', m)) >= Cardinality(Arrived(early, m))
        BY <1>2
      <4> QED BY <4>1, <4>2, <3>3, <1>0
    <3> QED BY <3>2, <3>3, <3>4, <3>5
  <2>5. lastReleased = -1 => base = (IF p.ssrc = 2 THEN w ELSE 0)
    <3>1. lastReleased = -1 => m = (IF currentSsrc = 2 THEN w ELSE 0)
      BY DEF JitterInv
    <3> QED BY <3>1, <1>1, <1>b
  <2>6. Len(buf) <= JitterDepth
    BY <1>0, <1>4, <1>12
  <2>7. OrderInv(w, base)' /\ JitterInv(w, base)'
    BY <2>2, <2>3, <2>4, <2>5, <2>6, <1>1, <1>7, <1>10, <1>11, BufferHeld
  <2> QED BY <2>2, <2>7, <1>9
<1>13. CASE Len(buf) > JitterDepth
  <2>0. Len(buf) = JitterDepth + 1 /\ 1 \in 1 .. Len(buf) /\ buf[1] \in S
    <3>1. Len(buf) = JitterDepth + 1 /\ 1 \in 1 .. Len(buf)
      BY <1>0, <1>4, <1>13
    <3> QED BY <3>1, <1>4, ElementOfSeq
  <2> DEFINE first == SubSeq(buf, 1, 1)
  <2>1. Len(first) = 1 /\ first # <<>> /\ Last(first) = buf[1]
    <3>1. \A i \in 1 .. 1 : buf[i] \in S
      BY <2>0
    <3>2. /\ first \in Seq(S) /\ Len(first) = (IF 1 <= 1 THEN 1 - 1 + 1 ELSE 0)
          /\ \A i \in 1 .. (1 - 1 + 1) : first[i] = buf[1 + i - 1]
      BY <3>1, SubSeqProperties
    <3> HIDE DEF first
    <3>3. Len(first) = 1 /\ first[1] = buf[1]
      BY <3>2
    <3>4. first # <<>>
      BY <3>3, LenOneNotEmpty
    <3> QED BY <3>3, <3>4 DEF Last
  <2>2. jitter' = SubSeq(buf, 2, Len(buf)) /\ released' = SubSeq(buf, 1, 1) /\ lastReleased' = buf[1].seq
    <3>1. ReleasedCount(buf) = 1
      BY <1>8, <1>13
    <3>2. jitter' = SubSeq(buf, Len(first) + 1, Len(buf)) /\ released' = first
      BY <3>1, <1>5
    <3>3. lastReleased' = IF first = <<>> THEN lastReleased ELSE Last(first).seq
      BY <3>1, <1>5
    <3> HIDE DEF first
    <3>4. lastReleased' = buf[1].seq /\ Len(first) + 1 = 2
      BY <3>3, <2>1
    <3> QED BY <3>2, <3>4 DEF first
  <2>3. \E k \in 0 .. MaxPackets : OrderInv(w, k)' /\ JitterInv(w, k)' /\ lastReleased' \in Int
    BY <2>0, <2>2, <1>1, <1>7, <1>10, <1>11, ReleasedNext
  <2> QED BY <2>3, <1>9
<1> QED BY <1>12, <1>13

\* One datagram.
LEMMA RxPacketKeeps ==
  ASSUME NEW w \in 0 .. MaxPackets, NEW m \in 0 .. MaxPackets, RxInv(w, m), NEW i, RxPacket(i)
  PROVE  \E k \in 0 .. MaxPackets : RxInv(w, k)'
<1> DEFINE p == inFlight[i]
           S == PeerPackets(w, sent)
<1>0. /\ MaxPackets \in Nat /\ sent \in 0 .. MaxPackets /\ inFlight \in Seq(S \cup {Strange})
      /\ JitterDepth \in Nat \ {0}
  BY RtpAssumption DEF RxInv, NetInv
<1>1. /\ sent' = sent /\ stream' = stream /\ rxTask' = rxTask /\ inbound' = inbound /\ played' = played
      /\ rxTask = "loop" /\ released = <<>>
      /\ i \in DOMAIN inFlight /\ inFlight' = RemoveAt(inFlight, i)
  BY DEF RxPacket
<1>2. i \in 1 .. Len(inFlight) /\ p \in S \cup {Strange}
  BY <1>0, <1>1, LenProperties, ElementOfSeq
<1>3. NetInv(w)'
  <2>1. inFlight' \in Seq(S \cup {Strange})
    BY <1>0, <1>1, <1>2, RemoveFacts
  <2> QED BY <2>1, <1>1 DEF NetInv, RxInv
<1>4. CASE UNCHANGED <<jitter, lastReleased, released, currentSsrc, learnedPeer, early, dropped, flapped>>
  <2>1. Arrived(early, m)' = Arrived(early, m)
    BY <1>4 DEF Arrived
  <2>2. /\ OrderInv(w, m)' = OrderInv(w, m) /\ LossInv' = LossInv /\ Clean' = Clean
    BY <1>1, <1>4 DEF OrderInv, LossInv, Clean, InOrder, Precedes, UpTo, Beyond
  <2>3. JitterInv(w, m)' = JitterInv(w, m)
    BY <1>1, <1>4, <2>1 DEF JitterInv
  <2>4. RxInv(w, m)'
    BY <1>1, <1>3, <1>4, <2>2, <2>3 DEF RxInv
  <2> QED BY <2>4
<1>5. CASE /\ learnedPeer \in {"none", p.src}
           /\ learnedPeer' = p.src
           /\ currentSsrc' = p.ssrc
           /\ flapped' = (flapped \/ (currentSsrc \notin {0, p.ssrc} /\ p.ssrc # 2))
           /\ early' = [early EXCEPT ![p.n] = IF @ >= 0 THEN @ ELSE
                 Cardinality({k \in DOMAIN early : k > p.n /\ early[k] >= 0})]
           /\ IF currentSsrc \notin {0, p.ssrc} THEN NewStream(p) ELSE Push(p)
  <2>1. CASE ~ Clean'
    <3>1. RxInv(w, m)'
      BY <2>1, <1>3 DEF RxInv
    <3> QED BY <3>1
  <2>2. CASE Clean'
    <3> HIDE DEF p
    <3>1. p \in S
      <4>1. p.src # "stranger"
        BY <2>2, <1>5 DEF Clean
      <4>2. Strange.src = "stranger"
        BY DEF Strange, Packet
      <4> QED BY <4>1, <4>2, <1>2
    <3>2. /\ p.n \in 1 .. sent /\ p.n \in 1 .. MaxPackets /\ p = PeerPacket(p.n, w) /\ p.src = "peer"
          /\ p.ssrc \in {1, 2} /\ (p.ssrc = 1 <=> p.n <= w)
      BY <3>1, <1>0, PeerPacketFacts
    <3>3. Clean
      BY <2>2, <3>2, <1>5 DEF Clean
    <3>4. /\ currentSsrc \in {0, 1, 2} /\ lastReleased \in Int
          /\ OrderInv(w, m) /\ LossInv /\ JitterInv(w, m) /\ NetInv(w)
      BY <3>3, <1>1 DEF RxInv
    <3>5. Noted(p.n)
      BY <3>2, <3>4, <1>5, ArrivalNoted DEF LossInv
    <3>6. currentSsrc' \in {0, 1, 2} /\ learnedPeer' \in {"none", "peer"}
      BY <3>2, <1>5
    <3>7. SUFFICES \E k \in 0 .. MaxPackets :
                     OrderInv(w, k)' /\ LossInv' /\ JitterInv(w, k)' /\ lastReleased' \in Int
      BY <3>6, <3>7, <1>3 DEF RxInv
    <3>8. \A d \in dropped : d.n \in 1 .. MaxPackets /\ (d.again \/ early'[d.n] > JitterDepth)
      <4> TAKE d \in dropped
      <4>1. d.n \in 1 .. MaxPackets /\ (d.again \/ early[d.n] > JitterDepth)
        BY <3>4 DEF LossInv
      <4>2. early[d.n] \in Int
        BY <3>4, <4>1 DEF LossInv
      <4>3. early[d.n] >= 0 => early'[d.n] = early[d.n]
        BY <3>5, <4>1 DEF Noted
      <4>4. early[d.n] > JitterDepth => early'[d.n] > JitterDepth
        BY <4>2, <4>3, <1>0
      <4> QED BY <4>1, <4>4
    <3>9. CASE currentSsrc \notin {0, p.ssrc}
      <4>1. NewStream(p)
        BY <3>9, <1>5
      <4>2. released' = jitter /\ jitter' = <<p>> /\ lastReleased' = -1 /\ dropped' = dropped
        BY <4>1 DEF NewStream
      <4>3. p.ssrc = 2 /\ currentSsrc = 1
        BY <2>2, <3>4, <3>9, <1>5 DEF Clean
      <4>4. m <= w /\ p.n > w /\ stream = 2
        BY <3>2, <3>4, <4>3, <1>0 DEF JitterInv, NetInv
      <4>5. /\ jitter \in Seq(S) /\ inbound \in Seq(S) /\ played \in Seq(S)
            /\ InOrder(jitter) /\ InOrder(inbound) /\ InOrder(played) /\ Precedes(played, inbound)
            /\ UpTo(played, m) /\ UpTo(inbound, m) /\ Beyond(jitter, m)
        BY <3>4 DEF OrderInv
      <4>6. \A k \in 1 .. Len(jitter) : jitter[k].n \in Int /\ m < jitter[k].n /\ jitter[k].n <= w
        <5> TAKE k \in 1 .. Len(jitter)
        <5>1. jitter[k] \in S
          BY <4>5, ElementOfSeq
        <5>2. jitter[k].n \in 1 .. sent /\ (jitter[k].ssrc = 1 <=> jitter[k].n <= w)
          BY <5>1, <1>0, PeerPacketFacts
        <5>3. jitter[k].ssrc = 1
          BY <3>4, <4>3 DEF JitterInv
        <5> QED BY <4>5, <5>2, <5>3, <1>0 DEF Beyond
      <4>7. \A k \in 1 .. Len(played) : played[k].n \in Int /\ played[k].n <= m
        BY <4>5, <1>0, ElementOfSeq, PeerPacketFacts DEF UpTo
      <4>8. \A k \in 1 .. Len(inbound) : inbound[k].n \in Int /\ inbound[k].n <= m
        BY <4>5, <1>0, ElementOfSeq, PeerPacketFacts DEF UpTo
      <4>9. Precedes(played, jitter) /\ Precedes(inbound, jitter)
        <5>1. Precedes(played, jitter)
          BY <4>6, <4>7, <1>0 DEF Precedes
        <5>2. Precedes(inbound, jitter)
          BY <4>6, <4>8, <1>0 DEF Precedes
        <5> QED BY <5>1, <5>2
      <4>10. UpTo(played, w) /\ UpTo(inbound, w) /\ UpTo(jitter, w)
        BY <4>4, <4>6, <4>7, <4>8, <1>0 DEF UpTo
      <4> DEFINE one == <<p>>
      <4>11. one \in Seq(S) /\ Len(one) = 1 /\ one[1] = p
        BY <3>1
      <4>12. jitter' = one
        BY <4>2
      <4> HIDE DEF one
      <4>13. InOrder(one) /\ Beyond(one, w)
        BY <4>4, <4>11 DEF InOrder, Beyond
      <4>14. OrderInv(w, w)'
        BY <4>2, <4>5, <4>9, <4>10, <4>11, <4>12, <4>13, <1>1
        DEF OrderInv, InOrder, Precedes, UpTo, Beyond
      <4>15. JitterInv(w, w)'
        <5>1. Len(one) <= JitterDepth
          BY <4>11, <1>0
        <5>2. \A k \in 1 .. Len(one) : one[k].ssrc = 2 /\ early'[one[k].n] >= 0
          BY <3>5, <4>3, <4>11 DEF Noted
        <5>3. currentSsrc' = 2 /\ stream' = 2 /\ w <= w
          BY <4>3, <4>4, <1>0, <1>1, <1>5
        <5>4. lastReleased' = -1
          BY <4>2
        <5> HIDE DEF S
        <5> QED BY <4>12, <5>1, <5>2, <5>3, <5>4 DEF JitterInv
      <4>16. LossInv'
        BY <3>5, <3>8, <4>2 DEF LossInv, Noted
      <4> QED BY <4>2, <4>14, <4>15, <4>16
    <3>10. CASE currentSsrc \in {0, p.ssrc} /\ (IsLate(p) \/ IsDuplicate(p))
      <4>1. Push(p)
        BY <3>10, <1>5
      <4>2. /\ dropped' = dropped \union {[n |-> p.n, again |-> early[p.n] >= 0]}
            /\ jitter' = jitter /\ lastReleased' = lastReleased /\ released' = released
        BY <3>10, <4>1 DEF Push
      <4>3. currentSsrc # 0 /\ currentSsrc = p.ssrc
        <5>1. currentSsrc = 0 => lastReleased = -1 /\ DOMAIN jitter = {}
          BY <3>4 DEF JitterInv
        <5> QED BY <3>10, <5>1 DEF IsLate, IsDuplicate
      <4>4. OrderInv(w, m)'
        BY <3>4, <4>2, <1>1 DEF OrderInv, InOrder, Precedes, UpTo, Beyond
      <4>5. ASSUME ~ (early[p.n] >= 0) PROVE early'[p.n] > JitterDepth
        <5>1. ~ IsDuplicate(p)
          <6>1. SUFFICES ASSUME NEW k \in DOMAIN jitter, jitter[k].seq = p.seq PROVE FALSE
            BY DEF IsDuplicate
          <6>2. k \in 1 .. Len(jitter) /\ jitter[k] \in S
            BY <3>4, <6>1, LenProperties, ElementOfSeq DEF OrderInv
          <6>3. jitter[k].n \in 1 .. MaxPackets /\ jitter[k] = PeerPacket(jitter[k].n, w)
            <7>1. PICK q \in PeerPackets(w, sent) : q = jitter[k]
              BY <6>2
            <7>2. q.n \in 1 .. MaxPackets /\ q = PeerPacket(q.n, w)
              BY ONLY <1>0, PeerPacketFacts, w \in 0 .. MaxPackets, q \in PeerPackets(w, sent)
            <7> QED BY <7>1, <7>2
          <6>4. jitter[k].ssrc = p.ssrc /\ early[jitter[k].n] >= 0
            BY <3>4, <4>3, <6>2 DEF JitterInv
          <6>5. PeerPacket(jitter[k].n, w).ssrc = PeerPacket(p.n, w).ssrc
            BY <3>2, <6>3, <6>4
          <6>6. PeerPacket(jitter[k].n, w).seq = PeerPacket(p.n, w).seq <=> jitter[k].n = p.n
            BY <3>2, <6>3, <6>5, SeqOrder
          <6>7. jitter[k].n = p.n
            BY <3>2, <6>1, <6>3, <6>6
          <6> QED BY <4>5, <6>4, <6>7
        <5>2. IsLate(p)
          BY <3>10, <5>1
        <5>3. /\ m \in 1 .. sent
              /\ PeerPacket(m, w).ssrc = p.ssrc /\ PeerPacket(m, w).seq = lastReleased
              /\ early[m] >= 0 /\ Cardinality(Arrived(early, m)) > JitterDepth
          BY <3>4, <4>3, <5>2 DEF JitterInv, IsLate
        <5>4. PeerPacket(p.n, w).ssrc = PeerPacket(m, w).ssrc /\ m \in 1 .. MaxPackets
          BY <3>2, <5>3, <1>0
        <5>5. /\ PeerPacket(p.n, w).seq = PeerPacket(m, w).seq <=> p.n = m
              /\ SeqLt(PeerPacket(p.n, w).seq, PeerPacket(m, w).seq) <=> p.n < m
          BY <3>2, <5>4, SeqOrder
        <5>6. p.n = m \/ p.n < m
          BY <3>2, <5>2, <5>3, <5>5 DEF IsLate
        <5>7. p.n < m
          BY <4>5, <5>3, <5>6
        <5>8. early'[p.n] >= Cardinality(Arrived(early, m)) /\ early'[p.n] \in Int
          BY <3>2, <3>5, <4>5, <5>7 DEF Noted
        <5>9. Cardinality(Arrived(early, m)) \in Nat
          BY ArrivedFinite
        <5> QED BY <5>3, <5>8, <5>9, <1>0
      <4>6. LossInv'
        <5>1. ASSUME NEW d \in dropped'
              PROVE  d.n \in 1 .. MaxPackets /\ (d.again \/ early'[d.n] > JitterDepth)
          <6>1. CASE d \in dropped
            BY <3>8, <6>1
          <6>2. CASE d = [n |-> p.n, again |-> early[p.n] >= 0]
            <7>1. d.n = p.n /\ d.again = (early[p.n] >= 0)
              BY <6>2
            <7> QED BY <3>2, <4>5, <7>1
          <6> QED BY <4>2, <6>1, <6>2
        <5> QED BY <3>5, <5>1 DEF LossInv, Noted
      <4>7. JitterInv(w, m)'
        <5>1. \A k \in 1 .. Len(jitter) : early'[jitter[k].n] >= 0
          <6> TAKE k \in 1 .. Len(jitter)
          <6>1. jitter[k].n \in 1 .. MaxPackets
            <7>1. jitter[k] \in S
              BY <3>4, ElementOfSeq DEF OrderInv
            <7> QED BY <7>1, <1>0, PeerPacketFacts
          <6>2. early[jitter[k].n] >= 0
            BY <3>4 DEF JitterInv
          <6> QED BY <3>5, <6>1, <6>2 DEF Noted
        <5>2. ASSUME lastReleased # -1
              PROVE  early'[m] >= 0 /\ Cardinality(Arrived(early', m)) > JitterDepth
          <6>1. m \in 1 .. sent /\ early[m] >= 0 /\ Cardinality(Arrived(early, m)) > JitterDepth
            BY <3>4, <5>2 DEF JitterInv
          <6>2. early'[m] >= 0
            BY <3>5, <6>1, <1>0 DEF Noted
          <6>3. Cardinality(Arrived(early', m)) \in Nat /\ Cardinality(Arrived(early, m)) \in Nat
            BY ArrivedFinite
          <6>4. Cardinality(Arrived(early', m)) >= Cardinality(Arrived(early, m))
            BY <3>5 DEF Noted
          <6> QED BY <6>1, <6>2, <6>3, <6>4, <1>0
        <5>3. Arrived(early, m)' = Arrived(early', m)
          BY DEF Arrived
        <5> QED BY <3>4, <4>2, <4>3, <5>1, <5>2, <5>3, <1>1, <1>5 DEF JitterInv
      <4> QED BY <3>4, <4>2, <4>4, <4>6, <4>7
    <3>11. CASE currentSsrc \in {0, p.ssrc} /\ ~ IsLate(p) /\ ~ IsDuplicate(p)
      <4>1. Push(p) /\ currentSsrc' = p.ssrc
        BY <3>11, <1>5
      <4> QED BY <3>1, <3>4, <3>5, <3>11, <4>1, <1>1, PushKeeps
    <3> QED BY <3>9, <3>10, <3>11
  <2> QED BY <2>1, <2>2
<1> QED BY <1>4, <1>5 DEF RxPacket

\* The head of one sequence moves to the end of the one before it.
LEMMA HeadMoves ==
  ASSUME NEW S, NEW q \in Seq(S), NEW r \in Seq(S), r # <<>>, InOrder(q), InOrder(r), Precedes(q, r)
  PROVE  InOrder(Append(q, Head(r))) /\ Precedes(Append(q, Head(r)), Tail(r))
<1>1. /\ Tail(r) \in Seq(S) /\ Len(r) \in Nat /\ Len(Tail(r)) = Len(r) - 1
      /\ Head(r) \in S /\ Head(r) = r[1] /\ 1 \in 1 .. Len(r)
      /\ \A k \in 1 .. Len(Tail(r)) : k + 1 \in 1 .. Len(r) /\ Tail(r)[k] = r[k + 1]
  BY TailAt
<1> DEFINE a == Append(q, Head(r))
           t == Tail(r)
<1>2. /\ a \in Seq(S) /\ Len(q) \in Nat /\ Len(a) = Len(q) + 1
      /\ \A k \in 1 .. Len(a) :
           \/ k \in 1 .. Len(q) /\ a[k] = q[k]
           \/ k = Len(q) + 1 /\ a[k] = Head(r)
  BY <1>1, AppendAt
<1> HIDE DEF a, t
<1>3. ASSUME NEW i \in 1 .. Len(a), NEW j \in 1 .. Len(a), i < j PROVE a[i].n < a[j].n
  <2>1. i \in 1 .. Len(q) /\ a[i] = q[i]
    BY <1>2, <1>3
  <2>2. CASE j \in 1 .. Len(q) /\ a[j] = q[j]
    BY <2>1, <2>2, <1>3 DEF InOrder
  <2>3. CASE a[j] = Head(r)
    BY <2>1, <2>3, <1>1 DEF Precedes
  <2> QED BY <2>2, <2>3, <1>2
<1>4. ASSUME NEW i \in 1 .. Len(a), NEW j \in 1 .. Len(t) PROVE a[i].n < t[j].n
  <2>1. j + 1 \in 1 .. Len(r) /\ t[j] = r[j + 1] /\ 1 < j + 1
    BY <1>1 DEF t
  <2>2. CASE i \in 1 .. Len(q) /\ a[i] = q[i]
    BY <2>1, <2>2 DEF Precedes
  <2>3. CASE a[i] = Head(r)
    BY <2>1, <2>3, <1>1 DEF InOrder
  <2> QED BY <2>2, <2>3, <1>2
<1>5. InOrder(a) /\ Precedes(a, t)
  BY <1>3, <1>4 DEF InOrder, Precedes
<1> QED BY <1>5 DEF a, t

\* rx_loop sends what it released, one at a time.
LEMMA ForwardKeeps ==
  ASSUME NEW w \in 0 .. MaxPackets, NEW m \in 0 .. MaxPackets, RxInv(w, m), RxForward
  PROVE  RxInv(w, m)'
<1> DEFINE S == PeerPackets(w, sent)
<1>1. /\ sent' = sent /\ stream' = stream /\ inFlight' = inFlight /\ played' = played
      /\ jitter' = jitter /\ lastReleased' = lastReleased /\ currentSsrc' = currentSsrc
      /\ learnedPeer' = learnedPeer /\ early' = early /\ dropped' = dropped /\ flapped' = flapped
      /\ released # <<>>
  BY DEF RxForward, rtpNet, rtpSeen
<1>2. NetInv(w)'
  BY <1>1 DEF RxInv, NetInv
<1>3. Arrived(early, m)' = Arrived(early, m)
  BY <1>1 DEF Arrived
<1>4. LossInv' = LossInv /\ Clean' = Clean /\ JitterInv(w, m)' = JitterInv(w, m)
  BY <1>1, <1>3 DEF LossInv, Clean, JitterInv
<1>5. rxTask' = "loop" => rxTask = "loop"
  BY DEF RxForward
<1>6. ASSUME Clean, OrderInv(w, m) PROVE OrderInv(w, m)'
  <2>0. MaxPackets \in Nat
    BY RtpAssumption
  <2>1. /\ jitter \in Seq(S) /\ released \in Seq(S) /\ inbound \in Seq(S) /\ played \in Seq(S)
        /\ InOrder(jitter) /\ InOrder(released) /\ InOrder(inbound) /\ InOrder(played)
        /\ Precedes(played, inbound) /\ Precedes(played, released) /\ Precedes(inbound, released)
        /\ UpTo(played, m) /\ UpTo(inbound, m) /\ UpTo(released, m) /\ Beyond(jitter, m)
    BY <1>6 DEF OrderInv
  <2>2. CASE released' = <<>> /\ inbound' = inbound
    <3>1. released' \in Seq(S) /\ Len(released') = 0
      BY <2>2
    <3> QED BY <2>1, <2>2, <3>1, <1>1 DEF OrderInv, InOrder, Precedes, UpTo, Beyond
  <2>3. CASE inbound' = Append(inbound, Head(released)) /\ released' = Tail(released)
    <3>1. /\ Tail(released) \in Seq(S) /\ Len(released) \in Nat /\ Len(Tail(released)) = Len(released) - 1
          /\ Head(released) \in S /\ Head(released) = released[1] /\ 1 \in 1 .. Len(released)
          /\ \A k \in 1 .. Len(Tail(released)) :
               k + 1 \in 1 .. Len(released) /\ Tail(released)[k] = released[k + 1]
      BY <2>1, <1>1, TailAt
    <3> DEFINE q == Append(inbound, Head(released))
    <3>2. /\ q \in Seq(S) /\ Len(inbound) \in Nat /\ Len(q) = Len(inbound) + 1
          /\ \A k \in 1 .. Len(q) :
               \/ k \in 1 .. Len(inbound) /\ q[k] = inbound[k]
               \/ k = Len(inbound) + 1 /\ q[k] = Head(released)
      BY <2>1, <3>1, AppendAt
    <3> HIDE DEF q
    <3>3. inbound' = q
      BY <2>3 DEF q
    <3>4. InOrder(q) /\ Precedes(q, Tail(released))
      BY <2>1, <1>1, HeadMoves DEF q
    <3>5. InOrder(Tail(released)) /\ UpTo(Tail(released), m)
      BY <2>1, <3>1 DEF InOrder, UpTo
    <3>6. Precedes(played, q) /\ UpTo(q, m)
      BY <2>1, <3>1, <3>2 DEF Precedes, UpTo
    <3>7. Precedes(played, Tail(released))
      BY <2>1, <3>1 DEF Precedes
    <3> QED BY <2>1, <2>3, <3>1, <3>2, <3>3, <3>4, <3>5, <3>6, <3>7, <1>1
        DEF OrderInv, InOrder, Precedes, UpTo, Beyond
  <2> QED BY <2>2, <2>3 DEF RxForward
<1> QED BY <1>1, <1>2, <1>4, <1>5, <1>6 DEF RxInv

\* The task ends: the rest of the buffer goes out behind everything else.
LEMMA EndsKeep ==
  ASSUME NEW w \in 0 .. MaxPackets, NEW m \in 0 .. MaxPackets, RxInv(w, m), RxEnds
  PROVE  RxInv(w, MaxPackets)'
<1> DEFINE S == PeerPackets(w, sent)
<1>0. MaxPackets \in Nat
  BY RtpAssumption
<1>1. /\ sent' = sent /\ stream' = stream /\ inFlight' = inFlight /\ played' = played
      /\ lastReleased' = lastReleased /\ currentSsrc' = currentSsrc /\ inbound' = inbound
      /\ learnedPeer' = learnedPeer /\ early' = early /\ dropped' = dropped /\ flapped' = flapped
      /\ rxTask' = "drain" /\ released' = jitter /\ jitter' = <<>>
  BY DEF RxEnds, rtpNet, rtpSeen
<1>2. NetInv(w)'
  BY <1>1 DEF RxInv, NetInv
<1>3. LossInv' = LossInv /\ Clean' = Clean
  BY <1>1 DEF LossInv, Clean
<1>4. ASSUME Clean, OrderInv(w, m) PROVE OrderInv(w, MaxPackets)'
  <2>0. sent \in 0 .. MaxPackets
    BY DEF RxInv, NetInv
  <2>1. /\ jitter \in Seq(S) /\ inbound \in Seq(S) /\ played \in Seq(S)
        /\ InOrder(jitter) /\ InOrder(inbound) /\ InOrder(played) /\ Precedes(played, inbound)
        /\ UpTo(played, m) /\ UpTo(inbound, m) /\ Beyond(jitter, m)
    BY <1>4 DEF OrderInv
  <2>2. \A k \in 1 .. Len(jitter) : jitter[k].n \in 1 .. MaxPackets
    <3>1. \A k \in 1 .. Len(jitter) : jitter[k] \in S
      BY <2>1, ElementOfSeq
    <3> QED BY <2>0, <3>1, PeerPacketFacts
  <2>3. \A k \in 1 .. Len(played) : played[k].n \in 1 .. MaxPackets
    BY <2>0, <2>1, ElementOfSeq, PeerPacketFacts
  <2>4. \A k \in 1 .. Len(inbound) : inbound[k].n \in 1 .. MaxPackets
    BY <2>0, <2>1, ElementOfSeq, PeerPacketFacts
  <2>5. Precedes(played, jitter) /\ Precedes(inbound, jitter)
    <3>1. \A k \in 1 .. Len(jitter) : m < jitter[k].n
      BY <2>1 DEF Beyond
    <3>2. \A k \in 1 .. Len(played) : played[k].n <= m
      BY <2>1 DEF UpTo
    <3>3. \A k \in 1 .. Len(inbound) : inbound[k].n <= m
      BY <2>1 DEF UpTo
    <3>4. Precedes(played, jitter)
      BY <2>2, <2>3, <3>1, <3>2, <1>0 DEF Precedes
    <3>5. Precedes(inbound, jitter)
      BY <2>2, <2>4, <3>1, <3>3, <1>0 DEF Precedes
    <3> QED BY <3>4, <3>5
  <2>6. UpTo(played, MaxPackets) /\ UpTo(inbound, MaxPackets) /\ UpTo(jitter, MaxPackets)
    BY <2>2, <2>3, <2>4, <1>0 DEF UpTo
  <2>7. jitter' \in Seq(S) /\ Len(jitter') = 0
    BY <1>1
  <2>8. InOrder(jitter') /\ Beyond(jitter', MaxPackets)
    BY <2>7 DEF InOrder, Beyond
  <2> QED BY <2>1, <2>5, <2>6, <2>7, <2>8, <1>0, <1>1
      DEF OrderInv, InOrder, Precedes, UpTo, Beyond
<1> QED BY <1>1, <1>2, <1>3, <1>4 DEF RxInv

\* recv hands a packet to the pipeline.
LEMMA RecvKeeps ==
  ASSUME NEW w \in 0 .. MaxPackets, NEW m \in 0 .. MaxPackets, RxInv(w, m), RecvAudio
  PROVE  RxInv(w, m)'
<1> DEFINE S == PeerPackets(w, sent)
<1>1. /\ sent' = sent /\ stream' = stream /\ inFlight' = inFlight /\ released' = released
      /\ jitter' = jitter /\ lastReleased' = lastReleased /\ currentSsrc' = currentSsrc
      /\ learnedPeer' = learnedPeer /\ early' = early /\ dropped' = dropped /\ flapped' = flapped
      /\ inbound # <<>> /\ inbound' = Tail(inbound) /\ played' = Append(played, Head(inbound))
      /\ rxTask' = rxTask
  BY DEF RecvAudio, rtpNet, rtpSeen
<1>2. NetInv(w)'
  BY <1>1 DEF RxInv, NetInv
<1>3. Arrived(early, m)' = Arrived(early, m)
  BY <1>1 DEF Arrived
<1>4. LossInv' = LossInv /\ Clean' = Clean /\ JitterInv(w, m)' = JitterInv(w, m)
  BY <1>1, <1>3 DEF LossInv, Clean, JitterInv
<1>5. ASSUME Clean, OrderInv(w, m) PROVE OrderInv(w, m)'
  <2>1. /\ jitter \in Seq(S) /\ released \in Seq(S) /\ inbound \in Seq(S) /\ played \in Seq(S)
        /\ InOrder(jitter) /\ InOrder(released) /\ InOrder(inbound) /\ InOrder(played)
        /\ Precedes(played, inbound) /\ Precedes(played, released) /\ Precedes(inbound, released)
        /\ UpTo(played, m) /\ UpTo(inbound, m) /\ UpTo(released, m) /\ Beyond(jitter, m)
    BY <1>5 DEF OrderInv
  <2>2. /\ Tail(inbound) \in Seq(S) /\ Len(inbound) \in Nat /\ Len(Tail(inbound)) = Len(inbound) - 1
        /\ Head(inbound) \in S /\ Head(inbound) = inbound[1] /\ 1 \in 1 .. Len(inbound)
        /\ \A k \in 1 .. Len(Tail(inbound)) :
             k + 1 \in 1 .. Len(inbound) /\ Tail(inbound)[k] = inbound[k + 1]
    BY <2>1, <1>1, TailAt
  <2> DEFINE q == Append(played, Head(inbound))
  <2>3. /\ q \in Seq(S) /\ Len(played) \in Nat /\ Len(q) = Len(played) + 1
        /\ \A k \in 1 .. Len(q) :
             \/ k \in 1 .. Len(played) /\ q[k] = played[k]
             \/ k = Len(played) + 1 /\ q[k] = Head(inbound)
    BY <2>1, <2>2, AppendAt
  <2> HIDE DEF q
  <2>4. played' = q
    BY <1>1 DEF q
  <2>5. InOrder(q) /\ Precedes(q, Tail(inbound))
    BY <2>1, <1>1, HeadMoves DEF q
  <2>6. InOrder(Tail(inbound)) /\ UpTo(Tail(inbound), m) /\ Precedes(Tail(inbound), released)
    <3>1. InOrder(Tail(inbound))
      <4>1. \A i, j \in 1 .. Len(Tail(inbound)) : i < j => i + 1 < j + 1
        BY <2>2
      <4> QED BY <2>1, <2>2, <4>1 DEF InOrder
    <3>2. UpTo(Tail(inbound), m)
      BY <2>1, <2>2 DEF UpTo
    <3>3. Precedes(Tail(inbound), released)
      BY <2>1, <2>2 DEF Precedes
    <3> QED BY <3>1, <3>2, <3>3
  <2>7. Precedes(q, released) /\ UpTo(q, m)
    <3>1. Precedes(q, released)
      BY <2>1, <2>2, <2>3 DEF Precedes
    <3>2. UpTo(q, m)
      BY <2>1, <2>2, <2>3 DEF UpTo
    <3> QED BY <3>1, <3>2
  <2> QED BY <2>1, <2>2, <2>3, <2>4, <2>5, <2>6, <2>7, <1>1
      DEF OrderInv, InOrder, Precedes, UpTo, Beyond
<1> QED BY <1>1, <1>2, <1>4, <1>5 DEF RxInv

\* Every other step leaves the receiving side as it is, or ends its task.
LEMMA RxRestKeeps ==
  ASSUME NEW w \in 0 .. MaxPackets, NEW m \in 0 .. MaxPackets, RxInv(w, m),
         UNCHANGED <<sent, stream, inFlight, played, jitter, lastReleased, currentSsrc, learnedPeer,
                     early, dropped, flapped, released, inbound>>,
         rxTask' = "loop" => rxTask = "loop"
  PROVE  RxInv(w, m)'
<1>1. NetInv(w)'
  BY DEF RxInv, NetInv
<1>2. Arrived(early, m)' = Arrived(early, m)
  BY DEF Arrived
<1>3. /\ LossInv' = LossInv /\ Clean' = Clean /\ JitterInv(w, m)' = JitterInv(w, m)
      /\ OrderInv(w, m)' = OrderInv(w, m)
  BY <1>2 DEF LossInv, Clean, JitterInv, OrderInv, InOrder, Precedes, UpTo, Beyond
<1> QED BY <1>1, <1>3 DEF RxInv

\* The sending side.
LEMMA TxKeeps ==
  ASSUME TxInv, [RtpNext]_rtpVars
  PROVE  TxInv'
<1>1. CASE UNCHANGED <<rtpTx, rtpHangup, transportUp>>
  BY <1>1 DEF TxInv, BotAudioWhole, rtpTx
<1>2. CASE HangUp \/ TransportDrops
  BY <1>2 DEF TxInv, BotAudioWhole, HangUp, TransportDrops, rtpTx
<1>3. CASE BotSends
  BY <1>3 DEF TxInv, BotAudioWhole, BotSends, FrameLen, rtpLeg
<1>4. CASE TxPreroll
  BY <1>4 DEF TxInv, BotAudioWhole, TxPreroll, FrameLen, rtpLeg
<1>5. CASE TxRecv
  <2>1. CASE outbound > 0 /\ outbound' = outbound - 1 /\ pending' = pending + 1 /\ UNCHANGED channelOpen
    BY <1>5, <2>1 DEF TxInv, BotAudioWhole, TxRecv, FrameLen, rtpLeg
  <2>2. CASE ~ transportUp /\ UNCHANGED <<outbound, pending>>
    BY <1>5, <2>2 DEF TxInv, BotAudioWhole, TxRecv, FrameLen, rtpLeg
  <2> QED BY <1>5, <2>1, <2>2 DEF TxRecv
<1>6. CASE TxTick
  BY <1>6 DEF TxInv, BotAudioWhole, TxTick, FrameLen, rtpLeg
<1>7. CASE TxHangup
  BY <1>7 DEF TxInv, BotAudioWhole, TxHangup, FrameLen, rtpLeg
<1>8. ASSUME RxNext, ~ HangUp, ~ TransportDrops PROVE UNCHANGED <<rtpTx, rtpHangup, transportUp>>
  BY <1>8 DEF RxNext, PeerSends, Fault, RxPacket, RxForward, RxEnds, RxReturns, RecvStart, RecvAudio,
              RecvStop, rtpLeg
<1>9. UNCHANGED rtpVars => UNCHANGED <<rtpTx, rtpHangup, transportUp>>
  BY DEF rtpVars, rtpLeg
<1> QED BY <1>1, <1>2, <1>3, <1>4, <1>5, <1>6, <1>7, <1>8, <1>9 DEF RtpNext, TxNext

LEMMA RxKeeps ==
  ASSUME NEW w \in 0 .. MaxPackets, NEW m \in 0 .. MaxPackets, RxInv(w, m), [RtpNext]_rtpVars
  PROVE  \E v, k \in 0 .. MaxPackets : RxInv(v, k)'
<1>0. MaxPackets \in 0 .. MaxPackets
  BY RtpAssumption
<1>1. CASE PeerSends
  BY <1>1, SendsKeep
<1>2. CASE Fault
  BY <1>2, FaultKeeps
<1>3. CASE \E i \in 1 .. ReorderWindow : RxPacket(i)
  BY <1>3, RxPacketKeeps
<1>4. CASE RxForward
  BY <1>4, ForwardKeeps
<1>5. CASE RxEnds
  BY <1>0, <1>5, EndsKeep
<1>6. CASE RecvAudio
  BY <1>6, RecvKeeps
<1>7. CASE RxReturns \/ RecvStart \/ RecvStop \/ HangUp \/ TransportDrops \/ BotSends \/ TxPreroll
           \/ TxRecv \/ TxTick \/ TxHangup \/ UNCHANGED rtpVars
  <2>1. /\ UNCHANGED <<sent, stream, inFlight, played, jitter, lastReleased, currentSsrc, learnedPeer,
                       early, dropped, flapped, released, inbound>>
        /\ rxTask' = "loop" => rxTask = "loop"
    BY <1>7 DEF RxReturns, RecvStart, RecvStop, HangUp, TransportDrops, BotSends, TxPreroll, TxRecv,
                TxTick, TxHangup, rtpNet, rtpRx, rtpSeen, rtpVars
  <2>2. RxInv(w, m)'
    BY <2>1, RxRestKeeps
  <2> QED BY <2>2
<1> QED BY <1>1, <1>2, <1>3, <1>4, <1>5, <1>6, <1>7 DEF RtpNext, RxNext, TxNext

LEMMA RtpInitially ==
  ASSUME RtpInit
  PROVE  RtpInv
<1>0. MaxPackets \in Nat /\ JitterDepth \in Nat
  BY RtpAssumption
<1>1. TxInv
  BY RtpAssumption DEF RtpInit, TxInv, BotAudioWhole, FrameLen
<1>2. NetInv(MaxPackets)
  BY <1>0 DEF RtpInit, NetInv
<1>3. OrderInv(MaxPackets, 0)
  <2>1. Len(<<>>) = 0 /\ <<>> \in Seq(PeerPackets(MaxPackets, sent))
    OBVIOUS
  <2>2. jitter = <<>> /\ released = <<>> /\ inbound = <<>> /\ played = <<>> /\ 0 \in 0 .. MaxPackets
    BY <1>0 DEF RtpInit
  <2> QED BY <2>1, <2>2 DEF OrderInv, InOrder, Precedes, UpTo, Beyond
<1>4. LossInv
  BY DEF RtpInit, LossInv
<1>5. JitterInv(MaxPackets, 0)
  BY <1>0 DEF RtpInit, JitterInv
<1>6. RxInv(MaxPackets, 0)
  BY <1>2, <1>3, <1>4, <1>5 DEF RtpInit, RxInv
<1> QED BY <1>0, <1>1, <1>6 DEF RtpInv

LEMMA RtpFollows ==
  ASSUME RtpInv
  PROVE  MediaInOrder
<1>1. PICK w, m \in 0 .. MaxPackets : RxInv(w, m)
  BY DEF RtpInv
<1>2. ASSUME Clean PROVE OrderInv(w, m) /\ LossInv
  BY <1>1, <1>2 DEF RxInv
<1>3. PlayedInOrder
  <2>1. ASSUME Clean PROVE \A i, j \in DOMAIN played : i < j => played[i].n < played[j].n
    <3>1. DOMAIN played = 1 .. Len(played)
      BY <1>2, <2>1, LenProperties DEF OrderInv
    <3> QED BY <3>1, <1>2, <2>1 DEF OrderInv, InOrder
  <2> QED BY <2>1 DEF PlayedInOrder, Clean
<1>4. WindowRepaired
  BY <1>2 DEF WindowRepaired, LossInv, Clean
<1> QED BY <1>3, <1>4 DEF MediaInOrder, RtpInv, TxInv

\* For any number of packets below half the circle, wherever the sequence numbers start and
\* whatever the network loses, repeats and reorders: the caller is heard in order across the
\* wrap and the change of the SSRC, what at most JITTER_DEPTH later packets have overtaken is
\* not dropped, and of the bot's audio the pump drops nothing and sends nothing twice until
\* the token, the drop or a failing send ends it (JitterBuffer, rx_loop, tx_loop).
THEOREM MediaStaysInOrder == RtpSpec => []MediaInOrder
<1>1. RtpInit => RtpInv
  BY RtpInitially
<1>2. RtpInv /\ [RtpNext]_rtpVars => RtpInv'
  <2> SUFFICES ASSUME RtpInv, [RtpNext]_rtpVars PROVE RtpInv'
    OBVIOUS
  <2>1. PICK w, m \in 0 .. MaxPackets : RxInv(w, m)
    BY DEF RtpInv
  <2>2. \E v, k \in 0 .. MaxPackets : RxInv(v, k)'
    BY <2>1, RxKeeps
  <2>3. TxInv'
    BY TxKeeps DEF RtpInv
  <2> QED BY <2>2, <2>3 DEF RtpInv
<1>3. RtpInv => MediaInOrder
  BY RtpFollows
<1> QED BY <1>1, <1>2, <1>3, PTL DEF RtpSpec

-----------------------------------------------------------------------------
(* Carriers.                                                               *)

Sids == {"none", "s1"}
Codecs == {"ulaw", "alaw", "pcm16"}
LineKinds == {"start", "media", "stop", "noise", "connected", "binary", "open", "ping", "pause",
              "resume", "end", "close"}
EventKinds == {"StreamStart", "Audio", "Stop"}
ResponseTypes == {"opened", "pong", "closed"}
LineMsgs == [kind : LineKinds, n : Nat, sid : Sids, codec : Codecs, held : BOOLEAN]
MediaEvents == [kind : EventKinds, held : BOOLEAN, good : BOOLEAN]
OutMsgs == [kind : {"audio", "clear"}, n : Nat, codec : Codecs, sid : Sids]
Responses == [type : ResponseTypes, seq : Nat, clientSeq : Nat]
Sers == [sid : Sids, codec : Codecs, started : BOOLEAN, open : BOOLEAN, paused : BOOLEAN,
         seq : Nat, clientSeq : Nat, pending : Seq(Responses)]

LineTypes ==
  /\ carrier \in DOMAIN Serializers \cup {"none"}
  /\ line \in [stage : {"new", "up", "down"}, sid : Sids, codec : Codecs, said : Nat, held : BOOLEAN]
  /\ ser \in Sers
  /\ inbox \in Seq(LineMsgs) /\ media \in Seq(MediaEvents)

\* The serializer has the stream's codec from its start event at the latest, and its name.
StreamKnown ==
  /\ carrier = "telnyx" => line.codec # "pcm16"
  /\ carrier # "telnyx" => ser.codec = line.codec
  /\ Started => ser.codec = line.codec
  /\ Started /\ carrier # "none" => (Serializers[carrier].named => ser.sid = line.sid)

\* The start event is ahead of all audio.
HasStart(q) == \E j \in 1 .. Len(q) : q[j].kind = "start"
StartsFirst(q) ==
  \A k \in 1 .. Len(q) : q[k].kind = "media" => \E j \in 1 .. Len(q) : j < k /\ q[j].kind = "start"
StartAhead ==
  carrier # "none" /\ Serializers[carrier].events =>
    Started \/ (StartsFirst(inbox) /\ (line.stage = "up" => HasStart(inbox)))

OfStream(q, sid, codec) == \A k \in 1 .. Len(q) : q[k].sid = sid /\ q[k].codec = codec

\* A queue whose messages lead from one state of the hold to another.
HoldAfter(m) == (m.held \/ m.kind = "pause") /\ m.kind # "resume"
HoldChain(q, from, to) ==
  /\ Len(q) = 0 => from = to
  /\ Len(q) > 0 => q[1].held = from /\ HoldAfter(q[Len(q)]) = to
  /\ \A k \in 1 .. Len(q) : k < Len(q) => q[k + 1].held = HoldAfter(q[k])

HeardWell ==
  \A k \in 1 .. Len(media) :
    media[k].kind = "Audio" => media[k].good /\ (carrier = "genesys" => ~ media[k].held)

LineInv ==
  /\ LineTypes /\ StreamKnown /\ StartAhead /\ OfStream(inbox, line.sid, line.codec) /\ HeardWell
  /\ carrier = "genesys" => HoldChain(inbox, ser.paused, line.held)

\* What was written and not cleared since is what may play.
Silenced(ts, w, ps) ==
  \A k \in 1 .. w : ts[k].kind = "clear" =>
    \A j \in 1 .. Len(ps) : \E i \in k .. w : ts[i].kind = "audio" /\ ts[i].n = ps[j].n
Playings == [n : Nat, good : {TRUE}]
SendInv ==
  /\ taken \in Seq(OutMsgs) /\ written \in Nat /\ written <= Len(taken)
  /\ \A k \in 1 .. Len(taken) :
       taken[k].codec = line.codec /\ (Serializers[carrier].named => taken[k].sid = line.sid)
  /\ taken # <<>> => carrier # "none"
  /\ sock # "broken" => outbox = SubSeq(taken, written + 1, Len(taken))
  /\ sock = "broken" => outbox = <<>>
  /\ sock = "closed" => written = Len(taken)
  /\ playing \in Seq(Playings)
  /\ Silenced(taken, written, playing)

\* The packets on their way: in the order of the presses, of the key that was pressed. The
\* ones of a press that was recognized are of the key the receiver has seen the end of.
LastOf(h) == IF h = <<>> THEN 0 ELSE h[Len(h)]
RfcPackets == [key : Symbols, end : BOOLEAN, press : Nat]
RfcReceivers == [active : Symbols \cup {"none"}, fired : BOOLEAN]
OfKeys(ps, ks) == \A k \in 1 .. Len(ps) : ps[k].press \in 1 .. Len(ks) /\ ps[k].key = ks[ps[k].press]
RfcOrder(ps) == \A j, k \in 1 .. Len(ps) : j < k => ps[j].press <= ps[k].press
RfcNew(ps, last, r) ==
  \A k \in 1 .. Len(ps) :
    \/ ps[k].press > last
    \/ ps[k].press = last /\ ps[k].key = r.active /\ r.fired
RfcInv ==
  /\ packets \in Seq(RfcPackets) /\ receiver \in RfcReceivers
  /\ OfKeys(packets, pressed) /\ RfcOrder(packets) /\ RfcNew(packets, LastOf(heard), receiver)

\* In the audio a gap, which holds no tone, lies between two presses (press 0), and the
\* blocks of one press are alike; the ones of a press that was recognized come before the
\* next gap, and are what the detector holds.
Bands == [low : [1 .. 4 -> Nat], high : [1 .. 4 -> Nat], press : Nat]
BandsPressed(ps, n) == \A k \in 1 .. Len(ps) : ps[k].press <= n
GapsQuiet(ps) == \A k \in 1 .. Len(ps) : ps[k].press = 0 => Detect(ps[k]) = {}
BandOrder(ps) ==
  \A j, k \in 1 .. Len(ps) : j < k /\ ps[j].press # 0 /\ ps[k].press # 0 =>
    /\ ps[j].press <= ps[k].press
    /\ ps[j].press = ps[k].press => Detect(ps[j]) = Detect(ps[k])
    /\ ps[j].press = ps[k].press => \A i \in j .. k : ps[i].press # 0
BandNew(ps, last, tones) ==
  \A k \in 1 .. Len(ps) : ps[k].press # 0 =>
    \/ ps[k].press > last
    \/ ps[k].press = last /\ Detect(ps[k]) = tones /\ \A i \in 1 .. k : ps[i].press # 0
BandInv ==
  /\ packets \in Seq(Bands) /\ receiver \in [held : SUBSET Symbols]
  /\ BandsPressed(packets, Len(pressed)) /\ GapsQuiet(packets) /\ BandOrder(packets)
  /\ BandNew(packets, LastOf(heard), receiver.held)
KeyInv ==
  /\ pressed \in Seq(Symbols) /\ heard \in Seq(Nat) /\ LastOf(heard) <= Len(pressed) /\ NoGhostKeys
  /\ keypad \in {"none", "rfc2833", "inband"}
  /\ keypad = "none" => packets = <<>>
  /\ keypad = "rfc2833" => RfcInv
  /\ keypad = "inband" => BandInv

CarrierInv == LineInv /\ SendInv /\ KeyInv

LEMMA SerializerKinds ==
  /\ DOMAIN Serializers = {"core_plivo", "plivo", "vobiz", "twilio", "cloudonix", "exotel", "telnyx",
                           "vonage", "asterisk", "genesys", "ws"}
  /\ \A c \in DOMAIN Serializers :
       /\ Serializers[c].events <=> c \notin {"vonage", "asterisk", "genesys", "ws"}
       /\ Serializers[c].named => Serializers[c].events /\ c # "telnyx"
       /\ Serializers[c].codec \in Codecs
<1>1. DOMAIN Serializers = {"core_plivo", "plivo", "vobiz", "twilio", "cloudonix", "exotel", "telnyx",
                            "vonage", "asterisk", "genesys", "ws"}
  BY DEF Serializers
<1>2. ASSUME NEW c \in DOMAIN Serializers
      PROVE  /\ Serializers[c].events <=> c \notin {"vonage", "asterisk", "genesys", "ws"}
             /\ Serializers[c].named => Serializers[c].events /\ c # "telnyx"
             /\ Serializers[c].codec \in Codecs
  BY <1>1 DEF Serializers, GenesysSerializer, TelnyxSerializer, EventSerializer, PlivoSerializer,
              CorePlivoSerializer, VobizSerializer, TwilioSerializer, CloudonixSerializer,
              ExotelSerializer, VonageSerializer, AsteriskSerializer, WsTransport, Codecs
<1> QED BY <1>1, <1>2

\* What on_message may do with a message, whichever the serializer: r is the result.
Event(kind, m, s) == [kind |-> kind, held |-> m.held, good |-> m.codec = s.codec]
Reports(r, kind) == r.out # <<>> /\ r.out[1].kind = kind
OneEvent(out, m, s) == \E kind \in EventKinds : out = <<Event(kind, m, s)>>
Handled(m, r) ==
  /\ r.next \in Sers
  /\ r.out = <<>> \/ OneEvent(r.out, m, r.next)
  /\ r.next.codec = ser.codec \/ (carrier = "telnyx" /\ m.kind = "start" /\ r.next.codec = m.codec)
  /\ r.next.sid \in {ser.sid, m.sid}
  /\ Serializers[carrier].events =>
       /\ m.kind = "start" => Reports(r, "StreamStart")
       /\ Reports(r, "StreamStart") =>
            r.next.sid = m.sid /\ (carrier = "telnyx" /\ m.codec # "pcm16" => r.next.codec = m.codec)
       /\ Reports(r, "Audio") => m.kind = "media"
  /\ carrier = "genesys" =>
       /\ m.kind = "pause" => r.next.paused = TRUE
       /\ m.kind = "resume" => r.next.paused = FALSE
       /\ m.kind \notin {"pause", "resume"} => r.next.paused = ser.paused
       /\ Reports(r, "Audio") => ser.paused = FALSE /\ m.kind = "binary"

LEMMA GivesFacts ==
  ASSUME NEW s, NEW m, NEW kind \in EventKinds
  PROVE  /\ Gives(s, kind, m).next = s /\ OneEvent(Gives(s, kind, m).out, m, s)
         /\ \A k : Reports(Gives(s, kind, m), k) <=> k = kind
<1>1. Gives(s, kind, m) = [next |-> s, out |-> <<Event(kind, m, s)>>]
  BY DEF Gives, Event
<1>2. Event(kind, m, s).kind = kind
  BY DEF Event
<1>3. \A k : Reports(Gives(s, kind, m), k) <=> k = kind
  BY <1>1, <1>2 DEF Reports
<1> QED BY <1>1, <1>3 DEF OneEvent

LEMMA IgnoreFacts ==
  ASSUME NEW s
  PROVE  Ignore(s).next = s /\ Ignore(s).out = <<>> /\ \A k : ~ Reports(Ignore(s), k)
BY DEF Ignore, Reports

\* A serializer with this codec, stream and hold.
SerLike(t, codec, sid, paused) ==
  t \in Sers /\ t.codec = codec /\ t.sid = sid /\ t.paused = paused

LEMMA SerFlags ==
  ASSUME NEW s \in Sers, NEW sid \in Sids
  PROVE  /\ SerLike([s EXCEPT !.started = TRUE], s.codec, s.sid, s.paused)
         /\ SerLike([s EXCEPT !.paused = TRUE], s.codec, s.sid, TRUE)
         /\ SerLike([s EXCEPT !.paused = FALSE], s.codec, s.sid, FALSE)
         /\ SerLike([s EXCEPT !.open = TRUE, !.sid = sid], s.codec, sid, s.paused)
         /\ SerLike([s EXCEPT !.open = FALSE], s.codec, s.sid, s.paused)
<1>1. SerLike([s EXCEPT !.started = TRUE], s.codec, s.sid, s.paused)
  BY DEF Sers, SerLike
<1>2. SerLike([s EXCEPT !.paused = TRUE], s.codec, s.sid, TRUE)
  BY DEF Sers, SerLike
<1>3. SerLike([s EXCEPT !.paused = FALSE], s.codec, s.sid, FALSE)
  BY DEF Sers, SerLike
<1>4. SerLike([s EXCEPT !.open = TRUE, !.sid = sid], s.codec, sid, s.paused)
  BY DEF Sers, SerLike
<1>5. SerLike([s EXCEPT !.open = FALSE], s.codec, s.sid, s.paused)
  BY DEF Sers, SerLike
<1> QED BY <1>1, <1>2, <1>3, <1>4, <1>5

LEMMA QueuedFacts ==
  ASSUME NEW s \in Sers, NEW type \in ResponseTypes
  PROVE  SerLike(Queued(s, type), s.codec, s.sid, s.paused)
<1> DEFINE e == [type |-> type, seq |-> s.seq + 1, clientSeq |-> s.clientSeq]
           n == s.seq + 1
           q == Append(s.pending, e)
<1>1. e \in Responses /\ n \in Nat /\ s.pending \in Seq(Responses)
  BY DEF Sers, Responses
<1>2. q \in Seq(Responses)
  <2> HIDE DEF e
  <2> QED BY <1>1, AppendProperties
<1>3. Queued(s, type) = [s EXCEPT !.seq = n, !.pending = q]
  BY DEF Queued, Sers
<1> HIDE DEF e, n, q
<1>4. s.sid \in Sids /\ s.codec \in Codecs
  BY DEF Sers
<1>5. SerLike([s EXCEPT !.seq = n, !.pending = q], s.codec, s.sid, s.paused)
  BY <1>1, <1>2 DEF SerLike, Sers
<1> QED BY <1>3, <1>5

EventDone(s, m, r) ==
  /\ r.next \in Sers
  /\ r.out = <<>> \/ OneEvent(r.out, m, r.next)
  /\ r.next.codec = s.codec /\ r.next.sid \in {s.sid, m.sid}
  /\ m.kind = "start" => Reports(r, "StreamStart")
  /\ Reports(r, "StreamStart") => r.next.sid = m.sid /\ m.kind = "start"
  /\ Reports(r, "Audio") => m.kind = "media"

LEMMA EventHandled ==
  ASSUME NEW s \in Sers, NEW m \in LineMsgs
  PROVE  EventDone(s, m, EventMessage(s, m))
<1>0. m.sid \in Sids /\ m.codec \in Codecs /\ s.sid \in Sids /\ s.codec \in Codecs /\ s.pending \in Seq(Responses)
  BY DEF LineMsgs, Sers
<1>1. CASE m.kind = "start"
  <2> DEFINE t == [s EXCEPT !.sid = m.sid]
  <2>1. t \in Sers /\ t.codec = s.codec /\ t.sid = m.sid
    BY DEF Sers, LineMsgs
  <2>2. EventMessage(s, m) = Gives(t, "StreamStart", m)
    BY <1>1 DEF EventMessage
  <2> HIDE DEF t
  <2> QED BY <1>1, <2>1, <2>2, GivesFacts DEF EventKinds, EventDone
<1>2. CASE m.kind = "media"
  <2>1. EventMessage(s, m) = Gives(s, "Audio", m)
    BY <1>2 DEF EventMessage
  <2> QED BY <1>2, <2>1, GivesFacts DEF EventKinds, EventDone
<1>3. CASE m.kind \in {"stop", "close"}
  <2>1. EventMessage(s, m) = Gives(s, "Stop", m)
    BY <1>3 DEF EventMessage
  <2> QED BY <1>3, <2>1, GivesFacts DEF EventKinds, EventDone
<1>4. CASE m.kind \notin {"start", "media", "stop", "close"}
  <2>1. EventMessage(s, m) = Ignore(s)
    BY <1>4 DEF EventMessage
  <2> QED BY <1>4, <2>1, IgnoreFacts DEF EventDone
<1> QED BY <1>1, <1>2, <1>3, <1>4

LEMMA GenesysHandled ==
  ASSUME carrier = "genesys", ser \in Sers, NEW m \in LineMsgs
  PROVE  Handled(m, GenesysMessage(ser, m))
<1> DEFINE s == [ser EXCEPT !.clientSeq = m.n]
<1>0. ~ Serializers[carrier].events
  BY SerializerKinds
<1>1. s \in Sers /\ s.codec = ser.codec /\ s.sid = ser.sid /\ s.paused = ser.paused
  BY DEF Sers, LineMsgs
<1>2. m.sid \in Sids /\ ser.paused \in BOOLEAN
  BY DEF LineMsgs, Sers
<1> HIDE DEF s
<1>3. CASE m.kind = "binary"
  <2>1. \/ GenesysMessage(ser, m) = Gives(ser, "Audio", m) /\ ~ ser.paused
        \/ GenesysMessage(ser, m) = Ignore(ser)
    BY <1>3 DEF GenesysMessage
  <2>2. ~ ser.paused => ser.paused = FALSE
    BY <1>2
  <2>3. CASE GenesysMessage(ser, m) = Gives(ser, "Audio", m) /\ ~ ser.paused
    BY <1>0, <1>3, <2>2, <2>3, GivesFacts DEF EventKinds, Handled
  <2>4. CASE GenesysMessage(ser, m) = Ignore(ser)
    BY <1>0, <1>3, <2>4, IgnoreFacts DEF Handled
  <2> QED BY <2>1, <2>3, <2>4
<1>4. CASE m.kind = "close"
  <2>1. GenesysMessage(ser, m) = Gives(ser, "Stop", m)
    BY <1>4 DEF GenesysMessage
  <2> QED BY <1>0, <1>4, <2>1, GivesFacts DEF EventKinds, Handled
<1>5. CASE m.kind \notin {"binary", "close"}
  <2>0. GenesysMessage(ser, m) = GenesysText(s, m)
    BY <1>5 DEF GenesysMessage, s
  <2>1. CASE m.kind = "open"
    <3> DEFINE o == [s EXCEPT !.open = TRUE, !.sid = m.sid]
               t == Queued(o, "opened")
    <3>1. o \in Sers /\ o.codec = ser.codec /\ o.sid = m.sid /\ o.paused = ser.paused
      BY <1>1, <1>2 DEF Sers
    <3>2. GenesysText(s, m) = Gives(t, "StreamStart", m)
      BY <2>1 DEF GenesysText
    <3> HIDE DEF o
    <3>3. t \in Sers /\ t.codec = ser.codec /\ t.sid = m.sid /\ t.paused = ser.paused
      BY <3>1, QueuedFacts DEF ResponseTypes, SerLike
    <3> HIDE DEF t
    <3> QED BY <1>0, <2>0, <2>1, <3>2, <3>3, GivesFacts DEF EventKinds, Handled
  <2>2. CASE m.kind = "ping"
    <3> DEFINE t == Queued(s, "pong")
    <3>1. t \in Sers /\ t.codec = ser.codec /\ t.sid = ser.sid /\ t.paused = ser.paused
      BY <1>1, QueuedFacts DEF ResponseTypes, SerLike
    <3>2. GenesysText(s, m) = Ignore(t)
      BY <2>2 DEF GenesysText
    <3> HIDE DEF t
    <3> QED BY <1>0, <2>0, <2>2, <3>1, <3>2, IgnoreFacts DEF Handled
  <2>3. CASE m.kind = "end"
    <3> DEFINE o == [s EXCEPT !.open = FALSE]
               t == Queued(o, "closed")
    <3>1. o \in Sers /\ o.codec = ser.codec /\ o.sid = ser.sid /\ o.paused = ser.paused
      BY <1>1, <1>2, SerFlags DEF SerLike
    <3>2. GenesysText(s, m) = Gives(t, "Stop", m)
      BY <2>3 DEF GenesysText
    <3> HIDE DEF o
    <3>3. t \in Sers /\ t.codec = ser.codec /\ t.sid = ser.sid /\ t.paused = ser.paused
      BY <3>1, QueuedFacts DEF ResponseTypes, SerLike
    <3> HIDE DEF t
    <3> QED BY <1>0, <2>0, <2>3, <3>2, <3>3, GivesFacts DEF EventKinds, Handled
  <2>4. CASE m.kind = "pause"
    <3> DEFINE t == [s EXCEPT !.paused = TRUE]
    <3>1. t \in Sers /\ t.codec = ser.codec /\ t.sid = ser.sid /\ t.paused = TRUE
      BY <1>1, <1>2, SerFlags DEF SerLike
    <3>2. GenesysText(s, m) = Ignore(t)
      BY <2>4 DEF GenesysText
    <3> HIDE DEF t
    <3> QED BY <1>0, <2>0, <2>4, <3>1, <3>2, IgnoreFacts DEF Handled
  <2>5. CASE m.kind = "resume"
    <3> DEFINE t == [s EXCEPT !.paused = FALSE]
    <3>1. t \in Sers /\ t.codec = ser.codec /\ t.sid = ser.sid /\ t.paused = FALSE
      BY <1>1, <1>2, SerFlags DEF SerLike
    <3>2. GenesysText(s, m) = Ignore(t)
      BY <2>5 DEF GenesysText
    <3> HIDE DEF t
    <3> QED BY <1>0, <2>0, <2>5, <3>1, <3>2, IgnoreFacts DEF Handled
  <2>6. CASE m.kind \notin {"open", "ping", "end", "pause", "resume"}
    <3>1. GenesysText(s, m) = Ignore(s)
      BY <2>6 DEF GenesysText
    <3> QED BY <1>0, <1>1, <2>0, <2>6, <3>1, IgnoreFacts DEF Handled
  <2> QED BY <2>1, <2>2, <2>3, <2>4, <2>5, <2>6
<1> QED BY <1>3, <1>4, <1>5

LEMMA MessageHandled ==
  ASSUME carrier \in DOMAIN Serializers, ser \in Sers, NEW m \in LineMsgs
  PROVE  Handled(m, OnMessage(m))
<1>1. CASE carrier = "telnyx"
  <2> DEFINE s == IF m.kind = "start" /\ m.codec \in {"ulaw", "alaw"} THEN [ser EXCEPT !.codec = m.codec] ELSE ser
  <2>1. /\ s \in Sers /\ s.sid = ser.sid
        /\ s.codec = (IF m.kind = "start" /\ m.codec # "pcm16" THEN m.codec ELSE ser.codec)
    BY DEF Sers, LineMsgs, Codecs
  <2>2. OnMessage(m) = TelnyxMessage(ser, m)
    BY <1>1 DEF OnMessage
  <2>3. OnMessage(m) = EventMessage(s, m)
    BY <2>2 DEF TelnyxMessage
  <2> HIDE DEF s
  <2> QED BY <1>1, <2>1, <2>3, EventHandled DEF Handled, EventDone
<1>2. CASE carrier # "telnyx" /\ Serializers[carrier].events
  <2>1. OnMessage(m) = EventMessage(ser, m) /\ carrier # "genesys"
    BY <1>2, SerializerKinds DEF OnMessage
  <2> QED BY <1>2, <2>1, EventHandled DEF Handled, EventDone
<1>3. CASE carrier = "vonage"
  <2>0. OnMessage(m) = VonageMessage(ser, m) /\ ~ Serializers[carrier].events
    BY <1>3, SerializerKinds DEF OnMessage
  <2> DEFINE t == [ser EXCEPT !.started = TRUE]
  <2>1. t \in Sers /\ t.codec = ser.codec /\ t.sid = ser.sid
    BY DEF Sers
  <2>2. \/ OnMessage(m) = Gives(ser, "Audio", m)
        \/ OnMessage(m) = Gives(ser, "Stop", m)
        \/ OnMessage(m) = Gives(t, "StreamStart", m)
        \/ OnMessage(m) = Ignore(ser)
    BY <2>0 DEF VonageMessage
  <2> HIDE DEF t
  <2>3. CASE OnMessage(m) = Ignore(ser)
    BY <1>3, <2>0, <2>3, IgnoreFacts DEF Handled
  <2>4. CASE OnMessage(m) = Gives(t, "StreamStart", m)
    BY <1>3, <2>0, <2>1, <2>4, GivesFacts DEF EventKinds, Handled
  <2>5. CASE OnMessage(m) = Gives(ser, "Audio", m)
    BY <1>3, <2>0, <2>5, GivesFacts DEF EventKinds, Handled
  <2>6. CASE OnMessage(m) = Gives(ser, "Stop", m)
    BY <1>3, <2>0, <2>6, GivesFacts DEF EventKinds, Handled
  <2> QED BY <2>2, <2>3, <2>4, <2>5, <2>6
<1>4. CASE carrier \in {"asterisk", "ws"}
  <2>1. ~ Serializers[carrier].events
    BY <1>4, SerializerKinds
  <2>2. \/ OnMessage(m) = Gives(ser, "Audio", m)
        \/ OnMessage(m) = Gives(ser, "Stop", m)
        \/ OnMessage(m) = Ignore(ser)
    <3>1. OnMessage(m) = AsteriskMessage(ser, m) \/ OnMessage(m) = WsMessage(ser, m)
      BY <1>4, <2>1 DEF OnMessage
    <3> QED BY <3>1 DEF AsteriskMessage, WsMessage
  <2>3. CASE OnMessage(m) = Ignore(ser)
    BY <1>4, <2>1, <2>3, IgnoreFacts DEF Handled
  <2>4. CASE OnMessage(m) = Gives(ser, "Audio", m)
    BY <1>4, <2>1, <2>4, GivesFacts DEF EventKinds, Handled
  <2>5. CASE OnMessage(m) = Gives(ser, "Stop", m)
    BY <1>4, <2>1, <2>5, GivesFacts DEF EventKinds, Handled
  <2> QED BY <2>2, <2>3, <2>4, <2>5
<1>5. CASE carrier = "genesys"
  <2>1. OnMessage(m) = GenesysMessage(ser, m)
    BY <1>5, SerializerKinds DEF OnMessage
  <2> QED BY <1>5, <2>1, GenesysHandled
<1> QED BY <1>1, <1>2, <1>3, <1>4, <1>5, SerializerKinds
-----------------------------------------------------------------------------
(* Carriers: the queue of the carrier's messages.                          *)

LEMMA StreamAppend ==
  ASSUME NEW q \in Seq(LineMsgs), NEW m \in LineMsgs, NEW sid, NEW codec,
         OfStream(q, sid, codec), m.sid = sid, m.codec = codec
  PROVE  OfStream(Append(q, m), sid, codec)
BY AppendAt DEF OfStream

LEMMA StreamTail ==
  ASSUME NEW q \in Seq(LineMsgs), q # <<>>, NEW sid, NEW codec, OfStream(q, sid, codec)
  PROVE  OfStream(Tail(q), sid, codec) /\ Head(q).sid = sid /\ Head(q).codec = codec
BY TailAt DEF OfStream

LEMMA StartAppend ==
  ASSUME NEW q \in Seq(LineMsgs), NEW m \in LineMsgs, StartsFirst(q)
  PROVE  /\ HasStart(q) => HasStart(Append(q, m))
         /\ m.kind = "start" => HasStart(Append(q, m))
         /\ (m.kind = "media" => HasStart(q)) => StartsFirst(Append(q, m))
<1> DEFINE r == Append(q, m)
<1>1. /\ r \in Seq(LineMsgs) /\ Len(q) \in Nat /\ Len(r) = Len(q) + 1
      /\ \A k \in 1 .. Len(q) : r[k] = q[k]
      /\ r[Len(q) + 1] = m
  BY AppendProperties, LenProperties
<1> HIDE DEF r
<1>2. HasStart(q) => HasStart(r)
  BY <1>1 DEF HasStart
<1>3. m.kind = "start" => HasStart(r)
  BY <1>1 DEF HasStart
<1>4. ASSUME m.kind = "media" => HasStart(q) PROVE StartsFirst(r)
  <2> SUFFICES ASSUME NEW k \in 1 .. Len(r), r[k].kind = "media"
               PROVE  \E j \in 1 .. Len(r) : j < k /\ r[j].kind = "start"
    BY DEF StartsFirst
  <2>1. CASE k \in 1 .. Len(q)
    <3>1. PICK j \in 1 .. Len(q) : j < k /\ q[j].kind = "start"
      BY <1>1, <2>1 DEF StartsFirst
    <3> QED BY <1>1, <3>1
  <2>2. CASE k = Len(q) + 1
    <3>1. PICK j \in 1 .. Len(q) : q[j].kind = "start"
      BY <1>1, <1>4, <2>2 DEF HasStart
    <3>2. j \in 1 .. Len(r) /\ j < k /\ r[j].kind = "start"
      BY <1>1, <2>2, <3>1
    <3> QED BY <3>2
  <2> QED BY <1>1, <2>1, <2>2
<1> QED BY <1>2, <1>3, <1>4 DEF r

LEMMA StartTail ==
  ASSUME NEW q \in Seq(LineMsgs), q # <<>>, StartsFirst(q), Head(q).kind # "start"
  PROVE  /\ StartsFirst(Tail(q)) /\ Head(q).kind # "media"
         /\ HasStart(q) => HasStart(Tail(q))
<1> DEFINE r == Tail(q)
<1>1. /\ r \in Seq(LineMsgs) /\ Len(q) \in Nat /\ Len(r) = Len(q) - 1
      /\ Head(q) = q[1] /\ 1 \in 1 .. Len(q)
      /\ \A k \in 1 .. Len(r) : k + 1 \in 1 .. Len(q) /\ r[k] = q[k + 1]
  BY TailAt
<1> HIDE DEF r
<1>2. Head(q).kind # "media"
  BY <1>1 DEF StartsFirst
<1>3. ASSUME NEW j \in 1 .. Len(q), q[j].kind = "start"
      PROVE  j - 1 \in 1 .. Len(r) /\ r[j - 1].kind = "start"
  <2>1. j # 1
    BY <1>1, <1>3
  <2>2. j - 1 \in 1 .. Len(r)
    BY <1>1, <2>1
  <2>3. r[j - 1] = q[(j - 1) + 1]
    BY <1>1, <2>2
  <2> QED BY <1>3, <2>2, <2>3
<1>4. HasStart(q) => HasStart(r)
  BY <1>3 DEF HasStart
<1>5. StartsFirst(r)
  <2> SUFFICES ASSUME NEW k \in 1 .. Len(r), r[k].kind = "media"
               PROVE  \E j \in 1 .. Len(r) : j < k /\ r[j].kind = "start"
    BY DEF StartsFirst
  <2>1. PICK j \in 1 .. Len(q) : j < k + 1 /\ q[j].kind = "start"
    BY <1>1 DEF StartsFirst
  <2>2. j - 1 \in 1 .. Len(r) /\ j - 1 < k /\ r[j - 1].kind = "start"
    BY <1>1, <1>3, <2>1
  <2> QED BY <2>2
<1> QED BY <1>2, <1>4, <1>5 DEF r

LEMMA HoldAppend ==
  ASSUME NEW q \in Seq(LineMsgs), NEW m \in LineMsgs, NEW from, NEW to, HoldChain(q, from, to), m.held = to
  PROVE  HoldChain(Append(q, m), from, HoldAfter(m))
<1> DEFINE r == Append(q, m)
<1>1. /\ r \in Seq(LineMsgs) /\ Len(q) \in Nat /\ Len(r) = Len(q) + 1
      /\ \A k \in 1 .. Len(q) : r[k] = q[k]
      /\ r[Len(q) + 1] = m
  BY AppendProperties, LenProperties
<1> HIDE DEF r
<1>2. ASSUME NEW k \in 1 .. Len(r), k < Len(r) PROVE r[k + 1].held = HoldAfter(r[k])
  <2>1. CASE k < Len(q)
    <3>1. k \in 1 .. Len(q) /\ k + 1 \in 1 .. Len(q)
      BY <1>1, <2>1
    <3>2. r[k] = q[k] /\ r[k + 1] = q[k + 1]
      BY <1>1, <3>1
    <3>3. q[k + 1].held = HoldAfter(q[k])
      BY <2>1, <3>1 DEF HoldChain
    <3> QED BY <3>2, <3>3
  <2>2. CASE k = Len(q)
    <3>1. r[k] = q[Len(q)] /\ r[k + 1] = m /\ Len(q) > 0
      BY <1>1, <2>2
    <3>2. HoldAfter(q[Len(q)]) = to
      BY <3>1 DEF HoldChain
    <3> QED BY <3>1, <3>2
  <2> QED BY <1>1, <1>2, <2>1, <2>2
<1>3. r[1].held = from
  <2>1. CASE Len(q) = 0
    <3>1. r[1] = m
      BY <1>1, <2>1
    <3> QED BY <2>1, <3>1 DEF HoldChain
  <2>2. CASE Len(q) > 0
    <3>1. r[1] = q[1]
      BY <1>1, <2>2
    <3> QED BY <2>2, <3>1 DEF HoldChain
  <2> QED BY <1>1, <2>1, <2>2
<1>4. Len(r) # 0 /\ r[Len(r)] = m
  BY <1>1
<1> QED BY <1>2, <1>3, <1>4 DEF HoldChain, r

LEMMA HoldTail ==
  ASSUME NEW q \in Seq(LineMsgs), q # <<>>, NEW from, NEW to, HoldChain(q, from, to)
  PROVE  Head(q).held = from /\ HoldChain(Tail(q), HoldAfter(Head(q)), to)
<1> DEFINE r == Tail(q)
<1>1. /\ r \in Seq(LineMsgs) /\ Len(q) \in Nat /\ Len(r) = Len(q) - 1
      /\ Head(q) = q[1] /\ 1 \in 1 .. Len(q)
      /\ \A k \in 1 .. Len(r) : k + 1 \in 1 .. Len(q) /\ r[k] = q[k + 1]
  BY TailAt
<1> HIDE DEF r
<1>2. Head(q).held = from
  BY <1>1 DEF HoldChain
<1>3. HoldAfter(q[Len(q)]) = to
  BY <1>1 DEF HoldChain
<1>4. ASSUME Len(r) = 0 PROVE HoldAfter(Head(q)) = to
  <2>1. Len(q) = 1
    BY <1>1, <1>4
  <2> QED BY <1>1, <1>3, <2>1
<1>5. ASSUME Len(r) > 0 PROVE r[1].held = HoldAfter(Head(q)) /\ HoldAfter(r[Len(r)]) = to
  <2>1. r[1] = q[1 + 1] /\ r[Len(r)] = q[Len(r) + 1] /\ Len(r) + 1 = Len(q)
    BY <1>1, <1>5
  <2>2. q[1 + 1].held = HoldAfter(q[1])
    BY <1>1, <1>5 DEF HoldChain
  <2> QED BY <1>1, <1>3, <2>1, <2>2
<1>6. ASSUME NEW k \in 1 .. Len(r), k < Len(r) PROVE r[k + 1].held = HoldAfter(r[k])
  <2>1. k + 1 \in 1 .. Len(r) /\ k + 1 \in 1 .. Len(q) /\ k + 1 < Len(q)
    BY <1>1, <1>6
  <2>2. r[k] = q[k + 1] /\ r[k + 1] = q[(k + 1) + 1]
    BY <1>1, <2>1
  <2>3. q[(k + 1) + 1].held = HoldAfter(q[k + 1])
    BY <2>1 DEF HoldChain
  <2> QED BY <2>2, <2>3
<1> QED BY <1>2, <1>4, <1>5, <1>6 DEF HoldChain, r
-----------------------------------------------------------------------------
(* Carriers: the line.                                                     *)

LEMMA LineKept ==
  LineInv /\ UNCHANGED <<carrier, line, inbox, ser, media>> => LineInv'
BY DEF LineInv, LineTypes, StreamKnown, StartAhead, HeardWell, Started

\* What a message leaves in what recv gave to the pump.
Emits(r, m) == r.next \in Sers /\ (r.out = <<>> \/ OneEvent(r.out, m, r.next))
Grown(q, m, r, t) ==
  /\ t \in Seq(MediaEvents)
  /\ \A k \in 1 .. Len(q) : k \in 1 .. Len(t) /\ t[k] = q[k]
  /\ \A k \in 1 .. Len(t) :
       \/ k \in 1 .. Len(q) /\ t[k] = q[k]
       \/ Reports(r, t[k].kind) /\ t[k].held = m.held /\ (m.codec = r.next.codec => t[k].good)
  /\ \A kind : Reports(r, kind) => \E k \in 1 .. Len(t) : t[k].kind = kind

LEMMA MediaGrows ==
  ASSUME NEW q \in Seq(MediaEvents), NEW m \in LineMsgs, NEW r, Emits(r, m)
  PROVE  Grown(q, m, r, q \o r.out)
<1>3. PICK t : t = q \o r.out
  OBVIOUS
<1>4. r.next \in Sers /\ (r.out = <<>> \/ OneEvent(r.out, m, r.next))
  BY DEF Emits
<1>5. Len(q) \in Nat
  BY LenProperties
<1>6. ASSUME r.out = <<>> PROVE Grown(q, m, r, t)
  <2>1. t = q
    BY <1>6, <1>3, ConcatEmptySeq
  <2> QED BY <1>6, <1>5, <2>1 DEF Reports, Grown
<1>7. ASSUME OneEvent(r.out, m, r.next) PROVE Grown(q, m, r, t)
  <2>1. PICK kind \in EventKinds : r.out = <<Event(kind, m, r.next)>>
    BY <1>7 DEF OneEvent
  <2> DEFINE e == Event(kind, m, r.next)
  <2>2. e \in MediaEvents /\ e.kind = kind /\ e.held = m.held /\ (m.codec = r.next.codec => e.good)
    BY DEF Event, MediaEvents, LineMsgs
  <2>2a. r.out = <<e>>
    BY <2>1
  <2> HIDE DEF e
  <2>3. t = Append(q, e)
    BY <1>3, <2>2, <2>2a, AppendIsConcat
  <2>4. /\ t \in Seq(MediaEvents) /\ Len(t) = Len(q) + 1
        /\ \A k \in 1 .. Len(q) : t[k] = q[k]
        /\ t[Len(q) + 1] = e
    BY <2>2, <2>3, AppendProperties
  <2>5. \A x : Reports(r, x) <=> x = kind
    BY <2>2, <2>2a DEF Reports
  <2>6. \A k \in 1 .. Len(q) : k \in 1 .. Len(t) /\ t[k] = q[k]
    BY <1>5, <2>4
  <2>7. \A k \in 1 .. Len(t) : (k \in 1 .. Len(q) /\ t[k] = q[k]) \/ (k = Len(q) + 1 /\ t[k] = e)
    <3> TAKE k \in 1 .. Len(t)
    <3>1. k \in 1 .. Len(q) \/ k = Len(q) + 1
      BY <1>5, <2>4
    <3> QED BY <2>4, <3>1
  <2>8. Len(q) + 1 \in 1 .. Len(t) /\ Len(t) \in Nat
    BY <1>5, <2>4
  <2>9. \A x : Reports(r, x) => \E k \in 1 .. Len(t) : t[k].kind = x
    BY <2>2, <2>4, <2>5, <2>8
  <2>10. \A k \in 1 .. Len(t) :
           \/ k \in 1 .. Len(q) /\ t[k] = q[k]
           \/ Reports(r, t[k].kind) /\ t[k].held = m.held /\ (m.codec = r.next.codec => t[k].good)
    BY <2>2, <2>5, <2>7
  <2> QED BY <2>4, <2>6, <2>9, <2>10 DEF Grown
<1> QED BY <1>3, <1>4, <1>6, <1>7

\* The carrier's next message: of its stream, and audio only behind the start event.
LEMMA SaysKeeps ==
  ASSUME LineInv, NEW kind \in LineKinds, CarrierSays(kind)
  PROVE  LineInv' /\ line'.sid = line.sid /\ line'.codec = line.codec
<1> DEFINE m == Says(kind, line.said + 1)
           stage == CASE kind \in {"stop", "end", "close"} -> "down"
                      [] kind = "noise" -> line.stage
                      [] OTHER -> "up"
           onHold == (line.held \/ kind = "pause") /\ kind # "resume"
<1>1. /\ LineTypes /\ line.said \in Nat /\ line.held \in BOOLEAN /\ line.sid \in Sids /\ line.codec \in Codecs
      /\ line.stage \in {"new", "up"} /\ MaySay(kind)
      /\ carrier \in DOMAIN Serializers
  BY DEF LineInv, LineTypes, CarrierSays
<1>2. m \in LineMsgs /\ m.kind = kind /\ m.sid = line.sid /\ m.codec = line.codec /\ m.held = line.held
  BY <1>1 DEF Says, LineMsgs
<1>3. stage \in {"new", "up", "down"} /\ onHold \in BOOLEAN
  BY <1>1
<1>4. inbox' = Append(inbox, m) /\ UNCHANGED <<carrier, ser, media>>
  BY DEF CarrierSays
<1>5. /\ line' \in [stage : {"new", "up", "down"}, sid : Sids, codec : Codecs, said : Nat, held : BOOLEAN]
      /\ line'.sid = line.sid /\ line'.codec = line.codec /\ line'.stage = stage /\ line'.held = onHold
  <2> DEFINE n == line.said + 1
  <2>1. line' = [line EXCEPT !.said = n, !.held = onHold, !.stage = stage]
    BY DEF CarrierSays
  <2>2. n \in Nat
    BY <1>1
  <2>3. line \in [stage : {"new", "up", "down"}, sid : Sids, codec : Codecs, said : Nat, held : BOOLEAN]
    BY <1>1 DEF LineTypes
  <2> HIDE DEF onHold, stage, n
  <2> QED BY <1>3, <2>1, <2>2, <2>3
<1>6. onHold = HoldAfter(m)
  BY <1>2 DEF HoldAfter
<1>7. Serializers[carrier].events =>
        /\ kind = "media" => line.stage = "up"
        /\ stage = "up" => line.stage = "up" \/ kind = "start"
  <2>1. ASSUME Serializers[carrier].events
        PROVE  \/ kind = "start" /\ line.stage = "new"
               \/ kind \in {"media", "stop"} /\ line.stage = "up"
               \/ kind \in {"noise", "close"}
    BY <1>1, <2>1, SerializerKinds DEF MaySay
  <2> QED BY <1>1, <2>1
<1> HIDE DEF m, onHold, stage
<1>8. inbox \in Seq(LineMsgs) /\ inbox' \in Seq(LineMsgs)
  BY <1>1, <1>2, <1>4, AppendProperties DEF LineTypes
<1>9. LineTypes'
  BY <1>1, <1>4, <1>5, <1>8 DEF LineTypes
<1>10. StreamKnown' /\ (Started' <=> Started)
  BY <1>4, <1>5 DEF LineInv, StreamKnown, Started
<1>11. StartAhead'
  <2> SUFFICES ASSUME Serializers[carrier].events, ~ Started
               PROVE  StartsFirst(inbox') /\ (line'.stage = "up" => HasStart(inbox'))
    BY <1>4, <1>10 DEF StartAhead
  <2>1. StartsFirst(inbox) /\ (line.stage = "up" => HasStart(inbox))
    BY <1>1, SerializerKinds DEF LineInv, StartAhead
  <2> QED BY <1>2, <1>4, <1>5, <1>7, <1>8, <2>1, StartAppend
<1>12. OfStream(inbox', line'.sid, line'.codec)
  BY <1>2, <1>4, <1>5, <1>8, StreamAppend DEF LineInv
<1>13. HeardWell'
  BY <1>4 DEF LineInv, HeardWell
<1>14. carrier' = "genesys" => HoldChain(inbox', ser'.paused, line'.held)
  BY <1>2, <1>4, <1>5, <1>6, <1>8, HoldAppend DEF LineInv
<1> QED BY <1>5, <1>9, <1>10, <1>11, <1>12, <1>13, <1>14 DEF LineInv
LEMMA EndsKeeps ==
  ASSUME LineInv, RecvEnds
  PROVE  LineInv' /\ line'.sid = line.sid /\ line'.codec = line.codec
<1> DEFINE e == [kind |-> "Stop", held |-> FALSE, good |-> TRUE]
<1>1. e \in MediaEvents /\ e.kind = "Stop"
  BY DEF MediaEvents, EventKinds
<1>2. LineTypes
  BY DEF LineInv
<1>3. /\ line' \in [stage : {"new", "up", "down"}, sid : Sids, codec : Codecs, said : Nat, held : BOOLEAN]
      /\ line'.sid = line.sid /\ line'.codec = line.codec /\ line'.stage = "down" /\ line'.held = line.held
  BY <1>2 DEF LineTypes, RecvEnds
<1>4. media' = Append(media, e) /\ UNCHANGED <<carrier, inbox, ser>>
  BY DEF RecvEnds
<1> HIDE DEF e
<1>5. /\ media \in Seq(MediaEvents) /\ media' \in Seq(MediaEvents) /\ Len(media) \in Nat
      /\ Len(media') = Len(media) + 1
      /\ \A k \in 1 .. Len(media) : media'[k] = media[k]
      /\ \A k \in 1 .. Len(media') :
           \/ k \in 1 .. Len(media) /\ media'[k] = media[k]
           \/ k = Len(media) + 1 /\ media'[k] = e
  <2>1. media \in Seq(MediaEvents)
    BY <1>2 DEF LineTypes
  <2> QED BY <1>1, <1>4, <2>1, AppendAt, AppendProperties
<1>6. Started' <=> Started
  <2>1. DOMAIN media = 1 .. Len(media) /\ DOMAIN media' = 1 .. Len(media')
    BY <1>5, LenProperties
  <2>2. \A k \in 1 .. Len(media) : k \in 1 .. Len(media')
    BY <1>5
  <2> QED BY <1>1, <1>5, <2>1, <2>2 DEF Started
<1>7. LineTypes'
  BY <1>2, <1>3, <1>4, <1>5 DEF LineTypes
<1>8. StreamKnown'
  BY <1>3, <1>4, <1>6 DEF LineInv, StreamKnown
<1>9. StartAhead'
  BY <1>3, <1>4, <1>6 DEF LineInv, StartAhead
<1>10. HeardWell'
  BY <1>1, <1>4, <1>5 DEF LineInv, HeardWell
<1>11. OfStream(inbox', line'.sid, line'.codec) /\ (carrier' = "genesys" => HoldChain(inbox', ser'.paused, line'.held))
  BY <1>3, <1>4 DEF LineInv
<1> QED BY <1>3, <1>7, <1>8, <1>9, <1>10, <1>11 DEF LineInv

\* The plain socket reports the stream before it reads.
LEMMA WsStartKeeps ==
  ASSUME LineInv, carrier = "ws", ser' = [ser EXCEPT !.started = TRUE],
         media' = Append(media, [kind |-> "StreamStart", held |-> FALSE, good |-> TRUE]),
         UNCHANGED <<carrier, line, inbox>>
  PROVE  LineInv'
<1> DEFINE e == [kind |-> "StreamStart", held |-> FALSE, good |-> TRUE]
<1>1. e \in MediaEvents /\ e.kind = "StreamStart"
  BY DEF MediaEvents, EventKinds
<1>2. LineTypes /\ ser \in Sers /\ "ws" \in DOMAIN Serializers /\ "none" \in Sids
  BY SerializerKinds DEF LineInv, LineTypes, Sids
<1>3. SerLike(ser', ser.codec, ser.sid, ser.paused)
  BY <1>2, SerFlags
<1>4. ~ Serializers[carrier].events /\ ~ Serializers[carrier].named
  BY <1>2, SerializerKinds
<1>5. media' = Append(media, e)
  OBVIOUS
<1> HIDE DEF e
<1>6. /\ media' \in Seq(MediaEvents)
      /\ \A k \in 1 .. Len(media') :
           \/ k \in 1 .. Len(media) /\ media'[k] = media[k]
           \/ media'[k] = e
  <2>1. media \in Seq(MediaEvents)
    BY <1>2 DEF LineTypes
  <2> QED BY <1>1, <1>5, <2>1, AppendAt
<1>7. LineTypes'
  BY <1>2, <1>3, <1>6 DEF LineTypes, SerLike
<1>8. StreamKnown'
  BY <1>3, <1>4 DEF LineInv, StreamKnown, SerLike
<1>9. StartAhead'
  BY <1>4 DEF StartAhead
<1>10. HeardWell'
  BY <1>1, <1>6 DEF LineInv, HeardWell
<1>11. OfStream(inbox', line'.sid, line'.codec) /\ carrier' # "genesys"
  BY DEF LineInv
<1> QED BY <1>7, <1>8, <1>9, <1>10, <1>11 DEF LineInv

\* A message that the serializer handled.
LEMMA HandledKeeps ==
  ASSUME LineInv, carrier \in DOMAIN Serializers, inbox # <<>>, NEW r, Handled(Head(inbox), r),
         inbox' = Tail(inbox), ser' = r.next, media' = media \o r.out, UNCHANGED <<carrier, line>>
  PROVE  LineInv'
<1> DEFINE m == Head(inbox)
<1>1. LineTypes /\ inbox \in Seq(LineMsgs) /\ media \in Seq(MediaEvents)
  BY DEF LineInv, LineTypes
<1>2. m \in LineMsgs /\ Tail(inbox) \in Seq(LineMsgs)
  BY <1>1, TailAt
<1>3. OfStream(Tail(inbox), line.sid, line.codec) /\ m.sid = line.sid /\ m.codec = line.codec
  BY <1>1, StreamTail DEF LineInv
<1>4. Handled(m, r)
  OBVIOUS
<1>5. StartsFirst(inbox) /\ m.kind # "start" =>
        StartsFirst(Tail(inbox)) /\ m.kind # "media" /\ (HasStart(inbox) => HasStart(Tail(inbox)))
  BY <1>1, StartTail
<1>6. carrier = "genesys" => m.held = ser.paused /\ HoldChain(Tail(inbox), HoldAfter(m), line.held)
  BY <1>1, HoldTail DEF LineInv
<1> HIDE DEF m
<1>7. Emits(r, m) /\ r.next \in Sers
  BY <1>4 DEF Handled, Emits
<1>8. /\ media' \in Seq(MediaEvents)
      /\ \A k \in 1 .. Len(media) : k \in 1 .. Len(media') /\ media'[k] = media[k]
      /\ \A k \in 1 .. Len(media') :
           \/ k \in 1 .. Len(media) /\ media'[k] = media[k]
           \/ Reports(r, media'[k].kind) /\ media'[k].held = m.held /\ (m.codec = r.next.codec => media'[k].good)
      /\ \A kind : Reports(r, kind) => \E k \in 1 .. Len(media') : media'[k].kind = kind
  <2>1. Grown(media, m, r, media \o r.out)
    BY <1>1, <1>2, <1>7, MediaGrows
  <2>2. Grown(media, m, r, media')
    BY <2>1
  <2> QED BY <2>2 DEF Grown
<1>9. Started' <=> Started \/ Reports(r, "StreamStart")
  <2>1. DOMAIN media = 1 .. Len(media) /\ DOMAIN media' = 1 .. Len(media')
    BY <1>1, <1>8, LenProperties
  <2>2. Started <=> \E k \in 1 .. Len(media) : media[k].kind = "StreamStart"
    BY <2>1 DEF Started
  <2>3. Started' <=> \E k \in 1 .. Len(media') : media'[k].kind = "StreamStart"
    BY <2>1 DEF Started
  <2>4. ASSUME Started PROVE Started'
    BY <1>8, <2>2, <2>3, <2>4
  <2>5. ASSUME Reports(r, "StreamStart") PROVE Started'
    BY <1>8, <2>3, <2>5
  <2>6. ASSUME Started' PROVE Started \/ Reports(r, "StreamStart")
    BY <1>8, <2>2, <2>3, <2>6
  <2> QED BY <2>4, <2>5, <2>6
<1>10. LineTypes'
  BY <1>1, <1>2, <1>7, <1>8 DEF LineTypes
<1>11. StreamKnown'
  <2>1. carrier # "telnyx" => r.next.codec = line.codec
    BY <1>4 DEF Handled, LineInv, StreamKnown
  <2>2. carrier = "telnyx" => Serializers[carrier].events
    BY SerializerKinds
  <2>3. Started' => r.next.codec = line.codec
    BY <1>3, <1>4, <1>9, <2>1, <2>2 DEF Handled, LineInv, StreamKnown
  <2>4. Serializers[carrier].named => Serializers[carrier].events /\ carrier # "none"
    BY SerializerKinds
  <2>5. Started' /\ Serializers[carrier].named => r.next.sid = line.sid
    BY <1>3, <1>4, <1>9, <2>4 DEF Handled, LineInv, StreamKnown
  <2>6. carrier = "telnyx" => line.codec # "pcm16"
    BY DEF LineInv, StreamKnown
  <2> QED BY <2>1, <2>3, <2>5, <2>6 DEF StreamKnown
<1>12. StartAhead'
  <2> SUFFICES ASSUME Serializers[carrier].events, ~ Started'
               PROVE  StartsFirst(inbox') /\ (line.stage = "up" => HasStart(inbox'))
    BY DEF StartAhead
  <2>1. ~ Started /\ m.kind # "start"
    BY <1>4, <1>9 DEF Handled
  <2>2. carrier # "none"
    BY SerializerKinds
  <2>3. StartsFirst(inbox) /\ (line.stage = "up" => HasStart(inbox))
    BY <2>1, <2>2 DEF LineInv, StartAhead
  <2> QED BY <1>5, <2>1, <2>3
<1>13. Reports(r, "Audio") => r.next.codec = m.codec
  <2>1. carrier # "telnyx" => r.next.codec = m.codec
    BY <1>3, <1>4 DEF Handled, LineInv, StreamKnown
  <2>2. carrier = "telnyx" => Serializers[carrier].events /\ carrier # "none"
    BY SerializerKinds
  <2>3. carrier = "telnyx" /\ Reports(r, "Audio") => Started
    BY <1>4, <1>5, <2>2 DEF Handled, LineInv, StartAhead
  <2>4. Started => ser.codec = m.codec
    BY <1>3 DEF LineInv, StreamKnown
  <2>5. carrier = "telnyx" /\ Reports(r, "Audio") => r.next.codec = m.codec
    BY <1>4, <2>3, <2>4 DEF Handled
  <2> QED BY <2>1, <2>5
<1>14. carrier = "genesys" /\ Reports(r, "Audio") => m.held = FALSE
  BY <1>4, <1>6 DEF Handled
<1>15. HeardWell'
  BY <1>8, <1>13, <1>14 DEF LineInv, HeardWell
<1>16. carrier = "genesys" => HoldChain(inbox', r.next.paused, line.held)
  <2>1. carrier = "genesys" => r.next.paused = HoldAfter(m)
    <3>1. ser.paused \in BOOLEAN /\ m.held \in BOOLEAN
      BY <1>1, <1>2 DEF LineTypes, Sers, LineMsgs
    <3> QED BY <1>4, <1>6, <3>1 DEF Handled, HoldAfter
  <2> QED BY <1>6, <2>1
<1> QED BY <1>3, <1>10, <1>11, <1>12, <1>15, <1>16 DEF LineInv

LEMMA CarrierRecvKeeps == LineInv /\ Recv => LineInv'
<1> SUFFICES ASSUME LineInv, Recv PROVE LineInv'
  OBVIOUS
<1>1. carrier \in DOMAIN Serializers /\ ser \in Sers /\ inbox \in Seq(LineMsgs) /\ UNCHANGED <<carrier, line>>
  BY DEF LineInv, LineTypes, Recv
<1>2. CASE carrier = "ws" /\ ~ ser.started
  BY <1>1, <1>2, WsStartKeeps DEF Recv
<1>3. CASE ~ (carrier = "ws" /\ ~ ser.started)
  <2> DEFINE r == OnMessage(Head(inbox))
  <2>1. inbox # <<>> /\ inbox' = Tail(inbox) /\ ser' = r.next /\ media' = media \o r.out
    BY <1>3 DEF Recv
  <2>2. Head(inbox) \in LineMsgs
    BY <1>1, <2>1, TailAt
  <2>3. Handled(Head(inbox), r)
    BY <1>1, <2>2, MessageHandled
  <2> HIDE DEF r
  <2> QED BY <1>1, <2>1, <2>3, HandledKeeps
<1> QED BY <1>2, <1>3
-----------------------------------------------------------------------------
(* Carriers: the writer's queue.                                           *)

LEMMA RestAppend ==
  ASSUME NEW S, NEW s \in Seq(S), NEW e \in S, NEW w \in Nat, w <= Len(s)
  PROVE  SubSeq(Append(s, e), w + 1, Len(Append(s, e))) = Append(SubSeq(s, w + 1, Len(s)), e)
<1> DEFINE a == Append(s, e)
           n == Len(s)
           b == SubSeq(s, w + 1, n)
           c == SubSeq(a, w + 1, n)
<1>1. /\ n \in Nat /\ a \in Seq(S) /\ Len(a) = n + 1
      /\ \A i \in 1 .. n : a[i] = s[i]
      /\ a[n + 1] = e
  BY AppendProperties, LenProperties
<1> HIDE DEF a
<1>2. /\ \A i \in w + 1 .. n : s[i] \in S
      /\ \A i \in w + 1 .. n : a[i] \in S
  <2> SUFFICES ASSUME NEW i \in w + 1 .. n PROVE s[i] \in S /\ a[i] \in S
    OBVIOUS
  <2>1. i \in 1 .. n /\ i \in 1 .. Len(a)
    BY <1>1
  <2> QED BY <1>1, <2>1, ElementOfSeq
<1>3. w + 1 \in Int /\ n \in Int
  BY <1>1
<1>4. b \in Seq(S) /\ c \in Seq(S) /\ Len(b) = Len(c)
  BY <1>2, <1>3, SubSeqProperties
<1>5. \A i \in 1 .. n - (w + 1) + 1 : b[i] = s[w + 1 + i - 1] /\ c[i] = a[w + 1 + i - 1]
  BY <1>2, <1>3, SubSeqProperties
<1>6. ASSUME NEW i \in 1 .. Len(b) PROVE b[i] = c[i]
  <2>1. Len(b) = IF w + 1 <= n THEN n - (w + 1) + 1 ELSE 0
    BY <1>2, <1>3, SubSeqProperties
  <2>2. i \in 1 .. n - (w + 1) + 1 /\ w + 1 + i - 1 \in 1 .. n
    BY <1>1, <2>1
  <2> QED BY <1>1, <1>5, <2>2
<1>7. b = c
  <2> HIDE DEF b, c
  <2> QED BY <1>4, <1>6, SeqEqual
<1>8. SubSeq(a, w + 1, n + 1) = c \o <<e>>
  <2>1. w + 1 \in 1 .. Len(a) /\ n + 1 \in w + 1 .. Len(a) /\ n + 1 - 1 = n
    BY <1>1
  <2>2. PICK i, j : i = w + 1 /\ j = n + 1
    OBVIOUS
  <2>3. i \in 1 .. Len(a) /\ j \in i .. Len(a) /\ j - 1 = n
    BY <2>1, <2>2
  <2>4. SubSeq(a, i, j) = SubSeq(a, i, j - 1) \o <<a[j]>>
    BY <1>1, <2>3, SubSeqRecursiveSecond
  <2> QED BY <1>1, <2>2, <2>3, <2>4
<1>9. Append(b, e) = b \o <<e>>
  <2> HIDE DEF b
  <2> QED BY <1>4, AppendIsConcat
<1> QED BY <1>1, <1>7, <1>8, <1>9 DEF a

LEMMA RestTail ==
  ASSUME NEW S, NEW s \in Seq(S), NEW w \in Nat, w <= Len(s)
  PROVE  /\ SubSeq(s, w + 1, Len(s)) = <<>> <=> w = Len(s)
         /\ SubSeq(s, w + 1, Len(s)) # <<>> =>
              /\ w + 1 \in 1 .. Len(s) /\ Head(SubSeq(s, w + 1, Len(s))) = s[w + 1]
              /\ Tail(SubSeq(s, w + 1, Len(s))) = SubSeq(s, w + 1 + 1, Len(s))
<1> DEFINE n == Len(s)
           b == SubSeq(s, w + 1, n)
<1>1. n \in Nat /\ w + 1 \in Int /\ n \in Int
  BY LenProperties
<1>2. CASE w = n
  <2>1. n < w + 1
    BY <1>1, <1>2
  <2>2. b = <<>>
    BY <1>1, <2>1, SubSeqEmpty
  <2> QED BY <1>2, <2>2
<1>3. CASE w < n
  <2>1. w + 1 \in 1 .. n /\ n \in w + 1 .. n
    BY <1>1, <1>3
  <2>2. Head(b) = s[w + 1] /\ Tail(b) = SubSeq(s, w + 1 + 1, n)
    BY <2>1, HeadTailOfSubSeq
  <2>3. \A i \in w + 1 .. n : s[i] \in S
    BY <1>1, ElementOfSeq
  <2>4. b \in Seq(S) /\ Len(b) = IF w + 1 <= n THEN n - (w + 1) + 1 ELSE 0
    BY <1>1, <2>3, SubSeqProperties
  <2>5. Len(b) # 0
    BY <1>1, <1>3, <2>4
  <2>6. b # <<>>
    <3> HIDE DEF b
    <3> QED BY <2>5
  <2> QED BY <1>1, <1>3, <2>1, <2>2, <2>6
<1> QED BY <1>1, <1>2, <1>3

LEMMA SendKept ==
  ASSUME SendInv, UNCHANGED <<carrier, taken, outbox, sock, written, playing>>,
         line'.sid = line.sid, line'.codec = line.codec
  PROVE  SendInv'
BY DEF SendInv

\* A message that a send accepts is for the stream, in its codec.
LEMMA SendOutKeeps ==
  ASSUME SendInv, carrier # "none", NEW m \in OutMsgs, m.codec = line.codec,
         Serializers[carrier].named => m.sid = line.sid, SendOut(m)
  PROVE  SendInv'
<1>1. /\ taken \in Seq(OutMsgs) /\ written \in Nat /\ written <= Len(taken) /\ sock = "open"
      /\ outbox = SubSeq(taken, written + 1, Len(taken))
      /\ taken' = Append(taken, m) /\ outbox' = Append(outbox, m)
      /\ UNCHANGED <<carrier, line, sock, written, playing>>
  BY DEF SendInv, SendOut, lineVars
<1>2. /\ taken' \in Seq(OutMsgs) /\ Len(taken) \in Nat /\ Len(taken') = Len(taken) + 1
      /\ \A k \in 1 .. Len(taken) : taken'[k] = taken[k]
      /\ \A k \in 1 .. Len(taken') : (k \in 1 .. Len(taken) /\ taken'[k] = taken[k]) \/ taken'[k] = m
  BY <1>1, AppendAt, AppendProperties
<1>3. written <= Len(taken')
  BY <1>1, <1>2
<1>4. outbox' = SubSeq(taken', written' + 1, Len(taken'))
  BY <1>1, RestAppend
<1>5. \A k \in 1 .. Len(taken') :
        taken'[k].codec = line.codec /\ (Serializers[carrier].named => taken'[k].sid = line.sid)
  BY <1>2 DEF SendInv
<1>6. Silenced(taken', written, playing)
  <2>1. Silenced(taken, written, playing)
    BY DEF SendInv
  <2> SUFFICES ASSUME NEW k \in 1 .. written, taken'[k].kind = "clear", NEW j \in 1 .. Len(playing)
               PROVE  \E i \in k .. written : taken'[i].kind = "audio" /\ taken'[i].n = playing[j].n
    BY DEF Silenced
  <2>2. taken'[k] = taken[k] /\ \A i \in k .. written : taken'[i] = taken[i]
    BY <1>1, <1>2
  <2> QED BY <2>1, <2>2 DEF Silenced
<1> QED BY <1>1, <1>2, <1>3, <1>4, <1>5, <1>6 DEF SendInv

LEMMA SendAudioKeeps ==
  ASSUME LineInv, SendInv, SendAudio
  PROVE  SendInv'
<1>1. carrier # "none" /\ Started /\ SendOut(EncodeAudio(Chunks + 1))
  BY DEF SendAudio
<1>2. Chunks \in Nat
  <2>1. taken \in Seq(OutMsgs)
    BY DEF SendInv
  <2>2. DOMAIN taken = 1 .. Len(taken) /\ Len(taken) \in Nat
    BY <2>1, LenProperties
  <2>3. IsFiniteSet(1 .. Len(taken))
    BY <2>2, FS_Interval
  <2>4. IsFiniteSet({k \in DOMAIN taken : taken[k].kind = "audio"})
    BY <2>2, <2>3, FS_Subset
  <2> QED BY <2>4, FS_CardinalityType DEF Chunks
<1>3. ser.codec = line.codec /\ (Serializers[carrier].named => ser.sid = line.sid)
  BY <1>1 DEF LineInv, StreamKnown
<1>4. ser.codec \in Codecs /\ ser.sid \in Sids /\ "none" \in Sids
  BY DEF LineInv, LineTypes, Sers, Sids
<1> DEFINE m == EncodeAudio(Chunks + 1)
<1>5. m \in OutMsgs /\ m.codec = line.codec /\ (Serializers[carrier].named => m.sid = line.sid)
  BY <1>2, <1>3, <1>4 DEF EncodeAudio, OutMsgs
<1> HIDE DEF m
<1> QED BY <1>1, <1>5, SendOutKeeps DEF m

LEMMA SendClearKeeps ==
  ASSUME LineInv, SendInv, SendClear
  PROVE  SendInv'
<1>1. carrier # "none" /\ Started /\ SendOut(EncodeClear)
  BY DEF SendClear
<1>3. ser.codec = line.codec /\ (Serializers[carrier].named => ser.sid = line.sid)
  BY <1>1 DEF LineInv, StreamKnown
<1>4. ser.codec \in Codecs /\ ser.sid \in Sids /\ "none" \in Sids
  BY DEF LineInv, LineTypes, Sers, Sids
<1>5. /\ EncodeClear \in OutMsgs /\ EncodeClear.codec = line.codec
      /\ Serializers[carrier].named => EncodeClear.sid = line.sid
  BY <1>3, <1>4 DEF EncodeClear, OutMsgs
<1> QED BY <1>1, <1>5, SendOutKeeps

\* The writer's step. The message on the wire is the next one that was accepted.
LEMMA WriterKeeps ==
  ASSUME SendInv, Writer
  PROVE  SendInv'
<1>1. /\ taken \in Seq(OutMsgs) /\ written \in Nat /\ written <= Len(taken) /\ sock \in {"open", "dropped"}
      /\ outbox = SubSeq(taken, written + 1, Len(taken))
      /\ playing \in Seq(Playings)
      /\ UNCHANGED <<carrier, line, taken>>
  BY DEF SendInv, Writer, lineVars
<1>2. Len(taken) \in Nat
  BY <1>1, LenProperties
<1>3. CASE outbox = <<>>
  <2>1. sock' = "closed" /\ UNCHANGED <<outbox, written, playing>>
    BY <1>3 DEF Writer
  <2>2. written = Len(taken)
    BY <1>1, <1>3, RestTail
  <2> QED BY <1>1, <1>3, <2>1, <2>2 DEF SendInv
<1>4. CASE outbox # <<>>
  <2> DEFINE m == Head(outbox)
             p == [n |-> m.n, good |-> m.codec = line.codec]
  <2>1. outbox' = Tail(outbox) /\ written' = written + 1 /\ playing' = Played(m) /\ sock' = sock
    BY <1>4 DEF Writer
  <2>2. /\ written + 1 \in 1 .. Len(taken) /\ m = taken[written + 1]
        /\ outbox' = SubSeq(taken, written' + 1, Len(taken))
    BY <1>1, <1>4, <2>1, RestTail
  <2>3. m \in OutMsgs /\ m.codec = line.codec /\ (Serializers[carrier].named => m.sid = line.sid)
    BY <1>1, <2>2, ElementOfSeq DEF SendInv
  <2>4. p \in Playings /\ p.n = m.n
    BY <2>3 DEF OutMsgs, Playings
  <2>5. playing' = IF m.kind = "clear" THEN <<>> ELSE Append(playing, p)
    BY <2>1, <2>3 DEF Played
  <2> HIDE DEF m, p
  <2>6. playing' \in Seq(Playings)
    <3>1. <<>> \in Seq(Playings)
      OBVIOUS
    <3>2. Append(playing, p) \in Seq(Playings)
      BY <1>1, <2>4, AppendProperties
    <3> QED BY <2>5, <3>1, <3>2
  <2>7. ASSUME NEW k \in 1 .. written', taken[k].kind = "clear", NEW j \in 1 .. Len(playing')
        PROVE  \E i \in k .. written' : taken[i].kind = "audio" /\ taken[i].n = playing'[j].n
    <3>1. m.kind # "clear" /\ playing' = Append(playing, p)
      <4>1. m.kind = "clear" => Len(playing') = 0
        BY <2>5
      <4> QED BY <2>5, <2>7, <4>1
    <3>2. m.kind = "audio"
      BY <2>3, <3>1 DEF OutMsgs
    <3>3. k # written + 1 /\ k \in 1 .. written
      BY <1>1, <2>1, <2>2, <2>7, <3>1
    <3>4. (j \in 1 .. Len(playing) /\ playing'[j] = playing[j]) \/ playing'[j] = p
      BY <1>1, <2>4, <2>7, <3>1, AppendAt
    <3>5. CASE j \in 1 .. Len(playing) /\ playing'[j] = playing[j]
      <4>1. PICK i \in k .. written : taken[i].kind = "audio" /\ taken[i].n = playing[j].n
        BY <2>7, <3>3, <3>5 DEF SendInv, Silenced
      <4>2. i \in k .. written'
        BY <1>1, <2>1, <3>3, <4>1
      <4> QED BY <3>5, <4>1, <4>2
    <3>6. CASE playing'[j] = p
      <4>1. written + 1 \in k .. written'
        BY <1>1, <2>1, <3>3
      <4> QED BY <2>2, <2>4, <3>2, <3>6, <4>1
    <3> QED BY <3>4, <3>5, <3>6
  <2>8. written' \in Nat /\ written' <= Len(taken)
    BY <1>1, <1>2, <2>1, <2>2
  <2>9. Silenced(taken, written', playing')
    BY <2>7 DEF Silenced
  <2> QED BY <1>1, <2>1, <2>2, <2>6, <2>8, <2>9 DEF SendInv
<1> QED BY <1>3, <1>4

LEMMA PlayoutKeeps ==
  ASSUME SendInv, Playout
  PROVE  SendInv'
<1>1. /\ playing \in Seq(Playings) /\ playing # <<>> /\ playing' = Tail(playing)
      /\ UNCHANGED <<carrier, line, taken, outbox, sock, written>>
  BY DEF SendInv, Playout, lineVars
<1>2. /\ playing' \in Seq(Playings)
      /\ \A j \in 1 .. Len(playing') : j + 1 \in 1 .. Len(playing) /\ playing'[j] = playing[j + 1]
  BY <1>1, TailAt
<1>3. ASSUME NEW k \in 1 .. written, taken[k].kind = "clear", NEW j \in 1 .. Len(playing')
      PROVE  \E i \in k .. written : taken[i].kind = "audio" /\ taken[i].n = playing'[j].n
  BY <1>2, <1>3 DEF SendInv, Silenced
<1>4. Silenced(taken, written, playing')
  BY <1>3 DEF Silenced
<1> QED BY <1>1, <1>2, <1>4 DEF SendInv

LEMMA SocketKeeps ==
  ASSUME SendInv, DropSocket \/ WriterFails
  PROVE  SendInv'
<1>1. CASE DropSocket
  BY <1>1 DEF SendInv, DropSocket, lineVars
<1>2. CASE WriterFails
  BY <1>2 DEF SendInv, WriterFails, lineVars
<1> QED BY <1>1, <1>2
-----------------------------------------------------------------------------
(* Carriers: the keys.                                                     *)

LEMMA KeyKept ==
  KeyInv /\ UNCHANGED <<keypad, pressed, packets, receiver, heard>> => KeyInv'
BY DEF KeyInv, RfcInv, BandInv, NoGhostKeys

LEMMA ConcatAt ==
  ASSUME NEW S, NEW p \in Seq(S), NEW q \in Seq(S)
  PROVE  /\ p \o q \in Seq(S) /\ Len(p) \in Nat /\ Len(q) \in Nat /\ Len(p \o q) = Len(p) + Len(q)
         /\ \A k \in 1 .. Len(p \o q) :
              \/ k \in 1 .. Len(p) /\ (p \o q)[k] = p[k]
              \/ k > Len(p) /\ k - Len(p) \in 1 .. Len(q) /\ (p \o q)[k] = q[k - Len(p)]
<1>1. /\ p \o q \in Seq(S) /\ Len(p) \in Nat /\ Len(q) \in Nat /\ Len(p \o q) = Len(p) + Len(q)
      /\ \A k \in 1 .. Len(p) + Len(q) : (p \o q)[k] = IF k <= Len(p) THEN p[k] ELSE q[k - Len(p)]
  BY ConcatProperties, LenProperties
<1>2. ASSUME NEW k \in 1 .. Len(p \o q)
      PROVE  \/ k \in 1 .. Len(p) /\ (p \o q)[k] = p[k]
             \/ k > Len(p) /\ k - Len(p) \in 1 .. Len(q) /\ (p \o q)[k] = q[k - Len(p)]
  BY <1>1
<1> QED BY <1>1, <1>2

\* A press that comes after all the others is heard after them.
LEMMA HeardAppend ==
  ASSUME NEW h \in Seq(Nat), NEW p \in Nat, p > LastOf(h),
         \A k \in 2 .. Len(h) : h[k - 1] < h[k]
  PROVE  /\ Append(h, p) \in Seq(Nat) /\ LastOf(Append(h, p)) = p
         /\ \A k \in 2 .. Len(Append(h, p)) : Append(h, p)[k - 1] < Append(h, p)[k]
<1> DEFINE g == Append(h, p)
<1>1. /\ g \in Seq(Nat) /\ Len(h) \in Nat /\ Len(g) = Len(h) + 1
      /\ \A k \in 1 .. Len(h) : g[k] = h[k]
      /\ g[Len(h) + 1] = p
  BY AppendProperties, LenProperties
<1> HIDE DEF g
<1>2. LastOf(g) = p
  <2>1. Len(g) # 0
    BY <1>1
  <2>2. g # <<>>
    BY <2>1
  <2> QED BY <1>1, <2>2 DEF LastOf
<1>3. ASSUME NEW k \in 2 .. Len(g) PROVE g[k - 1] < g[k]
  <2>1. CASE k <= Len(h)
    <3>1. k \in 2 .. Len(h) /\ k \in 1 .. Len(h) /\ k - 1 \in 1 .. Len(h)
      BY <1>1, <2>1
    <3> QED BY <1>1, <3>1
  <2>2. CASE k = Len(h) + 1
    <3>1. k - 1 = Len(h) /\ Len(h) \in 1 .. Len(h) /\ Len(h) # 0
      BY <1>1, <2>2
    <3>2. LastOf(h) = h[Len(h)]
      <4>1. h # <<>>
        BY <3>1
      <4> QED BY <4>1 DEF LastOf
    <3> QED BY <1>1, <2>2, <3>1, <3>2
  <2> QED BY <1>1, <2>1, <2>2
<1> QED BY <1>1, <1>2, <1>3 DEF g

LEMMA HeardGrows ==
  ASSUME NEW n, n \in Nat, KeyInv, heard' = Append(heard, n), n > LastOf(heard), n <= Len(pressed),
         pressed' = pressed
  PROVE  heard' \in Seq(Nat) /\ LastOf(heard') = n /\ NoGhostKeys' /\ LastOf(heard') <= Len(pressed')
<1>1. heard \in Seq(Nat) /\ \A k \in 2 .. Len(heard) : heard[k - 1] < heard[k]
  BY DEF KeyInv, NoGhostKeys
<1>2. PICK h : h = heard
  OBVIOUS
<1>3. /\ Append(h, n) \in Seq(Nat) /\ LastOf(Append(h, n)) = n
      /\ \A k \in 2 .. Len(Append(h, n)) : Append(h, n)[k - 1] < Append(h, n)[k]
  BY <1>1, <1>2, HeardAppend
<1> QED BY <1>2, <1>3 DEF NoGhostKeys

LEMMA LastType == ASSUME NEW h \in Seq(Nat) PROVE LastOf(h) \in Nat
<1>1. CASE h = <<>>
  BY <1>1 DEF LastOf
<1>2. CASE h # <<>>
  <2>1. Len(h) \in 1 .. Len(h)
    BY <1>2, EmptySeq, LenProperties
  <2> QED BY <1>2, <2>1, ElementOfSeq DEF LastOf
<1> QED BY <1>1, <1>2

\* Rfc2833Sender: the packets of a press are of its key.
LEMMA SymbolPackets ==
  ASSUME NEW key \in Symbols, NEW n \in Nat
  PROVE  /\ EncodeSymbol(key, n) \in Seq(RfcPackets)
         /\ \A k \in 1 .. Len(EncodeSymbol(key, n)) :
              EncodeSymbol(key, n)[k].key = key /\ EncodeSymbol(key, n)[k].press = n
<1> DEFINE e(k) == [key |-> key, end |-> k = TonePackets + 1, press |-> n]
           f == [k \in 1 .. TonePackets + 1 |-> e(k)]
<1>1. \A k \in 1 .. TonePackets + 1 : e(k) \in RfcPackets /\ e(k).key = key /\ e(k).press = n
  BY DEF RfcPackets
<1>2. TonePackets + 1 \in Nat
  BY CarrierAssumption
<1>3. EncodeSymbol(key, n) = f
  BY DEF EncodeSymbol
<1> HIDE DEF e
<1>4. f \in Seq(RfcPackets) /\ Len(f) = TonePackets + 1 /\ \A k \in 1 .. TonePackets + 1 : f[k] = e(k)
  BY <1>1, <1>2, IsASeq
<1> QED BY <1>1, <1>3, <1>4

LEMMA PressKeeps ==
  ASSUME KeyInv, NEW key \in Symbols, Press(key)
  PROVE  KeyInv'
<1> DEFINE e == EncodeSymbol(key, Len(pressed) + 1)
<1>1. /\ pressed \in Seq(Symbols) /\ packets \in Seq(RfcPackets) /\ keypad = "rfc2833" /\ RfcInv
      /\ heard \in Seq(Nat) /\ LastOf(heard) <= Len(pressed)
      /\ pressed' = Append(pressed, key) /\ packets' = packets \o e
      /\ UNCHANGED <<keypad, receiver, heard>>
  BY DEF KeyInv, RfcInv, Press
<1>2. /\ pressed' \in Seq(Symbols) /\ Len(pressed) \in Nat /\ Len(pressed') = Len(pressed) + 1
      /\ \A k \in 1 .. Len(pressed) : pressed'[k] = pressed[k]
      /\ pressed'[Len(pressed) + 1] = key
  BY <1>1, AppendProperties, LenProperties
<1>3. e \in Seq(RfcPackets) /\ \A k \in 1 .. Len(e) : e[k].key = key /\ e[k].press = Len(pressed) + 1
  BY <1>2, SymbolPackets
<1> HIDE DEF e
<1>4. /\ packets' \in Seq(RfcPackets) /\ Len(packets) \in Nat
      /\ \A k \in 1 .. Len(packets') :
           \/ k \in 1 .. Len(packets) /\ packets'[k] = packets[k]
           \/ k > Len(packets) /\ packets'[k].key = key /\ packets'[k].press = Len(pressed) + 1
  BY <1>1, <1>3, ConcatAt
<1>5. LastOf(heard) \in Nat /\ LastOf(heard') <= Len(pressed')
  BY <1>1, <1>2, LastType
<1>6. OfKeys(packets', pressed')
  <2> SUFFICES ASSUME NEW k \in 1 .. Len(packets')
               PROVE  packets'[k].press \in 1 .. Len(pressed') /\ packets'[k].key = pressed'[packets'[k].press]
    BY DEF OfKeys
  <2>1. CASE k \in 1 .. Len(packets) /\ packets'[k] = packets[k]
    <3>1. packets[k].press \in 1 .. Len(pressed) /\ packets[k].key = pressed[packets[k].press]
      BY <1>1, <2>1 DEF RfcInv, OfKeys
    <3> QED BY <1>2, <2>1, <3>1
  <2>2. CASE packets'[k].key = key /\ packets'[k].press = Len(pressed) + 1
    BY <1>2, <2>2
  <2> QED BY <1>4, <2>1, <2>2
<1>7. RfcOrder(packets')
  <2> SUFFICES ASSUME NEW j \in 1 .. Len(packets'), NEW k \in 1 .. Len(packets'), j < k
               PROVE  packets'[j].press <= packets'[k].press
    BY DEF RfcOrder
  <2>1. packets'[j].press \in 1 .. Len(pressed) + 1
    BY <1>2, <1>6 DEF OfKeys
  <2>2. CASE packets'[k].press = Len(pressed) + 1
    BY <1>2, <2>1, <2>2
  <2>3. CASE k \in 1 .. Len(packets) /\ packets'[k] = packets[k]
    <3>1. j \in 1 .. Len(packets) /\ packets'[j] = packets[j]
      BY <1>4, <2>3
    <3> QED BY <1>1, <2>3, <3>1 DEF RfcInv, RfcOrder
  <2> QED BY <1>4, <2>2, <2>3
<1>8. RfcNew(packets', LastOf(heard'), receiver')
  BY <1>1, <1>2, <1>4, <1>5 DEF RfcInv, RfcNew
<1>9. RfcInv'
  BY <1>1, <1>4, <1>6, <1>7, <1>8 DEF RfcInv
<1>10. NoGhostKeys'
  BY <1>1 DEF KeyInv, NoGhostKeys
<1> QED BY <1>1, <1>2, <1>5, <1>9, <1>10 DEF KeyInv

\* The network takes the first packet, or gives it twice.
LEMMA LosesKeeps ==
  ASSUME KeyInv, Loses
  PROVE  KeyInv'
<1>1. /\ packets \in Seq(RfcPackets) /\ keypad = "rfc2833" /\ RfcInv /\ packets # <<>> /\ packets' = Tail(packets)
      /\ UNCHANGED <<keypad, receiver, heard, pressed>>
  BY DEF KeyInv, RfcInv, Loses
<1>2. /\ packets' \in Seq(RfcPackets)
      /\ \A k \in 1 .. Len(packets') : k + 1 \in 1 .. Len(packets) /\ packets'[k] = packets[k + 1]
  BY <1>1, TailAt
<1>3. OfKeys(packets', pressed') /\ RfcNew(packets', LastOf(heard'), receiver')
  BY <1>1, <1>2 DEF RfcInv, OfKeys, RfcNew
<1>4. RfcOrder(packets')
  BY <1>1, <1>2 DEF RfcInv, RfcOrder
<1>5. RfcInv'
  BY <1>1, <1>2, <1>3, <1>4 DEF RfcInv
<1>6. NoGhostKeys'
  BY <1>1 DEF KeyInv, NoGhostKeys
<1> QED BY <1>1, <1>5, <1>6 DEF KeyInv

LEMMA RepeatsKeeps ==
  ASSUME KeyInv, Repeats
  PROVE  KeyInv'
<1> DEFINE h == <<Head(packets)>>
<1>1. /\ packets \in Seq(RfcPackets) /\ keypad = "rfc2833" /\ RfcInv /\ packets # <<>> /\ packets' = h \o packets
      /\ UNCHANGED <<keypad, receiver, heard, pressed>>
  BY DEF KeyInv, RfcInv, Repeats
<1>2. Head(packets) \in RfcPackets /\ Head(packets) = packets[1] /\ 1 \in 1 .. Len(packets) /\ Len(packets) \in Nat
  BY <1>1, TailAt
<1>3. h \in Seq(RfcPackets) /\ Len(h) = 1 /\ h[1] = packets[1]
  BY <1>2
<1> HIDE DEF h
<1>4. /\ packets' \in Seq(RfcPackets)
      /\ \A k \in 1 .. Len(packets') :
           \/ k \in 1 .. Len(h) /\ packets'[k] = h[k]
           \/ k > Len(h) /\ k - Len(h) \in 1 .. Len(packets) /\ packets'[k] = packets[k - Len(h)]
  BY <1>1, <1>3, ConcatAt, ZenonT(60)
<1>5. \A k \in 1 .. Len(packets') :
        \/ k = 1 /\ packets'[k] = packets[1]
        \/ k > 1 /\ k - 1 \in 1 .. Len(packets) /\ packets'[k] = packets[k - 1]
  BY <1>3, <1>4
<1>6. \A k \in 1 .. Len(packets') : \E i \in 1 .. Len(packets) : packets'[k] = packets[i]
  BY <1>2, <1>5
<1>10. OfKeys(packets', pressed')
  BY <1>1, <1>6 DEF RfcInv, OfKeys
<1>11. RfcNew(packets', LastOf(heard'), receiver')
  BY <1>1, <1>6 DEF RfcInv, RfcNew
<1>7. RfcOrder(packets')
  <2> SUFFICES ASSUME NEW j \in 1 .. Len(packets'), NEW k \in 1 .. Len(packets'), j < k
               PROVE  packets'[j].press <= packets'[k].press
    BY DEF RfcOrder
  <2>1. k - 1 \in 1 .. Len(packets) /\ packets'[k] = packets[k - 1]
    BY <1>5
  <2>2. PICK i \in 1 .. Len(packets) : packets'[j] = packets[i] /\ (i = k - 1 \/ i < k - 1)
    <3>1. CASE j = 1 /\ packets'[j] = packets[1]
      BY <1>2, <2>1, <3>1
    <3>2. CASE j > 1 /\ j - 1 \in 1 .. Len(packets) /\ packets'[j] = packets[j - 1]
      BY <2>1, <3>2
    <3> QED BY <1>5, <3>1, <3>2
  <2>3. packets[i].press \in Nat /\ packets[k - 1].press \in Nat
    <3>1. packets[i] \in RfcPackets /\ packets[k - 1] \in RfcPackets
      BY <1>1, <2>1, <2>2, ElementOfSeq
    <3> QED BY <3>1 DEF RfcPackets
  <2>4. packets[i].press <= packets[k - 1].press
    <3>1. RfcOrder(packets)
      BY <1>1 DEF RfcInv
    <3>2. CASE i = k - 1
      BY <2>3, <3>2
    <3>3. CASE i < k - 1
      BY <2>1, <3>1, <3>3 DEF RfcOrder
    <3> QED BY <2>2, <3>2, <3>3
  <2> QED BY <2>1, <2>2, <2>4
<1>8. RfcInv'
  BY <1>1, <1>4, <1>7, <1>10, <1>11 DEF RfcInv
<1>9. NoGhostKeys'
  BY <1>1 DEF KeyInv, NoGhostKeys
<1> QED BY <1>1, <1>8, <1>9 DEF KeyInv
\* on_payload: the end of a press fires once, by the receiver's key and flag.
LEMMA HearsPayloadKeeps ==
  ASSUME KeyInv, keypad = "rfc2833", Hears
  PROVE  KeyInv'
<1> DEFINE p == Head(packets)
           last == LastOf(heard)
           s == IF receiver.active = p.key THEN receiver ELSE [active |-> p.key, fired |-> FALSE]
           fires == p.end /\ ~ s.fired
<1>1. /\ packets \in Seq(RfcPackets) /\ receiver \in RfcReceivers /\ RfcInv /\ packets # <<>>
      /\ packets' = Tail(packets) /\ UNCHANGED <<keypad, pressed>>
      /\ heard \in Seq(Nat) /\ last <= Len(pressed) /\ pressed \in Seq(Symbols)
  BY DEF KeyInv, RfcInv, Hears
<1>2. receiver' = [s EXCEPT !.fired = @ \/ p.end] /\ heard' = IF fires THEN Append(heard, p.press) ELSE heard
  BY DEF Hears, OnPayload
<1>3. /\ packets' \in Seq(RfcPackets) /\ p \in RfcPackets /\ p = packets[1] /\ 1 \in 1 .. Len(packets)
      /\ \A k \in 1 .. Len(packets') : k + 1 \in 1 .. Len(packets) /\ packets'[k] = packets[k + 1]
  BY <1>1, TailAt
<1>4. p.key \in Symbols /\ p.press \in Nat /\ p.end \in BOOLEAN
  BY <1>3 DEF RfcPackets
<1>5. s \in RfcReceivers /\ s.active = p.key
  BY <1>1, <1>4 DEF RfcReceivers
<1>6. /\ receiver' \in RfcReceivers /\ receiver'.active = p.key
      /\ receiver'.fired <=> s.fired \/ p.end
  <2> HIDE DEF s, p
  <2> QED BY <1>2, <1>4, <1>5 DEF RfcReceivers
<1>7. OfKeys(packets, pressed) /\ RfcOrder(packets) /\ RfcNew(packets, last, receiver)
  BY <1>1 DEF RfcInv
<1>8. /\ p.press \in 1 .. Len(pressed) /\ p.key = pressed[p.press]
      /\ p.press > last \/ (p.press = last /\ p.key = receiver.active /\ receiver.fired)
  BY <1>3, <1>7 DEF OfKeys, RfcNew
<1>9. last \in Nat
  BY <1>1, LastType
<1>10. ASSUME NEW k \in 1 .. Len(packets')
       PROVE  /\ packets'[k].press \in 1 .. Len(pressed) /\ packets'[k].key = pressed[packets'[k].press]
              /\ p.press <= packets'[k].press
              /\ \/ packets'[k].press > last
                 \/ packets'[k].press = last /\ packets'[k].key = receiver.active /\ receiver.fired
  <2>1. k + 1 \in 1 .. Len(packets) /\ packets'[k] = packets[k + 1] /\ 1 < k + 1
    BY <1>3
  <2>2. packets[k + 1].press \in 1 .. Len(pressed) /\ packets[k + 1].key = pressed[packets[k + 1].press]
    BY <1>7, <2>1 DEF OfKeys
  <2>3. packets[1].press <= packets[k + 1].press
    BY <1>3, <1>7, <2>1 DEF RfcOrder
  <2>4. \/ packets[k + 1].press > last
        \/ packets[k + 1].press = last /\ packets[k + 1].key = receiver.active /\ receiver.fired
    BY <1>7, <2>1 DEF RfcNew
  <2> QED BY <1>3, <2>1, <2>2, <2>3, <2>4
<1> HIDE DEF p, last, s
<1>11. OfKeys(packets', pressed')
  BY <1>1, <1>10 DEF OfKeys
<1>12. RfcOrder(packets')
  <2> SUFFICES ASSUME NEW j \in 1 .. Len(packets'), NEW k \in 1 .. Len(packets'), j < k
               PROVE  packets'[j].press <= packets'[k].press
    BY DEF RfcOrder
  <2>1. j + 1 \in 1 .. Len(packets) /\ k + 1 \in 1 .. Len(packets) /\ j + 1 < k + 1
    BY <1>3
  <2> QED BY <1>3, <1>7, <2>1 DEF RfcOrder
<1>13. CASE fires
  <2>1. heard' = Append(heard, p.press) /\ p.end /\ ~ s.fired
    BY <1>2, <1>13
  <2>2. p.press > last
    BY <1>8, <2>1 DEF s
  <2>3. p.press <= Len(pressed)
    BY <1>8
  <2>4. heard' \in Seq(Nat) /\ LastOf(heard') = p.press /\ NoGhostKeys' /\ LastOf(heard') <= Len(pressed')
    BY <1>1, <1>4, <2>1, <2>2, <2>3, HeardGrows DEF last
  <2>5. RfcNew(packets', LastOf(heard'), receiver')
    <3> SUFFICES ASSUME NEW k \in 1 .. Len(packets')
                 PROVE  \/ packets'[k].press > p.press
                        \/ packets'[k].press = p.press /\ packets'[k].key = receiver'.active /\ receiver'.fired
      BY <2>4 DEF RfcNew
    <3>1. packets'[k].press \in Nat /\ p.press <= packets'[k].press
      BY <1>10
    <3>2. packets'[k].press = p.press => packets'[k].key = p.key
      BY <1>8, <1>10
    <3> QED BY <1>4, <1>6, <2>1, <3>1, <3>2
  <2>6. RfcInv'
    BY <1>3, <1>6, <1>11, <1>12, <2>5 DEF RfcInv
  <2> QED BY <1>1, <2>4, <2>6 DEF KeyInv
<1>14. CASE ~ fires
  <2>1. heard' = heard /\ LastOf(heard') = last
    BY <1>2, <1>14 DEF last
  <2>2. RfcNew(packets', LastOf(heard'), receiver')
    <3> SUFFICES ASSUME NEW k \in 1 .. Len(packets')
                 PROVE  \/ packets'[k].press > last
                        \/ packets'[k].press = last /\ packets'[k].key = receiver'.active /\ receiver'.fired
      BY <2>1 DEF RfcNew
    <3>1. packets'[k].press \in Nat /\ p.press <= packets'[k].press
      BY <1>10
    <3>2. CASE p.press > last
      BY <1>4, <1>9, <3>1, <3>2
    <3>3. CASE p.press = last /\ p.key = receiver.active /\ receiver.fired
      <4>1. s.fired /\ receiver'.active = receiver.active /\ receiver'.fired
        BY <1>6, <3>3 DEF s
      <4> QED BY <1>10, <4>1
    <3> QED BY <1>8, <3>2, <3>3
  <2>3. RfcInv'
    BY <1>3, <1>6, <1>11, <1>12, <2>2 DEF RfcInv
  <2>4. NoGhostKeys'
    BY <2>1 DEF KeyInv, NoGhostKeys
  <2> QED BY <1>1, <2>1, <2>3, <2>4 DEF KeyInv, last
<1> QED BY <1>13, <1>14

\* on_audio: a tone fires when the block before it did not hold it.
LEMMA HearsAudioKeeps ==
  ASSUME KeyInv, keypad = "inband", Hears
  PROVE  KeyInv'
<1> DEFINE p == Head(packets)
           last == LastOf(heard)
           found == Detect(p)
           fires == found # {} /\ found # receiver.held
<1>1. /\ packets \in Seq(Bands) /\ receiver \in [held : SUBSET Symbols] /\ BandInv /\ packets # <<>>
      /\ packets' = Tail(packets) /\ UNCHANGED <<keypad, pressed>>
      /\ heard \in Seq(Nat) /\ last <= Len(pressed) /\ pressed \in Seq(Symbols)
  BY DEF KeyInv, BandInv, Hears
<1>2. receiver' = [held |-> found] /\ heard' = IF fires THEN Append(heard, p.press) ELSE heard
  BY DEF Hears, OnAudio
<1>3. /\ packets' \in Seq(Bands) /\ p \in Bands /\ p = packets[1] /\ 1 \in 1 .. Len(packets)
      /\ \A k \in 1 .. Len(packets') : k + 1 \in 1 .. Len(packets) /\ packets'[k] = packets[k + 1]
  BY <1>1, TailAt
<1>4. p.press \in Nat /\ \A k \in 1 .. Len(packets') : packets'[k].press \in Nat
  <2>1. \A k \in 1 .. Len(packets') : packets'[k] \in Bands
    BY <1>3, ElementOfSeq
  <2> QED BY <1>3, <2>1 DEF Bands
<1>5. found \in SUBSET Symbols
  BY DEF Detect
<1>6. receiver' \in [held : SUBSET Symbols] /\ receiver'.held = found
  <2> HIDE DEF found
  <2> QED BY <1>2, <1>5
<1>7. /\ BandsPressed(packets, Len(pressed)) /\ GapsQuiet(packets) /\ BandOrder(packets)
      /\ BandNew(packets, last, receiver.held)
  BY <1>1 DEF BandInv
<1>8. /\ p.press <= Len(pressed)
      /\ p.press = 0 => found = {}
      /\ p.press # 0 => p.press > last \/ (p.press = last /\ found = receiver.held)
  BY <1>3, <1>7 DEF BandsPressed, GapsQuiet, BandNew
<1>9. last \in Nat
  BY <1>1, LastType
<1>10. ASSUME NEW k \in 1 .. Len(packets'), packets'[k].press # 0, p.press # 0
       PROVE  /\ p.press <= packets'[k].press
              /\ p.press = packets'[k].press => found = Detect(packets'[k])
              /\ p.press = packets'[k].press => \A i \in 1 .. k : packets'[i].press # 0
  <2>1. k + 1 \in 1 .. Len(packets) /\ packets'[k] = packets[k + 1] /\ 1 < k + 1
    BY <1>3
  <2>2. /\ packets[1].press <= packets[k + 1].press
        /\ packets[1].press = packets[k + 1].press => Detect(packets[1]) = Detect(packets[k + 1])
        /\ packets[1].press = packets[k + 1].press => \A i \in 1 .. k + 1 : packets[i].press # 0
    BY <1>3, <1>7, <1>10, <2>1 DEF BandOrder
  <2>3. \A i \in 1 .. k : i + 1 \in 1 .. k + 1 /\ packets'[i] = packets[i + 1]
    BY <1>3
  <2>4. p.press = packets'[k].press => \A i \in 1 .. k : packets'[i].press # 0
    BY <1>3, <2>1, <2>2, <2>3
  <2> QED BY <1>3, <2>1, <2>2, <2>4
<1>11. ASSUME NEW k \in 1 .. Len(packets'), packets'[k].press # 0
       PROVE  \/ packets'[k].press > last
              \/ /\ packets'[k].press = last /\ Detect(packets'[k]) = receiver.held
                 /\ p.press # 0 /\ \A i \in 1 .. k : packets'[i].press # 0
  <2>1. k + 1 \in 1 .. Len(packets) /\ packets'[k] = packets[k + 1]
    BY <1>3
  <2>2. \/ packets[k + 1].press > last
        \/ /\ packets[k + 1].press = last /\ Detect(packets[k + 1]) = receiver.held
           /\ \A i \in 1 .. k + 1 : packets[i].press # 0
    BY <1>7, <1>11, <2>1 DEF BandNew
  <2>3. 1 \in 1 .. k + 1 /\ \A i \in 1 .. k : i + 1 \in 1 .. k + 1 /\ packets'[i] = packets[i + 1]
    BY <1>3
  <2>4. (\A i \in 1 .. k + 1 : packets[i].press # 0) => p.press # 0 /\ \A i \in 1 .. k : packets'[i].press # 0
    BY <1>3, <2>3
  <2> QED BY <2>1, <2>2, <2>4
<1> HIDE DEF p, last, found
<1>12. BandsPressed(packets', Len(pressed')) /\ GapsQuiet(packets')
  BY <1>1, <1>3, <1>7 DEF BandsPressed, GapsQuiet
<1>13. BandOrder(packets')
  <2> SUFFICES ASSUME NEW j \in 1 .. Len(packets'), NEW k \in 1 .. Len(packets'), j < k,
                      packets'[j].press # 0, packets'[k].press # 0
               PROVE  /\ packets'[j].press <= packets'[k].press
                      /\ packets'[j].press = packets'[k].press => Detect(packets'[j]) = Detect(packets'[k])
                      /\ packets'[j].press = packets'[k].press => \A i \in j .. k : packets'[i].press # 0
    BY DEF BandOrder
  <2>1. /\ j + 1 \in 1 .. Len(packets) /\ k + 1 \in 1 .. Len(packets) /\ j + 1 < k + 1
        /\ packets'[j] = packets[j + 1] /\ packets'[k] = packets[k + 1]
    BY <1>3
  <2>2. /\ packets[j + 1].press <= packets[k + 1].press
        /\ packets[j + 1].press = packets[k + 1].press => Detect(packets[j + 1]) = Detect(packets[k + 1])
        /\ packets[j + 1].press = packets[k + 1].press => \A i \in j + 1 .. k + 1 : packets[i].press # 0
    BY <1>7, <2>1 DEF BandOrder
  <2>3. \A i \in j .. k : i + 1 \in j + 1 .. k + 1 /\ packets'[i] = packets[i + 1]
    <3> TAKE i \in j .. k
    <3>1. i \in 1 .. Len(packets') /\ i + 1 \in j + 1 .. k + 1
      OBVIOUS
    <3> QED BY <1>3, <3>1
  <2>4. packets'[j].press = packets'[k].press => \A i \in j .. k : packets'[i].press # 0
    BY <2>1, <2>2, <2>3
  <2> QED BY <2>1, <2>2, <2>4
<1>14. CASE fires
  <2>1. heard' = Append(heard, p.press) /\ found # {} /\ found # receiver.held
    BY <1>2, <1>14
  <2>2. p.press # 0 /\ p.press > last
    BY <1>8, <2>1
  <2>4. heard' \in Seq(Nat) /\ LastOf(heard') = p.press /\ NoGhostKeys' /\ LastOf(heard') <= Len(pressed')
    BY <1>1, <1>4, <1>8, <2>1, <2>2, HeardGrows DEF last
  <2>5. BandNew(packets', LastOf(heard'), receiver'.held)
    <3> SUFFICES ASSUME NEW k \in 1 .. Len(packets'), packets'[k].press # 0
                 PROVE  \/ packets'[k].press > p.press
                        \/ /\ packets'[k].press = p.press /\ Detect(packets'[k]) = found
                           /\ \A i \in 1 .. k : packets'[i].press # 0
      BY <1>6, <2>4 DEF BandNew
    <3> QED BY <1>4, <1>10, <2>2
  <2>6. BandInv'
    BY <1>3, <1>6, <1>12, <1>13, <2>5 DEF BandInv
  <2> QED BY <1>1, <2>4, <2>6 DEF KeyInv
<1>15. CASE ~ fires
  <2>1. heard' = heard /\ LastOf(heard') = last
    BY <1>2, <1>15 DEF last
  <2>2. BandNew(packets', LastOf(heard'), receiver'.held)
    <3> SUFFICES ASSUME NEW k \in 1 .. Len(packets'), packets'[k].press # 0
                 PROVE  \/ packets'[k].press > last
                        \/ /\ packets'[k].press = last /\ Detect(packets'[k]) = found
                           /\ \A i \in 1 .. k : packets'[i].press # 0
      BY <1>6, <2>1 DEF BandNew
    <3>1. CASE p.press = 0
      BY <1>11, <3>1
    <3>2. CASE p.press # 0 /\ p.press > last
      BY <1>4, <1>9, <1>10, <3>2
    <3>3. CASE p.press # 0 /\ p.press = last /\ found = receiver.held
      BY <1>11, <3>3
    <3> QED BY <1>8, <3>1, <3>2, <3>3
  <2>3. BandInv'
    BY <1>3, <1>6, <1>12, <1>13, <2>2 DEF BandInv
  <2>4. NoGhostKeys'
    BY <2>1 DEF KeyInv, NoGhostKeys
  <2> QED BY <1>1, <2>1, <2>3, <2>4 DEF KeyInv, last
<1> QED BY <1>14, <1>15
\* detect finds nothing in silence, and nothing in a voice whose second tone is too strong.
Silence == Tone(1, 0)
Voice == <<4, 3, 0, 0>>

LEMMA SilenceQuiet ==
  Silence \in [1 .. 4 -> Nat] /\ Detect([low |-> Silence, high |-> Silence, press |-> 0]) = {}
<1> DEFINE e == Silence
           b == [low |-> e, high |-> e, press |-> 0]
<1>1. e \in [1 .. 4 -> Nat] /\ \A j \in 1 .. 4 : e[j] = 0
  BY DEF Silence, Tone
<1> HIDE DEF e
<1>2. Peak(e) \in 1 .. 4
  <2>1. 1 \in 1 .. 4 /\ (\A i \in 1 .. 4 : e[i] <= e[1]) /\ (\A i \in 1 .. 1 - 1 : e[i] < e[1])
    BY <1>1
  <2>2. \E j \in 1 .. 4 : (\A i \in 1 .. 4 : e[i] <= e[j]) /\ (\A i \in 1 .. j - 1 : e[i] < e[j])
    BY <2>1
  <2> QED BY <2>2 DEF Peak
<1>3. b.low = e
  OBVIOUS
<1>4. ~ (b.low[Peak(b.low)] >= Floor)
  BY <1>1, <1>2, <1>3 DEF Floor
<1> HIDE DEF b
<1>5. Detect(b) = {}
  BY <1>4 DEF Detect
<1> QED BY <1>1, <1>5 DEF b, e

LEMMA VoiceQuiet ==
  Voice \in [1 .. 4 -> Nat] /\ Detect([low |-> Voice, high |-> Voice, press |-> 0]) = {}
<1> DEFINE e == Voice
           b == [low |-> e, high |-> e, press |-> 0]
<1>1. e \in [1 .. 4 -> Nat] /\ e[1] = 4 /\ e[2] = 3 /\ e[3] = 0 /\ e[4] = 0
  BY DEF Voice
<1> HIDE DEF e
<1>2. Peak(e) = 1
  <2>1. 1 \in 1 .. 4 /\ (\A i \in 1 .. 4 : e[i] <= e[1]) /\ (\A i \in 1 .. 1 - 1 : e[i] < e[1])
    BY <1>1
  <2>2. \A j \in 1 .. 4 : (\A i \in 1 .. 4 : e[i] <= e[j]) /\ (\A i \in 1 .. j - 1 : e[i] < e[j]) => j = 1
    BY <1>1
  <2> QED BY <2>1, <2>2 DEF Peak
<1>3. Second(e, 1) = 3
  <2> DEFINE V == {e[i] : i \in (1 .. 4) \ {1}}
  <2>1. \A m \in V : (\A i \in (1 .. 4) \ {1} : e[i] <= m) => m = 3
    BY <1>1
  <2>2. 2 \in (1 .. 4) \ {1} /\ e[2] = 3
    BY <1>1
  <2>3. 3 \in V
    BY <2>2
  <2>4. \A i \in (1 .. 4) \ {1} : e[i] <= 3
    BY <1>1
  <2> HIDE DEF V
  <2>5. (CHOOSE m \in V : \A i \in (1 .. 4) \ {1} : e[i] <= m) = 3
    BY <2>1, <2>3, <2>4
  <2> QED BY <2>5 DEF Second, V
<1>4. b.low = e
  OBVIOUS
<1>5. ~ (2 * Second(b.low, Peak(b.low)) <= b.low[Peak(b.low)])
  BY <1>1, <1>2, <1>3, <1>4
<1> HIDE DEF b
<1>6. Detect(b) = {}
  BY <1>5 DEF Detect
<1> QED BY <1>1, <1>6 DEF b, e

\* The blocks of a press are alike, and later than all before them.
LEMMA BlocksFollow ==
  ASSUME NEW ps \in Seq(Bands), NEW bs \in Seq(Bands), NEW n \in Nat, NEW d, NEW last \in Nat, NEW tones,
         BandsPressed(ps, n), GapsQuiet(ps), BandOrder(ps), BandNew(ps, last, tones), last <= n,
         \A k \in 1 .. Len(bs) : bs[k].press = n + 1 /\ Detect(bs[k]) = d
  PROVE  LET qs == ps \o bs IN
         BandsPressed(qs, n + 1) /\ GapsQuiet(qs) /\ BandOrder(qs) /\ BandNew(qs, last, tones)
<1> DEFINE qs == ps \o bs
<1>1. /\ qs \in Seq(Bands) /\ Len(ps) \in Nat /\ Len(qs) \in Nat
      /\ \A k \in 1 .. Len(qs) :
           \/ k \in 1 .. Len(ps) /\ qs[k] = ps[k]
           \/ k > Len(ps) /\ qs[k].press = n + 1 /\ Detect(qs[k]) = d
  <2>1. /\ qs \in Seq(Bands) /\ Len(ps) \in Nat /\ Len(bs) \in Nat /\ Len(qs) = Len(ps) + Len(bs)
        /\ \A k \in 1 .. Len(qs) :
             \/ k \in 1 .. Len(ps) /\ qs[k] = ps[k]
             \/ k > Len(ps) /\ k - Len(ps) \in 1 .. Len(bs) /\ qs[k] = bs[k - Len(ps)]
    BY ConcatAt
  <2> HIDE DEF qs
  <2>2. ASSUME NEW k \in 1 .. Len(qs)
        PROVE  \/ k \in 1 .. Len(ps) /\ qs[k] = ps[k]
               \/ k > Len(ps) /\ qs[k].press = n + 1 /\ Detect(qs[k]) = d
    BY <2>1
  <2>3. Len(qs) \in Nat
    BY <2>1
  <2> QED BY <2>1, <2>2, <2>3
<1> HIDE DEF qs
<1>2. \A k \in 1 .. Len(ps) : ps[k].press \in Nat
  <2>1. \A k \in 1 .. Len(ps) : ps[k] \in Bands
    BY ElementOfSeq
  <2> QED BY <2>1 DEF Bands
<1>3. BandsPressed(qs, n + 1)
  BY <1>1, <1>2 DEF BandsPressed
<1>4. GapsQuiet(qs)
  <2>1. n + 1 # 0
    OBVIOUS
  <2> QED BY <1>1, <2>1 DEF GapsQuiet
<1>6. BandOrder(qs)
  <2> SUFFICES ASSUME NEW j \in 1 .. Len(qs), NEW k \in 1 .. Len(qs), j < k, qs[j].press # 0, qs[k].press # 0
               PROVE  /\ qs[j].press <= qs[k].press
                      /\ qs[j].press = qs[k].press => Detect(qs[j]) = Detect(qs[k])
                      /\ qs[j].press = qs[k].press => \A i \in j .. k : qs[i].press # 0
    BY DEF BandOrder
  <2>1. CASE k \in 1 .. Len(ps)
    <3>1. j \in 1 .. Len(ps) /\ qs[k] = ps[k] /\ \A i \in j .. k : qs[i] = ps[i]
      BY <1>1, <2>1, SMTT(40)
    <3>2. qs[j] = ps[j]
      BY <3>1
    <3> QED BY <2>1, <3>1, <3>2 DEF BandOrder
  <2>2. CASE k > Len(ps)
    <3>1. qs[k].press = n + 1 /\ Detect(qs[k]) = d
      BY <1>1, <2>2
    <3>2. CASE j \in 1 .. Len(ps)
      <4>1. qs[j] = ps[j] /\ ps[j].press <= n /\ ps[j].press \in Nat
        BY <1>1, <1>2, <3>2 DEF BandsPressed
      <4> QED BY <3>1, <4>1
    <3>3. CASE j > Len(ps)
      <4>1. \A i \in j .. k : qs[i].press = n + 1 /\ Detect(qs[i]) = d
        <5> TAKE i \in j .. k
        <5>1. i \in 1 .. Len(qs) /\ i > Len(ps) /\ i \notin 1 .. Len(ps)
          BY <1>1, <3>3
        <5> QED BY <1>1, <5>1
      <4>2. qs[j].press = n + 1 /\ Detect(qs[j]) = d
        BY <4>1
      <4> QED BY <3>1, <4>1, <4>2
    <3> QED BY <1>1, <3>2, <3>3
  <2> QED BY <1>1, <2>1, <2>2
<1>7. BandNew(qs, last, tones)
  <2> SUFFICES ASSUME NEW k \in 1 .. Len(qs), qs[k].press # 0
               PROVE  \/ qs[k].press > last
                      \/ qs[k].press = last /\ Detect(qs[k]) = tones /\ \A i \in 1 .. k : qs[i].press # 0
    BY DEF BandNew
  <2>1. CASE k \in 1 .. Len(ps)
    <3>1. qs[k] = ps[k] /\ \A i \in 1 .. k : qs[i] = ps[i]
      BY <1>1, <2>1
    <3> QED BY <2>1, <3>1 DEF BandNew
  <2>2. CASE k > Len(ps)
    BY <1>1, <2>2
  <2> QED BY <1>1, <2>1, <2>2
<1> QED BY <1>3, <1>4, <1>6, <1>7 DEF qs

\* Behind them comes the gap.
LEMMA GapFollows ==
  ASSUME NEW ps \in Seq(Bands), NEW g \in Bands, NEW n \in Nat, NEW last \in Nat, NEW tones,
         BandsPressed(ps, n), GapsQuiet(ps), BandOrder(ps), BandNew(ps, last, tones),
         g.press = 0, Detect(g) = {}
  PROVE  LET qs == Append(ps, g) IN
         BandsPressed(qs, n) /\ GapsQuiet(qs) /\ BandOrder(qs) /\ BandNew(qs, last, tones)
<1> DEFINE qs == Append(ps, g)
<1>1. /\ qs \in Seq(Bands) /\ Len(ps) \in Nat /\ Len(qs) = Len(ps) + 1
      /\ \A k \in 1 .. Len(qs) : (k \in 1 .. Len(ps) /\ qs[k] = ps[k]) \/ (k = Len(ps) + 1 /\ qs[k] = g)
  BY AppendAt
<1> HIDE DEF qs
<1>2. BandsPressed(qs, n) /\ GapsQuiet(qs)
  <2>1. g.press <= n
    OBVIOUS
  <2>2. BandsPressed(qs, n)
    BY <1>1, <2>1 DEF BandsPressed
  <2>3. GapsQuiet(qs)
    BY <1>1 DEF GapsQuiet
  <2> QED BY <2>2, <2>3
<1>3. ASSUME NEW k \in 1 .. Len(qs), qs[k].press # 0
      PROVE  k \in 1 .. Len(ps) /\ \A i \in 1 .. k : i \in 1 .. Len(ps) /\ qs[i] = ps[i]
  BY <1>1, <1>3
<1>4. BandOrder(qs)
  <2> SUFFICES ASSUME NEW j \in 1 .. Len(qs), NEW k \in 1 .. Len(qs), j < k, qs[j].press # 0, qs[k].press # 0
               PROVE  /\ qs[j].press <= qs[k].press
                      /\ qs[j].press = qs[k].press => Detect(qs[j]) = Detect(qs[k])
                      /\ qs[j].press = qs[k].press => \A i \in j .. k : qs[i].press # 0
    BY DEF BandOrder
  <2>1. /\ j \in 1 .. Len(ps) /\ k \in 1 .. Len(ps) /\ qs[j] = ps[j] /\ qs[k] = ps[k]
        /\ \A i \in j .. k : qs[i] = ps[i]
    BY <1>3
  <2> QED BY <2>1 DEF BandOrder
<1>5. BandNew(qs, last, tones)
  <2> SUFFICES ASSUME NEW k \in 1 .. Len(qs), qs[k].press # 0
               PROVE  \/ qs[k].press > last
                      \/ qs[k].press = last /\ Detect(qs[k]) = tones /\ \A i \in 1 .. k : qs[i].press # 0
    BY DEF BandNew
  <2>1. k \in 1 .. Len(ps) /\ qs[k] = ps[k] /\ \A i \in 1 .. k : qs[i] = ps[i]
    BY <1>3, SMTT(40)
  <2> QED BY <2>1 DEF BandNew
<1> QED BY <1>2, <1>4, <1>5 DEF qs

LEMMA ToneType == ASSUME NEW k \in Nat, NEW loud \in Nat PROVE Tone(k, loud) \in [1 .. 4 -> Nat]
BY DEF Tone

LEMMA PressInbandKeeps ==
  ASSUME KeyInv, NEW key \in Symbols, NEW blocks \in 1 .. 2, NEW loud \in {3, 4, 30},
         NEW gap \in {Silence, Voice}, PressInband(key, blocks, loud, gap)
  PROVE  KeyInv'
<1> DEFINE n == Len(pressed)
           low == Tone(Row(key), loud)
           high == Tone(Column(key), 4)
           b == [low |-> low, high |-> high, press |-> n + 1]
           bs == [k \in 1 .. blocks |-> b]
           g == [low |-> gap, high |-> gap, press |-> 0]
           qs == packets \o bs
<1>1. /\ keypad = "inband" /\ BandInv /\ packets \in Seq(Bands) /\ pressed \in Seq(Symbols)
      /\ heard \in Seq(Nat) /\ LastOf(heard) <= n
      /\ pressed' = Append(pressed, key) /\ packets' = packets \o bs \o <<g>>
      /\ UNCHANGED <<keypad, receiver, heard>>
  BY DEF KeyInv, BandInv, PressInband
<1>2. n \in Nat /\ pressed' \in Seq(Symbols) /\ Len(pressed') = n + 1
  BY <1>1, AppendProperties, LenProperties
<1>3. Row(key) \in Nat /\ Column(key) \in Nat /\ loud \in Nat
  BY DEF Row, Column, Symbols
<1>4. low \in [1 .. 4 -> Nat] /\ high \in [1 .. 4 -> Nat]
  BY <1>3, ToneType
<1> HIDE DEF low, high
<1>5. b \in Bands /\ b.press = n + 1
  BY <1>2, <1>4 DEF Bands
<1>6. g \in Bands /\ g.press = 0 /\ Detect(g) = {}
  <2>1. gap \in [1 .. 4 -> Nat]
    BY SilenceQuiet, VoiceQuiet
  <2>2. Detect(g) = {}
    BY SilenceQuiet, VoiceQuiet
  <2> QED BY <2>1, <2>2 DEF Bands
<1> HIDE DEF b, g
<1>7. bs \in Seq(Bands) /\ \A k \in 1 .. Len(bs) : bs[k] = b
  <2>1. blocks \in Nat
    OBVIOUS
  <2> QED BY <1>5, <2>1, IsASeq
<1> HIDE DEF bs
<1>8. LastOf(heard) \in Nat
  BY <1>1, LastType
<1>9. /\ BandsPressed(packets, n) /\ GapsQuiet(packets) /\ BandOrder(packets)
      /\ BandNew(packets, LastOf(heard), receiver.held)
  BY <1>1 DEF BandInv
<1>10. \A k \in 1 .. Len(bs) : bs[k].press = n + 1 /\ Detect(bs[k]) = Detect(b)
  BY <1>5, <1>7
<1>11. qs \in Seq(Bands)
  BY <1>1, <1>7, ConcatAt
<1>12. BandsPressed(qs, n + 1) /\ GapsQuiet(qs) /\ BandOrder(qs) /\ BandNew(qs, LastOf(heard), receiver.held)
  BY <1>1, <1>2, <1>7, <1>8, <1>9, <1>10, BlocksFollow
<1>13. packets' = qs \o <<g>>
  BY <1>1
<1> HIDE DEF qs, n
<1>14. packets' = Append(qs, g)
  BY <1>6, <1>11, <1>13, AppendIsConcat
<1>15. packets' \in Seq(Bands)
  BY <1>6, <1>11, <1>14, AppendProperties
<1>16. /\ BandsPressed(packets', n + 1) /\ GapsQuiet(packets') /\ BandOrder(packets')
       /\ BandNew(packets', LastOf(heard), receiver.held)
  <2>1. n + 1 \in Nat
    BY <1>2
  <2> QED BY <1>6, <1>8, <1>11, <1>12, <1>14, <2>1, GapFollows
<1>17. BandInv'
  BY <1>1, <1>2, <1>15, <1>16 DEF BandInv
<1>18. NoGhostKeys'
  BY <1>1 DEF KeyInv, NoGhostKeys
<1>19. LastOf(heard') <= Len(pressed')
  BY <1>1, <1>2, <1>8
<1> QED BY <1>1, <1>2, <1>17, <1>18, <1>19 DEF KeyInv
-----------------------------------------------------------------------------
(* Carriers: the invariant and the theorem.                                *)

LEMMA CarrierStarts == CarrierInit => CarrierInv
<1> SUFFICES ASSUME CarrierInit PROVE CarrierInv
  OBVIOUS
<1>1. PICK c \in DOMAIN Serializers \union {"none"},
           k \in {"none", "rfc2833", "inband"}, sid \in {"none", "s1"},
           codec \in {"ulaw", "alaw", "pcm16"} :
        /\ (c = "none") # (k = "none")
        /\ sid = "s1" => c # "none" /\ (c = "genesys" \/ Serializers[c].events)
        /\ codec = NewSerializer(c).codec \/ (c = "telnyx" /\ codec = "alaw")
        /\ carrier = c /\ keypad = k /\ ser = NewSerializer(c)
        /\ line = [stage |-> "new", sid |-> sid, codec |-> codec, said |-> 0, held |-> FALSE]
        /\ receiver = IF k = "inband" THEN [held |-> {}] ELSE [active |-> "none", fired |-> FALSE]
  BY DEF CarrierInit
<1>2. /\ inbox = <<>> /\ media = <<>> /\ taken = <<>> /\ outbox = <<>> /\ sock = "open"
      /\ written = 0 /\ playing = <<>>
      /\ pressed = <<>> /\ packets = <<>> /\ heard = <<>>
  BY DEF CarrierInit
<1>3. ser \in Sers /\ ser.paused = FALSE
  <2> DEFINE x == IF c = "none" THEN "ulaw" ELSE Serializers[c].codec
  <2>1. x \in Codecs
    BY SerializerKinds DEF Codecs
  <2>2. ser = [sid |-> "none", codec |-> x, started |-> FALSE, open |-> FALSE, paused |-> FALSE,
               seq |-> 0, clientSeq |-> 0, pending |-> <<>>]
    BY <1>1 DEF NewSerializer
  <2> HIDE DEF x
  <2> QED BY <2>1, <2>2 DEF Sers, Sids
<1>4. line \in [stage : {"new", "up", "down"}, sid : Sids, codec : Codecs, said : Nat, held : BOOLEAN]
  BY <1>1 DEF Sids, Codecs
<1>5. LineTypes
  BY <1>1, <1>2, <1>3, <1>4 DEF LineTypes
<1>6. ~ Started /\ StreamKnown
  <2>1. carrier = "telnyx" => NewSerializer(carrier).codec = "ulaw"
    BY DEF NewSerializer, Serializers, TelnyxSerializer, EventSerializer
  <2>2. carrier = "telnyx" => line.codec # "pcm16"
    BY <1>1, <2>1
  <2> QED BY <1>1, <1>2, <2>2 DEF Started, StreamKnown
<1>7. StartAhead /\ OfStream(inbox, line.sid, line.codec) /\ HeardWell
  <2>1. line.stage = "new"
    BY <1>1
  <2> QED BY <1>2, <2>1 DEF StartAhead, StartsFirst, OfStream, HeardWell
<1>8. HoldChain(inbox, ser.paused, line.held)
  <2>1. line.held = FALSE
    BY <1>1
  <2>2. ser.paused = line.held /\ Len(inbox) = 0
    BY <1>2, <1>3, <2>1
  <2> QED BY <2>2 DEF HoldChain
<1>9. LineInv
  BY <1>5, <1>6, <1>7, <1>8 DEF LineInv
<1>10. SendInv
  <2>1. outbox = SubSeq(taken, written + 1, Len(taken))
    <3>1. SubSeq(<<>>, 1, 0) = <<>>
      BY SubSeqEmpty
    <3> QED BY <1>2, <3>1
  <2>2. Silenced(taken, written, playing)
    BY <1>2 DEF Silenced
  <2> QED BY <1>2, <2>1, <2>2 DEF SendInv
<1>11. KeyInv
  <2>1. LastOf(heard) = 0 /\ NoGhostKeys
    BY <1>2 DEF LastOf, NoGhostKeys
  <2>2. k # "inband" => receiver \in RfcReceivers
    BY <1>1 DEF RfcReceivers
  <2>3. k = "inband" => receiver \in [held : SUBSET Symbols]
    BY <1>1
  <2>4. k = "rfc2833" => RfcInv
    BY <1>2, <2>2 DEF RfcInv, OfKeys, RfcOrder, RfcNew
  <2>5. k = "inband" => BandInv
    BY <1>2, <2>3 DEF BandInv, BandsPressed, GapsQuiet, BandOrder, BandNew
  <2> QED BY <1>1, <1>2, <2>1, <2>4, <2>5 DEF KeyInv
<1> QED BY <1>9, <1>10, <1>11 DEF CarrierInv

LEMMA CarrierKeeps == CarrierInv /\ [CarrierNext]_carrierVars => CarrierInv'
<1> SUFFICES ASSUME LineInv, SendInv, KeyInv, [CarrierNext]_carrierVars
             PROVE  LineInv' /\ SendInv' /\ KeyInv'
  BY DEF CarrierInv
<1>1. ASSUME NEW kind \in LineKinds, CarrierSays(kind) PROVE LineInv' /\ SendInv' /\ KeyInv'
  <2>1. UNCHANGED <<carrier, sendVars, keypad, keyVars>>
    BY <1>1 DEF CarrierSays
  <2> QED BY <1>1, <2>1, SaysKeeps, SendKept, KeyKept DEF sendVars, keyVars
<1>2. CASE Recv
  <2>1. UNCHANGED <<carrier, line, sendVars, keypad, keyVars>>
    BY <1>2 DEF Recv
  <2> QED BY <1>2, <2>1, CarrierRecvKeeps, SendKept, KeyKept DEF sendVars, keyVars
<1>3. CASE RecvEnds
  <2>1. UNCHANGED <<carrier, sendVars, keypad, keyVars>>
    BY <1>3 DEF RecvEnds
  <2> QED BY <1>3, <2>1, EndsKeeps, SendKept, KeyKept DEF sendVars, keyVars
<1>4. ASSUME SendInv', UNCHANGED <<carrier, lineVars, ser, media, keypad, keyVars>>
      PROVE  LineInv' /\ SendInv' /\ KeyInv'
  BY <1>4, LineKept, KeyKept DEF lineVars, keyVars
<1>5. CASE SendAudio
  <2>1. UNCHANGED <<carrier, lineVars, ser, media, keypad, keyVars>>
    BY <1>5 DEF SendAudio, SendOut
  <2> QED BY <1>4, <1>5, <2>1, SendAudioKeeps
<1>6. CASE SendClear
  <2>1. UNCHANGED <<carrier, lineVars, ser, media, keypad, keyVars>>
    BY <1>6 DEF SendClear, SendOut
  <2> QED BY <1>4, <1>6, <2>1, SendClearKeeps
<1>7. CASE DropSocket \/ WriterFails
  <2>1. UNCHANGED <<carrier, lineVars, ser, media, keypad, keyVars>>
    BY <1>7 DEF DropSocket, WriterFails
  <2> QED BY <1>4, <1>7, <2>1, SocketKeeps
<1>8. CASE Writer
  <2>1. UNCHANGED <<carrier, lineVars, ser, media, keypad, keyVars>>
    BY <1>8 DEF Writer
  <2> QED BY <1>4, <1>8, <2>1, WriterKeeps
<1>9. CASE Playout
  <2>1. UNCHANGED <<carrier, lineVars, ser, media, keypad, keyVars>>
    BY <1>9 DEF Playout
  <2> QED BY <1>4, <1>9, <2>1, PlayoutKeeps
<1>10. ASSUME KeyInv', UNCHANGED <<carrier, lineVars, ser, media, sendVars>>
       PROVE  LineInv' /\ SendInv' /\ KeyInv'
  BY <1>10, LineKept, SendKept DEF lineVars, sendVars
<1>11. ASSUME NEW key \in Symbols, Press(key) PROVE LineInv' /\ SendInv' /\ KeyInv'
  <2>1. UNCHANGED <<carrier, lineVars, ser, media, sendVars>>
    BY <1>11 DEF Press
  <2> QED BY <1>10, <1>11, <2>1, PressKeeps
<1>12. ASSUME NEW key \in Symbols, NEW blocks \in 1 .. 2, NEW loud \in {3, 4, 30},
              NEW gap \in {Tone(1, 0), <<4, 3, 0, 0>>}, PressInband(key, blocks, loud, gap)
       PROVE  LineInv' /\ SendInv' /\ KeyInv'
  <2>1. UNCHANGED <<carrier, lineVars, ser, media, sendVars>>
    BY <1>12 DEF PressInband
  <2>2. gap \in {Silence, Voice}
    BY <1>12 DEF Silence, Voice
  <2> QED BY <1>10, <1>12, <2>1, <2>2, PressInbandKeeps
<1>13. CASE Loses \/ Repeats
  <2>1. UNCHANGED <<carrier, lineVars, ser, media, sendVars>>
    BY <1>13 DEF Loses, Repeats
  <2> QED BY <1>10, <1>13, <2>1, LosesKeeps, RepeatsKeeps
<1>14. CASE Hears
  <2>1. UNCHANGED <<carrier, lineVars, ser, media, sendVars>>
    BY <1>14 DEF Hears
  <2>2. keypad = "rfc2833" \/ keypad = "inband"
    BY <1>14 DEF Hears, KeyInv
  <2> QED BY <1>10, <1>14, <2>1, <2>2, HearsPayloadKeeps, HearsAudioKeeps
<1>15. CASE UNCHANGED carrierVars
  <2>1. UNCHANGED <<carrier, lineVars, ser, media, sendVars, keypad, keyVars>>
    BY <1>15 DEF carrierVars
  <2> QED BY <1>10, <2>1, KeyKept DEF keyVars
<1> QED BY <1>1, <1>2, <1>3, <1>5, <1>6, <1>7, <1>8, <1>9, <1>11, <1>12, <1>13, <1>14, <1>15
        DEF CarrierNext, LineKinds

LEMMA CarrierFollows == CarrierInv => CarriersAgree
<1> SUFFICES ASSUME CarrierInv PROVE CarriersAgree
  OBVIOUS
<1>1. DOMAIN media = 1 .. Len(media) /\ DOMAIN playing = 1 .. Len(playing)
  BY LenProperties DEF CarrierInv, LineInv, LineTypes, SendInv
<1>2. \A k \in 1 .. Len(playing) : playing[k].good
  <2>1. \A k \in 1 .. Len(playing) : playing[k] \in Playings
    BY ElementOfSeq DEF CarrierInv, SendInv
  <2> QED BY <2>1 DEF Playings
<1>3. CodecsAgree /\ HoldRespected
  BY <1>1, <1>2 DEF CarrierInv, LineInv, HeardWell, CodecsAgree, HoldRespected
<1>4. BargeInSilences
  BY <1>1 DEF CarrierInv, SendInv, Silenced, BargeInSilences
<1>5. AcceptedWritten
  BY DEF CarrierInv, SendInv, AcceptedWritten
<1>6. NoGhostKeys
  BY DEF CarrierInv, KeyInv
<1> QED BY <1>3, <1>4, <1>5, <1>6 DEF CarriersAgree

\* The call and the carrier agree on what is heard, for any number of chunks, messages,
\* presses and lost or repeated packets, and however long the press: audio is decoded by the
\* codec it was encoded with, a clear leaves nothing from before it in the carrier's buffer,
\* what a send accepted is written in order, a held caller is not heard, and one press is one
\* key at most (the serializers, AxumWsSocket, Rfc2833Receiver, InbandDtmfDetector).
THEOREM CarriersStayInAgreement == CarrierSpec => []CarriersAgree
<1>1. CarrierInv /\ [CarrierNext]_carrierVars => CarrierInv'
  BY CarrierKeeps
<1> QED BY <1>1, CarrierStarts, CarrierFollows, PTL DEF CarrierSpec

-----------------------------------------------------------------------------
(* GraphBrain.                                                             *)

Slugs(g) == {g.edges[k].slug : k \in DOMAIN g.edges}
CallNames == (UNION {Slugs(g) : g \in GraphSpecs}) \cup McpTools \cup {EndCall, "ghost"}
Calls == [id : Nat, name : CallNames]
Placed == {"start", "trigger", "global", "webhook", "qa", "tuner"}

\* Where the walk is, and how it came there. Nothing moves before the first call.
WalkInv ==
  /\ graph \in GraphSpecs /\ ParseOk(graph) /\ brainKind \in {"declarative", "remote"}
  /\ current \in NodesOf(graph) /\ path \in Seq(NodesOf(graph))
  /\ visited \in Seq({graph.name[n] : n \in NodesOf(graph)})
  /\ resumed \in BOOLEAN /\ callFrames \in Nat
  /\ callFrames = 0 => calls = <<>> /\ passed = <<>> /\ (~ resumed => Len(path) = 1)
  /\ ValidNeverDetached

\* What the model has, and what is on its way to it: the last of that is the word that the
\* call has moved to the node whose prompt the brain handed out last.
UpFrames == [kind : {"Reprompt", "moved"}, node : NodesOf(graph)]
ViewInv ==
  /\ cached \in NodesOf(graph) /\ upward \in Seq(UpFrames)
  /\ upward # <<>> => upward[Len(upward)] = [kind |-> "moved", node |-> cached]
  /\ callFrames = 0 => upward = <<>>
  /\ ViewMatches /\ MovedWithPrompt

\* The names v are those of the path p, each behind the ones that came before it.
InFirstOrder(nm, p, v) ==
  \A i, j \in 1 .. Len(v), k \in 1 .. Len(p) :
    i < j /\ nm[p[k]] = v[j] => \E m \in 1 .. (k - 1) : nm[p[m]] = v[i]
Once(s) == \A i, j \in 1 .. Len(s) : s[i] = s[j] => i = j
Covers(nm, p, v) ==
  /\ \A i \in 1 .. Len(v) : \E k \in 1 .. Len(p) : nm[p[k]] = v[i]
  /\ \A k \in 1 .. Len(p) : \E i \in 1 .. Len(v) : v[i] = nm[p[k]]
VisitInv ==
  brainKind = "declarative" =>
    Once(visited) /\ Covers(graph.name, path, visited) /\ InFirstOrder(graph.name, path, visited)

\* A call is in one place, once, and the ids of the next frame are new.
Ids(s) == {s[k].id : k \in 1 .. Len(s)}
Distinct(s) == \A i, j \in 1 .. Len(s) : s[i].id = s[j].id => i = j
CallInv ==
  /\ knownTools \subseteq McpTools /\ callFrames \in Nat /\ calls \in Seq(Calls) /\ passed \in Seq(Calls)
  /\ held \in Seq(Nat) /\ answered \in Seq(Nat)
  /\ Distinct(calls) /\ Distinct(passed) /\ Once(held) /\ Once(answered)
  /\ Range(answered) \cap Range(held) = {}
  /\ Ids(passed) \cap (Range(answered) \cup Range(held)) = {}
  /\ Ids(calls) \cap (Range(answered) \cup Range(held) \cup Ids(passed)) = {}
  /\ \A x \in Range(answered) \cup Range(held) \cup Ids(passed) \cup Ids(calls) : x <= 2 * callFrames

GraphInv == WalkInv /\ ViewInv /\ VisitInv /\ CallInv

\* The edges of a graph: the first of some is one of them, and enters a node of the graph,
LEMMA FirstEdge ==
  ASSUME NEW g \in GraphSpecs, ParseOk(g), NEW K \in SUBSET DOMAIN g.edges, K # {}
  PROVE  Min(K) \in DOMAIN g.edges /\ g.edges[Min(K)].to \in NodesOf(g) /\ Min(K) \in Entering(g, g.edges[Min(K)].to)
<1>1. DOMAIN g.edges \subseteq Nat BY GraphAssumption
<1>2. Min(K) \in K BY <1>1, MinNat
<1>3. \A k \in DOMAIN g.edges : g.edges[k].to \in NodesOf(g) BY DEF ParseOk, Dangling
<1> QED BY <1>2, <1>3 DEF Entering

\* which, in a graph that the editor accepts, has a place in the conversation.
LEMMA EnteredFits ==
  ASSUME NEW g \in GraphSpecs, ValidateDetailed(g), NEW n \in NodesOf(g), Entering(g, n) # {}
  PROVE  g.kind[n] \notin Placed
<1> SUFFICES ASSUME g.kind[n] \in Placed PROVE FALSE OBVIOUS
<1>1. PICK E : E = Entering(g, n) OBVIOUS
<1>2. IsFiniteSet(E)
  <2>1. IsFiniteSet(1 .. Len(g.edges)) /\ DOMAIN g.edges = 1 .. Len(g.edges) BY GraphAssumption, FS_Interval
  <2>2. E \subseteq 1 .. Len(g.edges) BY <1>1, <2>1 DEF Entering
  <2> QED BY <2>1, <2>2, FS_Subset
<1>3. Cardinality(E) \in Nat /\ Cardinality(E) # 0 BY <1>1, <1>2, FS_CardinalityType, FS_EmptySet
<1>4. EdgeBounds(g.kind[n]).maxIn = 0
  <2>1. ASSUME NEW kd, kd \in {"start", "trigger"} PROVE EdgeBounds(kd).maxIn = 0
    BY <2>1 DEF EdgeBounds
  <2>2. ASSUME NEW kd, kd \in {"global", "webhook", "qa", "tuner"} PROVE EdgeBounds(kd).maxIn = 0
    BY <2>2 DEF EdgeBounds
  <2> QED BY <2>1, <2>2 DEF Placed
<1>5. n \notin CardinalityErrors(g) BY DEF ValidateDetailed
<1>6. ~ (Cardinality(E) > EdgeBounds(g.kind[n]).maxIn) BY <1>1, <1>5 DEF CardinalityErrors
<1> QED BY <1>3, <1>4, <1>6

\* A transition that has a name leads to a node of the graph along an edge.
LEMMA TargetFits ==
  ASSUME NEW g \in GraphSpecs, ParseOk(g), NEW n, NEW x \in TransitionNames(g, n),
         NEW to, to = TransitionTarget(g, n, x)
  PROVE  to \in NodesOf(g) /\ (ValidateDetailed(g) => g.kind[to] \notin Placed)
<1>1. PICK K : K = {k \in Outgoing(g, n) : g.edges[k].slug = x} OBVIOUS
<1>2. K \in SUBSET DOMAIN g.edges /\ K # {} BY <1>1 DEF Outgoing, TransitionNames
<1>3. to = g.edges[Min(K)].to BY <1>1 DEF TransitionTarget
<1>4. to \in NodesOf(g) /\ Entering(g, to) # {} BY <1>2, <1>3, FirstEdge
<1> QED BY <1>4, EnteredFits

\* A visit is recorded once, in its place.
LEMMA VisitRecorded ==
  ASSUME NEW S, NEW T, NEW nm, NEW p \in Seq(S), NEW v \in Seq(T), NEW to \in S, nm[to] \in T,
         Once(v), Covers(nm, p, v), InFirstOrder(nm, p, v)
  PROVE  \A q, w : q = Append(p, to) /\ w = RecordVisit(v, nm[to]) =>
           w \in Seq(T) /\ Once(w) /\ Covers(nm, q, w) /\ InFirstOrder(nm, q, w)
<1> SUFFICES ASSUME NEW q, q = Append(p, to), NEW w, w = RecordVisit(v, nm[to])
             PROVE  w \in Seq(T) /\ Once(w) /\ Covers(nm, q, w) /\ InFirstOrder(nm, q, w)
  OBVIOUS
<1>1. /\ Len(p) \in Nat /\ Len(v) \in Nat /\ Len(q) = Len(p) + 1 /\ nm[to] \in T
      /\ \A k \in 1 .. Len(q) : (k \in 1 .. Len(p) /\ q[k] = p[k]) \/ (k = Len(p) + 1 /\ q[k] = to)
  BY AppendAt, LenProperties
<1>2. /\ \A k \in 1 .. Len(p) : k \in 1 .. Len(q) /\ q[k] = p[k]
      /\ Len(p) + 1 \in 1 .. Len(q) /\ q[Len(p) + 1] = to
  BY <1>1
<1>3. PICK x : x = nm[to] OBVIOUS
<1>4. x \in Range(v) <=> \E i \in 1 .. Len(v) : v[i] = x
  BY LenProperties DEF Range
\* what came before the end of the path
<1>5. ASSUME NEW i \in 1 .. Len(v) PROVE \E m \in 1 .. Len(p) : nm[q[m]] = v[i]
  <2>1. PICK m \in 1 .. Len(p) : nm[p[m]] = v[i] BY <1>5 DEF Covers
  <2> QED BY <1>2, <2>1
<1>8. ASSUME NEW k \in 1 .. Len(p) PROVE \E i \in 1 .. Len(v) : v[i] = nm[q[k]]
  <2>1. PICK i \in 1 .. Len(v) : v[i] = nm[p[k]] BY <1>8 DEF Covers
  <2> QED BY <1>2, <2>1
<1>6. CASE x \in Range(v)
  <2>1. w = v BY <1>3, <1>6 DEF RecordVisit
  <2>2. ASSUME NEW k \in 1 .. Len(q) PROVE \E i \in 1 .. Len(w) : w[i] = nm[q[k]]
    BY <1>1, <1>3, <1>4, <1>6, <1>8, <2>1
  <2>3. ASSUME NEW i \in 1 .. Len(w) PROVE \E k \in 1 .. Len(q) : nm[q[k]] = w[i]
    <3>1. PICK m \in 1 .. Len(p) : nm[q[m]] = v[i] BY <1>5, <2>1
    <3> QED BY <1>2, <2>1, <3>1
  <2>4. \A i, j \in 1 .. Len(w), k \in 1 .. Len(q) :
          i < j /\ nm[q[k]] = w[j] => \E m \in 1 .. (k - 1) : nm[q[m]] = w[i]
    <3> TAKE i, j \in 1 .. Len(w), k \in 1 .. Len(q)
    <3>0. HAVE i < j /\ nm[q[k]] = w[j]
    <3>1. CASE k \in 1 .. Len(p)
      <4>1. PICK m \in 1 .. (k - 1) : nm[p[m]] = v[i] BY <1>2, <2>1, <3>0, <3>1 DEF InFirstOrder
      <4>2. q[m] = p[m] BY <1>1, <1>2, <3>1
      <4> QED BY <2>1, <4>1, <4>2
    <3>2. CASE k = Len(p) + 1
      <4>1. k - 1 = Len(p) BY <1>1, <3>2
      <4> QED BY <1>5, <2>1, <4>1
    <3> QED BY <1>1, <3>1, <3>2
  <2>5. InFirstOrder(nm, q, w) BY <2>4, Zenon DEF InFirstOrder
  <2>6. Covers(nm, q, w) BY <2>2, <2>3 DEF Covers
  <2> QED BY <2>1, <2>5, <2>6
<1>7. CASE x \notin Range(v)
  <2>1. w = Append(v, x) BY <1>3, <1>7 DEF RecordVisit
  <2>2. /\ w \in Seq(T) /\ Len(w) = Len(v) + 1
        /\ \A k \in 1 .. Len(w) : (k \in 1 .. Len(v) /\ w[k] = v[k]) \/ (k = Len(v) + 1 /\ w[k] = x)
    BY <1>1, <1>3, <2>1, AppendAt
  <2>3. (\A k \in 1 .. Len(v) : k \in 1 .. Len(w) /\ w[k] = v[k]) /\ Len(v) + 1 \in 1 .. Len(w) /\ w[Len(v) + 1] = x
    BY <1>1, <2>2, SMTT(40)
  <2>4. \A i \in 1 .. Len(v) : v[i] # x BY <1>4, <1>7
  <2>5. ASSUME NEW k \in 1 .. Len(p) PROVE nm[q[k]] # x BY <1>8, <2>4
  <2>6. Once(w)
    <3> SUFFICES ASSUME NEW i \in 1 .. Len(w), NEW j \in 1 .. Len(w), w[i] = w[j] PROVE i = j BY DEF Once
    <3>1. CASE i \in 1 .. Len(v) /\ j \in 1 .. Len(v)
      <4>1. v[i] = v[j] BY <2>3, <3>1
      <4> QED BY <3>1, <4>1 DEF Once
    <3>2. CASE ~ (i \in 1 .. Len(v) /\ j \in 1 .. Len(v)) BY <2>2, <2>4, <3>2
    <3> QED BY <3>1, <3>2
  <2>7. ASSUME NEW i \in 1 .. Len(w) PROVE \E k \in 1 .. Len(q) : nm[q[k]] = w[i]
    <3>1. CASE i \in 1 .. Len(v) /\ w[i] = v[i]
      <4>1. PICK m \in 1 .. Len(p) : nm[q[m]] = v[i] BY <1>5, <3>1
      <4> QED BY <1>2, <3>1, <4>1
    <3>2. CASE i = Len(v) + 1 /\ w[i] = x BY <1>2, <1>3, <3>2
    <3> QED BY <2>2, <3>1, <3>2
  <2>8. ASSUME NEW k \in 1 .. Len(q) PROVE \E i \in 1 .. Len(w) : w[i] = nm[q[k]]
    <3>1. CASE k \in 1 .. Len(p)
      <4>1. PICK i \in 1 .. Len(v) : v[i] = nm[q[k]] BY <1>8, <3>1
      <4> QED BY <2>3, <4>1
    <3>2. CASE k = Len(p) + 1 BY <1>2, <1>3, <2>3, <3>2
    <3> QED BY <1>1, <3>1, <3>2
  <2>9. \A i, j \in 1 .. Len(w), k \in 1 .. Len(q) :
          i < j /\ nm[q[k]] = w[j] => \E m \in 1 .. (k - 1) : nm[q[m]] = w[i]
    <3> TAKE i, j \in 1 .. Len(w), k \in 1 .. Len(q)
    <3>0. HAVE i < j /\ nm[q[k]] = w[j]
    <3>1. i \in 1 .. Len(v) /\ w[i] = v[i] BY <1>1, <2>2, <3>0
    <3>2. CASE k \in 1 .. Len(p)
      <4>1. j \in 1 .. Len(v) /\ w[j] = v[j] BY <2>2, <2>5, <3>0, <3>2
      <4>2. PICK m \in 1 .. (k - 1) : nm[p[m]] = v[i] BY <1>2, <3>0, <3>1, <3>2, <4>1 DEF InFirstOrder
      <4>3. q[m] = p[m] BY <1>1, <1>2, <3>2
      <4> QED BY <3>1, <4>2, <4>3
    <3>3. CASE k = Len(p) + 1
      <4>1. k - 1 = Len(p) BY <1>1, <3>3
      <4> QED BY <1>5, <3>1, <4>1
    <3> QED BY <1>1, <3>2, <3>3
  <2>10. InFirstOrder(nm, q, w) BY <2>9, Zenon DEF InFirstOrder
  <2>11. Covers(nm, q, w) BY <2>7, <2>8 DEF Covers
  <2> QED BY <2>2, <2>6, <2>10, <2>11
<1> QED BY <1>6, <1>7

\* The walk goes on only when the engine moves.
LEMMA WalkStays ==
  ASSUME WalkInv, VisitInv, UNCHANGED <<graph, brainKind, visited, path, resumed>>,
         current' \in NodesOf(graph), callFrames' \in Nat,
         callFrames' = 0 => callFrames = 0 /\ calls' = <<>> /\ passed' = <<>>
  PROVE  WalkInv' /\ VisitInv'
<1>1. ValidNeverDetached' BY DEF WalkInv, ValidNeverDetached
<1>2. callFrames' = 0 => calls' = <<>> /\ passed' = <<>> /\ (~ resumed' => Len(path') = 1) BY DEF WalkInv
<1> QED BY <1>1, <1>2 DEF WalkInv, VisitInv

\* A move along an edge, or, before the first call, to the node of a restart.
LEMMA WalkMoves ==
  ASSUME WalkInv, VisitInv, NEW to \in NodesOf(graph), UNCHANGED <<graph, brainKind, callFrames>>,
         current' = to, path' = Append(path, to), brainKind = "declarative",
         visited' = RecordVisit(visited, graph.name[to]),
         \/ callFrames # 0 /\ resumed' = resumed /\ (ValidateDetailed(graph) => graph.kind[to] \notin Placed)
         \/ callFrames = 0 /\ ~ resumed /\ resumed' /\ UNCHANGED <<calls, passed>>
  PROVE  WalkInv' /\ VisitInv'
<1>1. PICK S : S = NodesOf(graph) OBVIOUS
<1>2. PICK T : T = {graph.name[n] : n \in NodesOf(graph)} OBVIOUS
<1>3. path \in Seq(S) /\ visited \in Seq(T) /\ to \in S /\ graph.name[to] \in T BY <1>1, <1>2 DEF WalkInv
<1>4. /\ path' \in Seq(S) /\ Len(path) \in Nat /\ Len(path') = Len(path) + 1
      /\ \A k \in 1 .. Len(path') :
           (k \in 1 .. Len(path) /\ path'[k] = path[k]) \/ (k = Len(path) + 1 /\ path'[k] = to)
  BY <1>3, AppendAt
<1>5. /\ resumed' \in BOOLEAN /\ callFrames' \in Nat
      /\ callFrames' = 0 => calls' = <<>> /\ passed' = <<>> /\ (~ resumed' => Len(path') = 1)
  BY DEF WalkInv
<1>11. visited' = RecordVisit(visited, graph.name[to]) OBVIOUS
<1>12. Once(visited) /\ Covers(graph.name, path, visited) /\ InFirstOrder(graph.name, path, visited)
  BY DEF VisitInv
<1>13. PICK nm : nm = graph.name OBVIOUS
<1>14. visited' \in Seq(T) /\ Once(visited') /\ Covers(nm, path', visited') /\ InFirstOrder(nm, path', visited')
  <2>1. PICK q : q = path' OBVIOUS
  <2>2. PICK w : w = visited' OBVIOUS
  <2>3. nm[to] \in T /\ q = Append(path, to) /\ w = RecordVisit(visited, nm[to]) BY <1>3, <1>11, <1>13, <2>1, <2>2
  <2>4. Once(visited) /\ Covers(nm, path, visited) /\ InFirstOrder(nm, path, visited) BY <1>12, <1>13
  <2>5. w \in Seq(T) /\ Once(w) /\ Covers(nm, q, w) /\ InFirstOrder(nm, q, w)
    <3>1. path \in Seq(S) /\ visited \in Seq(T) /\ to \in S /\ nm[to] \in T BY <1>3, <2>3
    <3>2. \A y, z : y = Append(path, to) /\ z = RecordVisit(visited, nm[to]) =>
            z \in Seq(T) /\ Once(z) /\ Covers(nm, y, z) /\ InFirstOrder(nm, y, z)
      BY <2>4, <3>1, VisitRecorded
    <3> QED BY <2>3, <3>2
  <2> QED BY <2>1, <2>2, <2>5
<1>15. VisitInv'
  <2>1. Once(visited)' BY <1>14 DEF Once
  <2>2. Covers(graph.name, path, visited)' BY <1>13, <1>14 DEF Covers
  <2>3. InFirstOrder(graph.name, path, visited)' BY <1>13, <1>14, SMTT(40) DEF InFirstOrder
  <2> QED BY <2>1, <2>2, <2>3 DEF VisitInv
<1>16. ValidNeverDetached'
  <2>1. CASE callFrames # 0 /\ resumed' = resumed /\ (ValidateDetailed(graph) => graph.kind[to] \notin Placed)
    <3> SUFFICES ASSUME ValidateDetailed(graph), NEW k \in (IF resumed THEN 3 ELSE 2) .. Len(path')
                 PROVE  graph.kind[path'[k]] \notin Placed
      BY <2>1, Zenon DEF ValidNeverDetached, Placed
    <3>1. k \in 1 .. Len(path') BY <1>4
    <3>2. CASE k = Len(path) + 1 /\ path'[k] = to BY <2>1, <3>2
    <3>3. CASE k \in 1 .. Len(path) /\ path'[k] = path[k]
      <4>1. k \in (IF resumed THEN 3 ELSE 2) .. Len(path) BY <1>4, <3>3
      <4> QED BY <3>3, <4>1 DEF WalkInv, ValidNeverDetached, Placed
    <3> QED BY <1>4, <3>1, <3>2, <3>3
  <2>2. CASE callFrames = 0 /\ ~ resumed /\ resumed'
    <3>0. Len(path) = 1 BY <2>2, Zenon DEF WalkInv
    <3>1. Len(path') = 2 BY <1>4, <3>0
    <3>2. 3 .. Len(path') = {} BY <3>1
    <3> QED BY <2>2, <3>2 DEF ValidNeverDetached
  <2> QED BY <2>1, <2>2
<1> QED BY <1>1, <1>2, <1>4, <1>5, <1>14, <1>15, <1>16 DEF WalkInv

\* A step of the call walks, or stays.
LEMMA WalkStep ==
  ASSUME WalkInv, VisitInv, [GraphNext]_graphVars
  PROVE  WalkInv' /\ VisitInv'
<1>1. /\ graph \in GraphSpecs /\ ParseOk(graph) /\ brainKind \in {"declarative", "remote"}
      /\ callFrames \in Nat /\ current \in NodesOf(graph)
      /\ callFrames = 0 => calls = <<>> /\ passed = <<>>
  BY DEF WalkInv
<1>2. CASE ModelCalls
  <2>1. callFrames' = callFrames + 1 /\ UNCHANGED <<graph, brainKind, visited, path, resumed, current>>
    BY <1>2 DEF ModelCalls, brainVars
  <2>2. callFrames' \in Nat /\ callFrames' # 0 BY <1>1, <2>1
  <2> QED BY <1>1, <2>1, <2>2, WalkStays
<1>3. CASE ModelHears \/ McpHandle \/ McpResults \/ UNCHANGED graphVars
  <2>1. /\ UNCHANGED <<graph, brainKind, visited, path, resumed, current, callFrames>>
        /\ callFrames = 0 => calls' = <<>> /\ passed' = <<>>
    BY <1>1, <1>3 DEF ModelHears, McpHandle, McpResults, graphVars, brainVars
  <2> QED BY <1>1, <2>1, WalkStays
<1>4. CASE BrainCall
  <2>1. UNCHANGED <<graph, brainKind, callFrames, resumed>> /\ callFrames # 0
    BY <1>1, <1>4 DEF BrainCall, BrainHandled
  <2>2. CASE UNCHANGED <<visited, path>> /\ current' \in NodesOf(graph) BY <1>1, <2>1, <2>2, WalkStays
  <2>4. PICK x : x = Head(passed).name OBVIOUS
  <2>5. ASSUME brainKind = "declarative", x \in TransitionNames(graph, current),
               MovesTo(TransitionTarget(graph, current, x))
        PROVE  WalkInv' /\ VisitInv'
    <3>1. PICK to : to = TransitionTarget(graph, current, x) OBVIOUS
    <3>2. to \in NodesOf(graph) /\ (ValidateDetailed(graph) => graph.kind[to] \notin Placed)
      BY <1>1, <2>5, <3>1, TargetFits
    <3>3. MovesTo(to) BY <2>5, <3>1
    <3>4. current' = to /\ path' = Append(path, to) /\ visited' = RecordVisit(visited, graph.name[to])
      BY <3>3 DEF MovesTo
    <3> QED BY <2>1, <2>5, <3>2, <3>4, WalkMoves
  <2>7. CASE brainKind = "declarative" /\ DeclarativeCall(x)
    BY <1>1, <2>2, <2>5, <2>7 DEF DeclarativeCall, Stays
  <2>8. CASE brainKind = "remote" /\ RemoteCall(x)
    BY <1>1, <2>2, <2>8 DEF RemoteCall, Stays
  <2> QED BY <1>4, <2>4, <2>7, <2>8 DEF BrainCall
<1>5. ASSUME NEW n \in NodesOf(graph), SetCurrentNode(n) PROVE WalkInv' /\ VisitInv'
  <2>1. /\ brainKind = "declarative" /\ UNCHANGED <<graph, brainKind, callFrames, calls, passed>>
        /\ current' = n /\ path' = Append(path, n)
        /\ visited' = RecordVisit(visited, graph.name[n])
        /\ callFrames = 0 /\ ~ resumed /\ resumed' = TRUE
    BY <1>5 DEF SetCurrentNode
  <2> QED BY <2>1, WalkMoves
<1> QED BY <1>2, <1>3, <1>4, <1>5 DEF GraphNext

\* Two frames that are pushed behind others: a prompt, and the word that the call has moved.
LEMMA PromptPushed ==
  ASSUME ViewInv, NEW to \in NodesOf(graph), Shows(to), UNCHANGED <<graph, shown>>
  PROVE  /\ cached' \in NodesOf(graph) /\ upward' \in Seq(UpFrames) /\ upward' # <<>>
         /\ upward'[Len(upward')] = [kind |-> "moved", node |-> cached'] /\ MovedWithPrompt'
<1>1. PICK a : a = [kind |-> "Reprompt", node |-> to] OBVIOUS
<1>2. PICK b : b = [kind |-> "moved", node |-> to] OBVIOUS
<1>3. a \in UpFrames /\ b \in UpFrames /\ b.kind = "moved" /\ b.node = to /\ a.kind # "moved"
  BY <1>1, <1>2 DEF UpFrames
<1>4. cached' = to /\ upward' = upward \o <<a, b>> BY <1>1, <1>2 DEF Shows
<1>5. <<a, b>> \in Seq(UpFrames) /\ Len(<<a, b>>) = 2 /\ <<a, b>>[1] = a /\ <<a, b>>[2] = b
  BY <1>3, RangeTwo
<1>6. PICK u : u = upward \o <<a, b>> OBVIOUS
<1>7. upward \in Seq(UpFrames) BY DEF ViewInv
<1>8. /\ u \in Seq(UpFrames) /\ Len(upward) \in Nat /\ Len(u) = Len(upward) + 2
      /\ \A k \in 1 .. Len(u) :
           \/ k \in 1 .. Len(upward) /\ u[k] = upward[k]
           \/ k > Len(upward) /\ k - Len(upward) \in 1 .. 2 /\ u[k] = <<a, b>>[k - Len(upward)]
  BY <1>5, <1>6, <1>7, ConcatAt
<1>9. u[Len(u)] = b /\ u[Len(u) - 1] = a
  <2>1. Len(u) \in 1 .. Len(u) /\ Len(u) - Len(upward) = 2 /\ Len(u) \notin 1 .. Len(upward)
    BY <1>8
  <2>2. Len(u) - 1 \in 1 .. Len(u) /\ Len(u) - 1 - Len(upward) = 1 /\ Len(u) - 1 \notin 1 .. Len(upward)
    BY <1>8
  <2> QED BY <1>5, <1>8, <2>1, <2>2
<1>10. \A k \in 1 .. Len(u) :
         \/ k \in 1 .. Len(upward) /\ u[k] = upward[k]
         \/ k = Len(u) - 1 \/ k = Len(u)
  BY <1>8
<1>11. DOMAIN u = 1 .. Len(u) /\ DOMAIN upward = 1 .. Len(upward) BY <1>7, <1>8, LenProperties, SMTT(40)
<1>12. ASSUME NEW k \in DOMAIN u, u[k].kind = "moved"
       PROVE  IF k = 1 THEN shown = u[k].node ELSE u[k - 1] = [kind |-> "Reprompt", node |-> u[k].node]
  <2>1. CASE k \in 1 .. Len(upward) /\ u[k] = upward[k]
    <3>1. IF k = 1 THEN shown = upward[k].node
          ELSE upward[k - 1] = [kind |-> "Reprompt", node |-> upward[k].node]
      BY <1>11, <1>12, <2>1 DEF ViewInv, MovedWithPrompt
    <3>2. k # 1 => u[k - 1] = upward[k - 1]
      <4> SUFFICES ASSUME k # 1 PROVE u[k - 1] = upward[k - 1] OBVIOUS
      <4>1. k - 1 \in 1 .. Len(upward) /\ k - 1 \in 1 .. Len(u) /\ ~ (k - 1 > Len(upward)) BY <1>8, <2>1
      <4> QED BY <1>8, <4>1
    <3> QED BY <2>1, <3>1, <3>2
  <2>2. CASE k = Len(u) - 1 BY <1>3, <1>9, <1>12, <2>2
  <2>3. CASE k = Len(u)
    <3>1. k # 1 BY <1>8, <2>3
    <3> QED BY <1>1, <1>3, <1>9, <2>3, <3>1
  <2> QED BY <1>10, <1>11, <2>1, <2>2, <2>3, ZenonT(60)
<1>13. MovedWithPrompt' BY <1>4, <1>6, <1>12 DEF MovedWithPrompt
<1>14. UpFrames' = UpFrames BY DEF UpFrames, NodesOf
<1>15. u # <<>> BY <1>8
<1> QED BY <1>2, <1>4, <1>6, <1>8, <1>9, <1>13, <1>15

\* The first frame reaches the model.
LEMMA PromptHeard ==
  ASSUME ViewInv, ModelHears
  PROVE  ViewInv'
<1>1. /\ upward # <<>> /\ upward' = Tail(upward) /\ UNCHANGED <<graph, current, cached, brainDone, strayed, callFrames>>
      /\ shown' = IF Head(upward).kind = "Reprompt" THEN Head(upward).node ELSE shown
  BY DEF ModelHears, brainVars
<1>2. upward \in Seq(UpFrames) /\ cached \in NodesOf(graph) BY DEF ViewInv
<1>3. PICK u : u = Tail(upward) OBVIOUS
<1>4. /\ u \in Seq(UpFrames) /\ Len(upward) \in Nat /\ Len(u) = Len(upward) - 1
      /\ Head(upward) = upward[1] /\ 1 \in 1 .. Len(upward) /\ Head(upward) \in UpFrames
      /\ \A k \in 1 .. Len(u) : k + 1 \in 1 .. Len(upward) /\ u[k] = upward[k + 1]
  BY <1>1, <1>2, <1>3, TailAt
<1>5. DOMAIN u = 1 .. Len(u) /\ DOMAIN upward = 1 .. Len(upward) BY <1>2, <1>4, LenProperties
<1>6. \A k \in 1 .. Len(upward) : upward[k].kind = "moved" =>
        IF k = 1 THEN shown = upward[k].node
        ELSE upward[k - 1] = [kind |-> "Reprompt", node |-> upward[k].node]
  BY <1>5 DEF ViewInv, MovedWithPrompt
<1>7. upward[Len(upward)] = [kind |-> "moved", node |-> cached] BY <1>1 DEF ViewInv
<1>8. Head(upward).kind \in {"Reprompt", "moved"} BY <1>4 DEF UpFrames
<1>9. u = <<>> => shown' = cached
  <2> SUFFICES ASSUME u = <<>> PROVE shown' = cached OBVIOUS
  <2>1. Len(upward) = 1 BY <1>4
  <2>2. Head(upward) = [kind |-> "moved", node |-> cached] BY <1>4, <1>7, <2>1
  <2>3. upward[1].kind = "moved" /\ upward[1].node = cached /\ Head(upward).kind # "Reprompt" BY <1>4, <2>2
  <2>4. shown = upward[1].node BY <1>4, <1>6, <2>3
  <2> QED BY <1>1, <2>3, <2>4
<1>10. u # <<>> => u[Len(u)] = [kind |-> "moved", node |-> cached]
  <2> SUFFICES ASSUME u # <<>> PROVE u[Len(u)] = [kind |-> "moved", node |-> cached] OBVIOUS
  <2>1. Len(u) # 0 /\ Len(u) \in Nat BY <1>4, EmptySeq, LenProperties
  <2>2. Len(u) \in 1 .. Len(u) /\ Len(u) + 1 = Len(upward) BY <1>4, <2>1
  <2> QED BY <1>4, <1>7, <2>2
<1>11. ASSUME NEW k \in DOMAIN u, u[k].kind = "moved"
       PROVE  IF k = 1 THEN shown' = u[k].node ELSE u[k - 1] = [kind |-> "Reprompt", node |-> u[k].node]
  <2>1. k + 1 \in 1 .. Len(upward) /\ u[k] = upward[k + 1] /\ k \in 1 .. Len(u) BY <1>4, <1>5
  <2>2. k + 1 # 1 /\ (k + 1) - 1 = k BY <2>1
  <2>3. upward[k] = [kind |-> "Reprompt", node |-> u[k].node] BY <1>6, <1>11, <2>1, <2>2
  <2>4. CASE k = 1 BY <1>1, <1>4, <2>3, <2>4
  <2>5. CASE k # 1
    <3>1. k - 1 \in 1 .. Len(u) /\ (k - 1) + 1 = k BY <2>1, <2>5
    <3>2. u[k - 1] = upward[k] BY <1>4, <3>1
    <3> QED BY <2>3, <2>5, <3>2
  <2> QED BY <2>4, <2>5
<1>12. MovedWithPrompt' BY <1>1, <1>3, <1>11 DEF MovedWithPrompt
<1>13. ViewMatches' BY <1>1, <1>3, <1>9 DEF ViewInv, ViewMatches
<1>14. UpFrames' = UpFrames /\ NodesOf(graph)' = NodesOf(graph) BY <1>1 DEF UpFrames, NodesOf
<1>15. callFrames' = 0 => upward' = <<>> BY <1>1 DEF ViewInv
<1> QED BY <1>1, <1>2, <1>3, <1>4, <1>10, <1>12, <1>13, <1>14, <1>15 DEF ViewInv

\* Nothing goes up, and the brain's prompt stays as it is.
LEMMA ViewStays ==
  ASSUME ViewInv, UNCHANGED <<graph, shown, cached, upward>>,
         ~ brainDone' /\ ~ strayed' => ~ brainDone /\ ~ strayed /\ current' = current,
         callFrames' = 0 => callFrames = 0
  PROVE  ViewInv'
<1>1. UpFrames' = UpFrames /\ NodesOf(graph)' = NodesOf(graph) BY DEF UpFrames, NodesOf
<1>2. ViewMatches' BY DEF ViewInv, ViewMatches
<1>3. MovedWithPrompt' BY DEF ViewInv, MovedWithPrompt
<1> QED BY <1>1, <1>2, <1>3 DEF ViewInv

LEMMA ViewMoves ==
  ASSUME ViewInv, NEW to \in NodesOf(graph), Shows(to), UNCHANGED <<graph, shown>>, current' = to,
         callFrames' # 0
  PROVE  ViewInv'
<1>1. /\ cached' \in NodesOf(graph) /\ upward' \in Seq(UpFrames) /\ upward' # <<>>
      /\ upward'[Len(upward')] = [kind |-> "moved", node |-> cached'] /\ MovedWithPrompt'
  BY PromptPushed
<1>2. UpFrames' = UpFrames /\ NodesOf(graph)' = NodesOf(graph) BY DEF UpFrames, NodesOf
<1>3. cached' = to BY DEF Shows
<1>4. ViewMatches' BY <1>1, <1>3 DEF ViewMatches
<1> QED BY <1>1, <1>2, <1>4 DEF ViewInv

\* A step of the call shows the model what the brain works from.
LEMMA ViewStep ==
  ASSUME WalkInv, ViewInv, [GraphNext]_graphVars
  PROVE  ViewInv'
<1>1. graph \in GraphSpecs /\ ParseOk(graph) /\ callFrames \in Nat /\ (callFrames = 0 => passed = <<>>)
  BY DEF WalkInv
<1>2. CASE ModelHears BY <1>2, PromptHeard
<1>3. CASE ModelCalls \/ McpHandle \/ McpResults \/ UNCHANGED graphVars
  <2>1. UNCHANGED <<graph, shown, cached, upward, brainDone, strayed, current>>
    BY <1>3 DEF ModelCalls, McpHandle, McpResults, graphVars, brainVars
  <2>2. callFrames' = 0 => callFrames = 0
    BY <1>1, <1>3 DEF ModelCalls, McpHandle, McpResults, graphVars
  <2> QED BY <2>1, <2>2, ViewStays
<1>4. CASE BrainCall
  <2>1. UNCHANGED <<graph, shown, callFrames>> /\ callFrames # 0 BY <1>1, <1>4 DEF BrainCall, BrainHandled
  <2>2. PICK x : x = Head(passed).name OBVIOUS
  <2>3. CASE Stays BY <2>1, <2>3, ViewStays DEF Stays
  <2>4. CASE brainKind = "declarative" /\ DeclarativeCall(x)
    <3>1. CASE brainDone' = TRUE /\ UNCHANGED <<cached, upward>> BY <2>1, <3>1, ViewStays
    <3>2. ASSUME x \in TransitionNames(graph, current), MovesTo(TransitionTarget(graph, current, x)) PROVE ViewInv'
      <4>1. PICK to : to = TransitionTarget(graph, current, x) OBVIOUS
      <4>2. to \in NodesOf(graph) BY <1>1, <3>2, <4>1, TargetFits
      <4>3. MovesTo(to) BY <3>2, <4>1
      <4>4. CASE IsTerminal(graph, to) BY <3>1, <4>3, <4>4 DEF MovesTo
      <4>5. CASE ~ IsTerminal(graph, to)
        <5>1. Shows(to) /\ current' = to BY <4>3, <4>5 DEF MovesTo
        <5> QED BY <2>1, <4>2, <5>1, ViewMoves
      <4> QED BY <4>4, <4>5
    <3> QED BY <2>3, <2>4, <3>1, <3>2 DEF DeclarativeCall
  <2>5. CASE brainKind = "remote" /\ RemoteCall(x)
    <3>1. ASSUME NEW n \in NodesOf(graph), current' = n, Shows(n) PROVE ViewInv' BY <2>1, <3>1, ViewMoves
    <3>2. ASSUME NEW n \in NodesOf(graph), current' = n, strayed' = (strayed \/ n # current),
                 UNCHANGED <<cached, upward>>, brainDone' \in {brainDone, TRUE}
          PROVE  ViewInv'
      <4>1. ~ brainDone' /\ ~ strayed' => ~ brainDone /\ ~ strayed /\ current' = current BY <3>2, Zenon
      <4> QED BY <2>1, <3>2, <4>1, ViewStays
    <3> QED BY <2>3, <2>5, <3>1, <3>2 DEF RemoteCall
  <2> QED BY <1>4, <2>2, <2>4, <2>5 DEF BrainCall
<1>5. ASSUME NEW n \in NodesOf(graph), SetCurrentNode(n) PROVE ViewInv'
  <2>1. UNCHANGED <<graph, upward, callFrames>> /\ current' = n /\ shown' = n /\ cached' = n /\ callFrames = 0
    BY <1>5 DEF SetCurrentNode
  <2>2. upward = <<>> BY <2>1 DEF ViewInv
  <2>3. ViewMatches' BY <2>1 DEF ViewMatches
  <2>4. Len(<<>>) = 0 /\ <<>> \in Seq(UpFrames) BY RangeNone
  <2>5. DOMAIN upward = {} BY <2>2
  <2>6. MovedWithPrompt' BY <2>1, <2>5 DEF MovedWithPrompt
  <2>7. UpFrames' = UpFrames /\ NodesOf(graph)' = NodesOf(graph) BY <2>1 DEF UpFrames, NodesOf
  <2> QED BY <2>1, <2>2, <2>3, <2>4, <2>6, <2>7 DEF ViewInv
<1> QED BY <1>2, <1>3, <1>4, <1>5 DEF GraphNext

\* The walk begins at a start node, or at the node its first edge leads to.
LEMMA WalkStarts == ASSUME GraphInit PROVE WalkInv /\ ViewInv /\ VisitInv
<1>1. /\ graph \in GraphSpecs /\ ParseOk(graph) /\ brainKind \in {"declarative", "remote"}
      /\ visited = RecordVisit(<<>>, graph.name[current]) /\ path = <<current>>
      /\ cached = current /\ shown = current /\ upward = <<>> /\ resumed = FALSE
      /\ callFrames = 0 /\ calls = <<>> /\ passed = <<>>
  BY DEF GraphInit
<1>2. PICK s \in Starts(graph) : current = AdvanceThroughStart(graph, s) BY DEF GraphInit
<1>3. /\ current \in NodesOf(graph)
      /\ ValidateDetailed(graph) => graph.kind[current] = "start" \/ graph.kind[current] \notin Placed
  <2>1. s \in NodesOf(graph) /\ graph.kind[s] = "start" BY DEF Starts
  <2>2. PICK K : K = Outgoing(graph, s) OBVIOUS
  <2>3. CASE current = s BY <2>1, <2>3
  <2>4. CASE K # {} /\ current = graph.edges[Min(K)].to
    <3>1. K \in SUBSET DOMAIN graph.edges BY <2>2 DEF Outgoing
    <3>2. current \in NodesOf(graph) /\ Entering(graph, current) # {} BY <1>1, <2>4, <3>1, FirstEdge
    <3> QED BY <1>1, <3>2, EnteredFits
  <2>5. current = s \/ (K # {} /\ current = graph.edges[Min(K)].to) BY <1>2, <2>2 DEF AdvanceThroughStart
  <2> QED BY <2>3, <2>4, <2>5
<1>4. PICK x : x = graph.name[current] OBVIOUS
<1>5. visited = <<x>>
  <2>1. Range(<<>>) = {} BY RangeNone
  <2> QED BY <1>1, <1>4, <2>1 DEF RecordVisit
<1>6. Len(visited) = 1 /\ visited[1] = x /\ Len(path) = 1 /\ path[1] = current BY <1>1, <1>5
<1>7. VisitInv
  <2>1. Once(visited) BY <1>6 DEF Once
  <2>2. Covers(graph.name, path, visited) BY <1>4, <1>6 DEF Covers
  <2>3. InFirstOrder(graph.name, path, visited) BY <1>6 DEF InFirstOrder
  <2> QED BY <2>1, <2>2, <2>3 DEF VisitInv
<1>8. ValidNeverDetached
  <2>1. 2 .. Len(path) = {} BY <1>6
  <2> QED BY <1>1, <2>1 DEF ValidNeverDetached
<1>9. path \in Seq(NodesOf(graph)) /\ visited \in Seq({graph.name[n] : n \in NodesOf(graph)})
  BY <1>1, <1>3, <1>4, <1>5, RangeOne
<1>10. ViewInv
  <2>1. <<>> \in Seq(UpFrames) /\ DOMAIN upward = {} BY <1>1, RangeNone
  <2>2. MovedWithPrompt BY <2>1 DEF MovedWithPrompt
  <2>3. ViewMatches BY <1>1 DEF ViewMatches
  <2> QED BY <1>1, <1>3, <2>1, <2>2, <2>3 DEF ViewInv
<1> QED BY <1>1, <1>3, <1>6, <1>7, <1>8, <1>9, <1>10 DEF WalkInv

\* A call that is taken from a frame.
LEMMA IdsTail ==
  ASSUME NEW s \in Seq(Calls), s # <<>>, Distinct(s)
  PROVE  /\ Tail(s) \in Seq(Calls) /\ Head(s) \in Calls /\ Distinct(Tail(s))
         /\ Ids(s) = Ids(Tail(s)) \cup {Head(s).id} /\ Head(s).id \notin Ids(Tail(s))
<1>1. PICK t : t = Tail(s) OBVIOUS
<1>2. /\ t \in Seq(Calls) /\ Len(s) \in Nat /\ Len(t) = Len(s) - 1 /\ Head(s) \in Calls
      /\ Head(s) = s[1] /\ 1 \in 1 .. Len(s)
      /\ \A k \in 1 .. Len(t) : k + 1 \in 1 .. Len(s) /\ t[k] = s[k + 1]
  BY <1>1, TailAt
<1>3. Distinct(t)
  <2> SUFFICES ASSUME NEW i \in 1 .. Len(t), NEW j \in 1 .. Len(t), t[i].id = t[j].id PROVE i = j BY DEF Distinct
  <2>1. /\ i + 1 \in 1 .. Len(s) /\ j + 1 \in 1 .. Len(s) /\ t[i] = s[i + 1] /\ t[j] = s[j + 1]
    BY <1>2
  <2>2. s[i + 1].id = s[j + 1].id BY <2>1
  <2>3. \A x, y \in 1 .. Len(s) : s[x].id = s[y].id => x = y BY Zenon DEF Distinct
  <2>4. i + 1 = j + 1 BY <2>1, <2>2, <2>3
  <2> QED BY <1>2, <2>4
<1>4. Head(s).id \notin Ids(t)
  <2> SUFFICES ASSUME NEW k \in 1 .. Len(t), t[k].id = Head(s).id PROVE FALSE BY DEF Ids
  <2>1. k + 1 = 1 BY <1>2 DEF Distinct
  <2> QED BY <1>2, <2>1
<1>5. Ids(s) \subseteq Ids(t) \cup {Head(s).id}
  <2> SUFFICES ASSUME NEW k \in 1 .. Len(s) PROVE s[k].id \in Ids(t) \cup {Head(s).id} BY DEF Ids
  <2>1. CASE k = 1 BY <1>2, <2>1
  <2>2. CASE k # 1
    <3>1. k - 1 \in 1 .. Len(t) /\ (k - 1) + 1 = k BY <1>2, <2>2
    <3>2. t[k - 1] = s[k] BY <1>2, <3>1
    <3> QED BY <3>1, <3>2 DEF Ids
  <2> QED BY <2>1, <2>2
<1>6. Ids(t) \cup {Head(s).id} \subseteq Ids(s) BY <1>2 DEF Ids
<1> QED BY <1>1, <1>2, <1>3, <1>4, <1>5, <1>6

\* A call that is put behind others.
LEMMA IdsAppend ==
  ASSUME NEW s \in Seq(Calls), NEW c \in Calls, Distinct(s), c.id \notin Ids(s)
  PROVE  Append(s, c) \in Seq(Calls) /\ Distinct(Append(s, c)) /\ Ids(Append(s, c)) = Ids(s) \cup {c.id}
<1>1. PICK t : t = Append(s, c) OBVIOUS
<1>2. /\ t \in Seq(Calls) /\ Len(s) \in Nat /\ Len(t) = Len(s) + 1
      /\ \A k \in 1 .. Len(t) : (k \in 1 .. Len(s) /\ t[k] = s[k]) \/ (k = Len(s) + 1 /\ t[k] = c)
  BY <1>1, AppendAt
<1>3. \A k \in 1 .. Len(s) : s[k].id # c.id BY DEF Ids
<1>4. Distinct(t)
  <2> SUFFICES ASSUME NEW i \in 1 .. Len(t), NEW j \in 1 .. Len(t), t[i].id = t[j].id PROVE i = j BY DEF Distinct
  <2> QED BY <1>2, <1>3 DEF Distinct
<1>5. Ids(t) \subseteq Ids(s) \cup {c.id} BY <1>2 DEF Ids
<1>6. Ids(s) \cup {c.id} \subseteq Ids(t)
  <2>1. (\A k \in 1 .. Len(s) : k \in 1 .. Len(t) /\ t[k] = s[k]) /\ Len(s) + 1 \in 1 .. Len(t) /\ t[Len(s) + 1] = c
    BY <1>2
  <2> QED BY <2>1 DEF Ids
<1> QED BY <1>1, <1>2, <1>4, <1>5, <1>6

\* The id of one more answer.
LEMMA OnceAppend ==
  ASSUME NEW s \in Seq(Nat), NEW x \in Nat, Once(s), x \notin Range(s)
  PROVE  Append(s, x) \in Seq(Nat) /\ Once(Append(s, x)) /\ Range(Append(s, x)) = Range(s) \cup {x}
<1>1. PICK t : t = Append(s, x) OBVIOUS
<1>2. /\ t \in Seq(Nat) /\ Len(s) \in Nat /\ Len(t) = Len(s) + 1
      /\ \A k \in 1 .. Len(t) : (k \in 1 .. Len(s) /\ t[k] = s[k]) \/ (k = Len(s) + 1 /\ t[k] = x)
  BY <1>1, AppendAt
<1>3. \A k \in 1 .. Len(s) : s[k] # x BY DEF Range
<1>4. Once(t)
  <2> SUFFICES ASSUME NEW i \in 1 .. Len(t), NEW j \in 1 .. Len(t), t[i] = t[j] PROVE i = j BY DEF Once
  <2> QED BY <1>2, <1>3 DEF Once
<1>5. Range(t) = Range(s) \cup {x} BY <1>1, RangeAppend
<1> QED BY <1>1, <1>2, <1>4, <1>5

\* The answers held back go behind those given.
LEMMA OnceConcat ==
  ASSUME NEW p \in Seq(Nat), NEW q \in Seq(Nat), Once(p), Once(q), Range(p) \cap Range(q) = {}
  PROVE  p \o q \in Seq(Nat) /\ Once(p \o q) /\ Range(p \o q) = Range(p) \cup Range(q)
<1>1. PICK t : t = p \o q OBVIOUS
<1>2. /\ t \in Seq(Nat) /\ Len(p) \in Nat /\ Len(q) \in Nat /\ Len(t) = Len(p) + Len(q)
      /\ \A k \in 1 .. Len(t) :
           \/ k \in 1 .. Len(p) /\ t[k] = p[k]
           \/ k > Len(p) /\ k - Len(p) \in 1 .. Len(q) /\ t[k] = q[k - Len(p)]
  BY <1>1, ConcatAt
<1>3. /\ Range(p) = {p[k] : k \in 1 .. Len(p)} /\ Range(q) = {q[k] : k \in 1 .. Len(q)}
      /\ Range(t) = {t[k] : k \in 1 .. Len(t)}
  BY <1>2, LenProperties DEF Range
<1>4. ASSUME NEW i \in 1 .. Len(p), NEW j \in 1 .. Len(q) PROVE p[i] # q[j] BY <1>3
<1>5. Once(t)
  <2> SUFFICES ASSUME NEW i \in 1 .. Len(t), NEW j \in 1 .. Len(t), t[i] = t[j] PROVE i = j BY DEF Once
  <2>1. CASE i \in 1 .. Len(p) /\ t[i] = p[i] /\ j \in 1 .. Len(p) /\ t[j] = p[j] BY <2>1 DEF Once
  <2>2. CASE /\ i > Len(p) /\ i - Len(p) \in 1 .. Len(q) /\ t[i] = q[i - Len(p)]
             /\ j > Len(p) /\ j - Len(p) \in 1 .. Len(q) /\ t[j] = q[j - Len(p)]
    <3>1. i - Len(p) = j - Len(p) BY <2>2 DEF Once
    <3> QED BY <1>2, <3>1
  <2> QED BY <1>2, <1>4, <2>1, <2>2
<1>6. Range(t) \subseteq Range(p) \cup Range(q) BY <1>2, <1>3
<1>7. Range(p) \cup Range(q) \subseteq Range(t)
  <2>1. ASSUME NEW k \in 1 .. Len(p) PROVE p[k] \in Range(t)
    <3>1. k \in 1 .. Len(t) BY <1>2
    <3>2. t[k] = p[k] BY <1>2, <3>1
    <3> QED BY <1>3, <3>1, <3>2
  <2>2. ASSUME NEW k \in 1 .. Len(q) PROVE q[k] \in Range(t)
    <3>1. PICK m : m = Len(p) + k OBVIOUS
    <3>2. m \in 1 .. Len(t) /\ m \notin 1 .. Len(p) /\ m - Len(p) = k BY <1>2, <3>1, SMTT(40)
    <3>3. t[m] = q[m - Len(p)] BY <1>2, <3>2
    <3> QED BY <1>3, <3>2, <3>3
  <2> QED BY <1>3, <2>1, <2>2
<1> QED BY <1>1, <1>2, <1>5, <1>6, <1>7

\* The ids of a new frame of calls are new.
LEMMA CallsMade ==
  ASSUME CallInv, WalkInv, ModelCalls
  PROVE  CallInv'
<1>1. /\ calls = <<>> /\ passed = <<>> /\ held = <<>> /\ callFrames' = callFrames + 1
      /\ knownTools' = knownTools /\ passed' = passed /\ held' = held /\ answered' = answered
  BY DEF ModelCalls
<1>2. PICK x \in Callable, y \in Callable :
        calls' \in {<<[id |-> 2 * callFrames + 1, name |-> x]>>,
                    <<[id |-> 2 * callFrames + 1, name |-> x], [id |-> 2 * callFrames + 2, name |-> y]>>}
  BY DEF ModelCalls
<1>3. Callable \subseteq CallNames
  <2>1. TransitionNames(graph, shown) \subseteq CallNames
    <3>1. graph \in GraphSpecs BY DEF WalkInv
    <3>2. TransitionNames(graph, shown) \subseteq Slugs(graph)
      BY DEF TransitionNames, Outgoing, Slugs
    <3>3. Slugs(graph) \subseteq UNION {Slugs(g) : g \in GraphSpecs} BY <3>1
    <3> QED BY <3>2, <3>3 DEF CallNames
  <2>2. knownTools \subseteq McpTools /\ McpTools \subseteq CallNames /\ EndCall \in CallNames /\ "ghost" \in CallNames
    BY DEF CallInv, CallNames
  <2> QED BY <2>1, <2>2 DEF Callable, CurrentTools
<1>4. PICK n \in Nat : n = 2 * callFrames BY DEF CallInv
<1>5. callFrames \in Nat /\ 2 * (callFrames + 1) = n + 2 BY <1>4 DEF CallInv
<1>6. PICK c : c = [id |-> n + 1, name |-> x] OBVIOUS
<1>7. PICK d : d = [id |-> n + 2, name |-> y] OBVIOUS
<1>8. c \in Calls /\ d \in Calls /\ c.id = n + 1 /\ d.id = n + 2 /\ n + 1 # n + 2 /\ n + 1 \in Nat /\ n + 2 \in Nat
  BY <1>3, <1>4, <1>6, <1>7 DEF Calls
<1>9. calls' = <<c>> \/ calls' = <<c, d>> BY <1>2, <1>4, <1>6, <1>7
<1>10. calls' \in Seq(Calls) /\ Distinct(calls') /\ Ids(calls') \subseteq {n + 1, n + 2}
  <2>1. CASE calls' = <<c>>
    <3>1. Len(calls') = 1 /\ calls'[1] = c /\ calls' \in Seq(Calls) BY <1>8, <2>1, RangeOne
    <3> QED BY <1>8, <3>1 DEF Distinct, Ids
  <2>2. CASE calls' = <<c, d>>
    <3>1. Len(calls') = 2 /\ calls'[1] = c /\ calls'[2] = d /\ calls' \in Seq(Calls) BY <1>8, <2>2, RangeTwo
    <3>2. 1 .. 2 = {1, 2} OBVIOUS
    <3> QED BY <1>8, <3>1, <3>2 DEF Distinct, Ids
  <2> QED BY <1>9, <2>1, <2>2
<1>11. Range(held) = {} /\ Ids(passed) = {}
  <2>1. Range(<<>>) = {} BY RangeNone
  <2>2. Len(passed) = 0 BY <1>1
  <2> QED BY <1>1, <2>1, <2>2 DEF Ids
<1>12. Range(answered) \subseteq Nat
  <2>1. answered \in Seq(Nat) BY DEF CallInv
  <2> QED BY <2>1, LenProperties, ElementOfSeq DEF Range
<1>13. \A z \in Range(answered) : z <= n /\ z \in Nat BY <1>4, <1>12 DEF CallInv
<1>14. \A z \in Range(answered) : z <= n + 2 /\ z # n + 1 /\ z # n + 2 BY <1>4, <1>13
<1>15. Ids(calls') \cap Range(answered) = {} BY <1>10, <1>14
<1>16. \A z \in Range(answered) \cup Ids(calls') : z <= n + 2 BY <1>4, <1>10, <1>14
<1>17. /\ Range(answered') \cap Range(held') = {}
       /\ Ids(passed') \cap (Range(answered') \cup Range(held')) = {}
       /\ Ids(calls') \cap (Range(answered') \cup Range(held') \cup Ids(passed')) = {}
  BY <1>1, <1>11, <1>15
<1>18. \A z \in Range(answered') \cup Range(held') \cup Ids(passed') \cup Ids(calls') : z <= 2 * callFrames'
  BY <1>1, <1>5, <1>11, <1>16
<1> QED BY <1>1, <1>5, <1>10, <1>17, <1>18 DEF CallInv, Distinct, Once, Ids

\* Where a call goes, its id goes.
LEMMA CallsMove ==
  ASSUME CallInv, McpHandle \/ McpResults \/ BrainCall
  PROVE  CallInv'
<1>1. knownTools' = knownTools /\ callFrames' = callFrames
  BY DEF McpHandle, McpResults, BrainCall, BrainHandled
<1>2. /\ knownTools \subseteq McpTools /\ callFrames \in Nat /\ calls \in Seq(Calls) /\ passed \in Seq(Calls)
      /\ held \in Seq(Nat) /\ answered \in Seq(Nat)
      /\ Distinct(calls) /\ Distinct(passed) /\ Once(held) /\ Once(answered)
      /\ Range(answered) \cap Range(held) = {}
      /\ Ids(passed) \cap (Range(answered) \cup Range(held)) = {}
      /\ Ids(calls) \cap (Range(answered) \cup Range(held) \cup Ids(passed)) = {}
      /\ \A x \in Range(answered) \cup Range(held) \cup Ids(passed) \cup Ids(calls) : x <= 2 * callFrames
  BY DEF CallInv
<1>3. CASE McpHandle
  <2>1. /\ calls # <<>> /\ calls' = Tail(calls) /\ answered' = answered
        /\ \/ held' = Append(held, Head(calls).id) /\ passed' = passed
           \/ passed' = Append(passed, Head(calls)) /\ held' = held
    BY <1>3 DEF McpHandle
  <2>2. PICK c : c = Head(calls) OBVIOUS
  <2>3. /\ calls' \in Seq(Calls) /\ c \in Calls /\ c.id \in Nat /\ Distinct(calls')
        /\ Ids(calls) = Ids(calls') \cup {c.id} /\ c.id \notin Ids(calls')
    <3>1. /\ Tail(calls) \in Seq(Calls) /\ Head(calls) \in Calls /\ Distinct(Tail(calls))
          /\ Ids(calls) = Ids(Tail(calls)) \cup {Head(calls).id} /\ Head(calls).id \notin Ids(Tail(calls))
      BY <1>2, <2>1, IdsTail
    <3> QED BY <2>1, <2>2, <3>1 DEF Calls
  <2>4. c.id \notin Range(answered) \cup Range(held) \cup Ids(passed) BY <1>2, <2>3
  <2>5. CASE held' = Append(held, c.id) /\ passed' = passed
    <3>1. held' \in Seq(Nat) /\ Once(held') /\ Range(held') = Range(held) \cup {c.id}
      BY <1>2, <2>3, <2>4, <2>5, OnceAppend
    <3>2. /\ Range(answered') \cap Range(held') = {}
          /\ Ids(passed') \cap (Range(answered') \cup Range(held')) = {}
          /\ Ids(calls') \cap (Range(answered') \cup Range(held') \cup Ids(passed')) = {}
      BY <1>2, <2>1, <2>3, <2>4, <2>5, <3>1
    <3>3. \A x \in Range(answered') \cup Range(held') \cup Ids(passed') \cup Ids(calls') : x <= 2 * callFrames
      BY <1>2, <2>1, <2>3, <2>5, <3>1
    <3> QED BY <1>1, <1>2, <2>1, <2>3, <2>5, <3>1, <3>2, <3>3, ZenonT(60) DEF CallInv, Distinct, Once, Ids
  <2>6. CASE passed' = Append(passed, c) /\ held' = held
    <3>1. passed' \in Seq(Calls) /\ Distinct(passed') /\ Ids(passed') = Ids(passed) \cup {c.id}
      BY <1>2, <2>3, <2>4, <2>6, IdsAppend
    <3>2. /\ Range(answered') \cap Range(held') = {}
          /\ Ids(passed') \cap (Range(answered') \cup Range(held')) = {}
          /\ Ids(calls') \cap (Range(answered') \cup Range(held') \cup Ids(passed')) = {}
      BY <1>2, <2>1, <2>3, <2>4, <2>6, <3>1
    <3>3. \A x \in Range(answered') \cup Range(held') \cup Ids(passed') \cup Ids(calls') : x <= 2 * callFrames
      BY <1>2, <2>1, <2>3, <2>6, <3>1
    <3> QED BY <1>1, <1>2, <2>1, <2>3, <2>6, <3>1, <3>2, <3>3, ZenonT(60) DEF CallInv, Distinct, Once, Ids
  <2> QED BY <2>1, <2>2, <2>5, <2>6
<1>4. CASE McpResults
  <2>1. answered' = answered \o held /\ held' = <<>> /\ calls' = calls /\ passed' = passed
    BY <1>4 DEF McpResults
  <2>2. answered' \in Seq(Nat) /\ Once(answered') /\ Range(answered') = Range(answered) \cup Range(held)
    BY <1>2, <2>1, OnceConcat
  <2>3. held' \in Seq(Nat) /\ Once(held') /\ Range(held') = {}
    <3>1. <<>> \in Seq(Nat) /\ Range(<<>>) = {} /\ Len(<<>>) = 0 BY RangeNone
    <3> QED BY <2>1, <3>1 DEF Once
  <2>4. /\ Range(answered') \cap Range(held') = {}
        /\ Ids(passed') \cap (Range(answered') \cup Range(held')) = {}
        /\ Ids(calls') \cap (Range(answered') \cup Range(held') \cup Ids(passed')) = {}
    BY <1>2, <2>1, <2>2, <2>3
  <2>5. \A x \in Range(answered') \cup Range(held') \cup Ids(passed') \cup Ids(calls') : x <= 2 * callFrames
    BY <1>2, <2>1, <2>2, <2>3
  <2> QED BY <1>1, <1>2, <2>1, <2>2, <2>3, <2>4, <2>5 DEF CallInv, Distinct, Once, Ids
<1>5. CASE BrainCall
  <2>1. /\ passed # <<>> /\ passed' = Tail(passed) /\ answered' = Append(answered, Head(passed).id)
        /\ calls' = calls /\ held' = held
    BY <1>5 DEF BrainCall, BrainHandled
  <2>2. PICK c : c = Head(passed) OBVIOUS
  <2>3. /\ passed' \in Seq(Calls) /\ c \in Calls /\ c.id \in Nat /\ Distinct(passed')
        /\ Ids(passed) = Ids(passed') \cup {c.id} /\ c.id \notin Ids(passed')
    <3>1. /\ Tail(passed) \in Seq(Calls) /\ Head(passed) \in Calls /\ Distinct(Tail(passed))
          /\ Ids(passed) = Ids(Tail(passed)) \cup {Head(passed).id} /\ Head(passed).id \notin Ids(Tail(passed))
      BY <1>2, <2>1, IdsTail
    <3> QED BY <2>1, <2>2, <3>1 DEF Calls
  <2>4. c.id \notin Range(answered) \cup Range(held) \cup Ids(calls) BY <1>2, <2>3
  <2>5. answered' \in Seq(Nat) /\ Once(answered') /\ Range(answered') = Range(answered) \cup {c.id}
    BY <1>2, <2>1, <2>2, <2>3, <2>4, OnceAppend
  <2>6. /\ Range(answered') \cap Range(held') = {}
        /\ Ids(passed') \cap (Range(answered') \cup Range(held')) = {}
        /\ Ids(calls') \cap (Range(answered') \cup Range(held') \cup Ids(passed')) = {}
    BY <1>2, <2>1, <2>3, <2>4, <2>5
  <2>7. \A x \in Range(answered') \cup Range(held') \cup Ids(passed') \cup Ids(calls') : x <= 2 * callFrames
    BY <1>2, <2>1, <2>3, <2>5
  <2> QED BY <1>1, <1>2, <2>1, <2>3, <2>5, <2>6, <2>7, ZenonT(60) DEF CallInv, Distinct, Once, Ids
<1> QED BY <1>3, <1>4, <1>5

\* A step of the call keeps what is known of the walk and of the calls.
LEMMA GraphKeeps ==
  ASSUME GraphInv, [GraphNext]_graphVars
  PROVE  GraphInv'
<1>1. WalkInv' /\ ViewInv' /\ VisitInv' BY WalkStep, ViewStep DEF GraphInv
<1>2. ASSUME ModelCalls PROVE CallInv' BY <1>2, CallsMade DEF GraphInv
<1>3. ASSUME McpHandle \/ McpResults \/ BrainCall PROVE CallInv' BY <1>3, CallsMove DEF GraphInv
<1>4. ASSUME UNCHANGED graphVars \/ ModelHears \/ \E n \in NodesOf(graph) : SetCurrentNode(n) PROVE CallInv'
  <2>1. UNCHANGED <<knownTools, callFrames, calls, passed, held, answered>>
    BY <1>4 DEF graphVars, ModelHears, SetCurrentNode
  <2>2. CallInv BY DEF GraphInv
  <2>3. /\ Ids(passed)' = Ids(passed) /\ Ids(calls)' = Ids(calls)
        /\ Range(held)' = Range(held) /\ Range(answered)' = Range(answered)
    BY <2>1 DEF Ids
  <2>4. Distinct(calls)' /\ Distinct(passed)' /\ Once(held)' /\ Once(answered)'
    BY <2>1, <2>2 DEF CallInv, Distinct, Once
  <2> QED BY <2>1, <2>2, <2>3, <2>4 DEF CallInv
<1>5. CallInv' BY <1>2, <1>3, <1>4 DEF GraphNext
<1> QED BY <1>1, <1>5 DEF GraphInv

\* Nothing was called when the call begins.
LEMMA GraphStarts == GraphInit => GraphInv
<1> SUFFICES ASSUME GraphInit PROVE GraphInv
  OBVIOUS
<1>1. WalkInv /\ ViewInv /\ VisitInv BY WalkStarts
<1>2. /\ knownTools \subseteq McpTools /\ callFrames = 0
      /\ calls = <<>> /\ passed = <<>> /\ held = <<>> /\ answered = <<>>
  BY DEF GraphInit
<1>3. Len(<<>>) = 0 /\ Range(<<>>) = {} /\ <<>> \in Seq(Nat) /\ <<>> \in Seq(Calls) BY RangeNone
<1>4. Distinct(<<>>) /\ Once(<<>>) /\ Ids(<<>>) = {} BY <1>3 DEF Distinct, Once, Ids
<1>5. CallInv BY <1>2, <1>3, <1>4 DEF CallInv
<1> QED BY <1>1, <1>5 DEF GraphInv

\* What is known of the walk and of the calls is enough.
LEMMA GraphAgrees == ASSUME GraphInv PROVE GraphFollowed
<1>1. ViewMatches /\ MovedWithPrompt /\ ValidNeverDetached BY DEF GraphInv, WalkInv, ViewInv
<1>2. AnsweredOnce
  <2>1. /\ held \in Seq(Nat) /\ answered \in Seq(Nat) /\ passed \in Seq(Calls) /\ Once(held) /\ Once(answered)
        /\ Range(answered) \cap Range(held) = {} /\ Ids(passed) \cap (Range(answered) \cup Range(held)) = {}
    BY DEF GraphInv, CallInv
  <2>2. PICK t : t = answered \o held OBVIOUS
  <2>3. t \in Seq(Nat) /\ Once(t) /\ Range(t) = Range(answered) \cup Range(held) BY <2>1, <2>2, OnceConcat
  <2>4. DOMAIN t = 1 .. Len(t) /\ DOMAIN passed = 1 .. Len(passed) BY <2>1, <2>3, LenProperties
  <2>5. IsInjective(t) BY <2>3, <2>4 DEF Once, IsInjective
  <2>6. \A k \in DOMAIN passed : passed[k].id \notin Range(t) BY <2>1, <2>3, <2>4 DEF Ids
  <2> QED BY <2>2, <2>5, <2>6 DEF AnsweredOnce
<1>3. VisitedExact
  <2> SUFFICES ASSUME brainKind = "declarative" PROVE VisitedExact BY DEF VisitedExact
  <2>1. /\ path \in Seq(NodesOf(graph)) /\ visited \in Seq({graph.name[n] : n \in NodesOf(graph)})
        /\ Once(visited) /\ Covers(graph.name, path, visited) /\ InFirstOrder(graph.name, path, visited)
    BY DEF GraphInv, WalkInv, VisitInv
  <2>2. DOMAIN path = 1 .. Len(path) /\ DOMAIN visited = 1 .. Len(visited) /\ Len(path) \in Nat BY <2>1, LenProperties
  <2>3. PICK names : names = [k \in DOMAIN path |-> graph.name[path[k]]] OBVIOUS
  <2>4. DOMAIN names = 1 .. Len(path) /\ \A k \in 1 .. Len(path) : names[k] = graph.name[path[k]] BY <2>2, <2>3
  <2>5. IsInjective(visited) BY <2>1, <2>2 DEF IsInjective, Once
  <2>6. Range(visited) = Range(names)
    <3>1. ASSUME NEW i \in 1 .. Len(visited) PROVE \E k \in 1 .. Len(path) : names[k] = visited[i]
      <4>1. PICK k \in 1 .. Len(path) : graph.name[path[k]] = visited[i] BY <2>1, <3>1 DEF Covers
      <4> QED BY <2>4, <4>1
    <3>2. ASSUME NEW k \in 1 .. Len(path) PROVE \E i \in 1 .. Len(visited) : visited[i] = names[k]
      <4>1. PICK i \in 1 .. Len(visited) : visited[i] = graph.name[path[k]] BY <2>1, <3>2 DEF Covers
      <4> QED BY <2>4, <4>1
    <3>3. /\ Range(visited) = {visited[i] : i \in 1 .. Len(visited)}
          /\ Range(names) = {names[k] : k \in 1 .. Len(path)}
      BY <2>2, <2>4 DEF Range
    <3> QED BY <3>1, <3>2, <3>3, ZenonT(60)
  <2>7. ASSUME NEW i \in DOMAIN visited, NEW j \in DOMAIN visited, NEW k \in DOMAIN names, i < j, names[k] = visited[j]
        PROVE  \E m \in 1 .. (k - 1) : names[m] = visited[i]
    <3>1. PICK m \in 1 .. (k - 1) : graph.name[path[m]] = visited[i] BY <2>1, <2>2, <2>4, <2>7 DEF InFirstOrder
    <3>2. m \in 1 .. Len(path) BY <2>2, <2>4
    <3> QED BY <2>4, <3>1, <3>2
  <2> QED BY <2>3, <2>5, <2>6, <2>7 DEF VisitedExact
<1> QED BY <1>1, <1>2, <1>3 DEF GraphFollowed

\* For any graph that parses, with any edges, names and prompts, any tools, any policy service
\* and any number of frames of calls: when nothing is on its way to it the model works from the
\* node its next call is resolved against, unless the service itself named a node without a
\* prompt; it is not told of a move before it has the prompt; each call is answered once however
\* MCP and the brain share a frame; the nodes reported are those visited, once and in order; and
\* in a graph that the editor accepts the engine moves to no node without a place in it
\* (Engine, DeclarativeBrain, RemoteBrain, BrainProcessor, McpProcessor).
THEOREM CallFollowsGraph == GraphSpec => []GraphFollowed
<1>1. GraphInv /\ [GraphNext]_graphVars => GraphInv'
  BY GraphKeeps
<1>2. GraphInv => GraphFollowed
  BY GraphAgrees
<1> QED BY <1>1, <1>2, GraphStarts, PTL DEF GraphSpec
=============================================================================
