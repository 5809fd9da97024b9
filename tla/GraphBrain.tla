----------------------------- MODULE GraphBrain -----------------------------
(***************************************************************************)
(* The conversation graph (Graph, Engine), the two brains that walk it     *)
(* (DeclarativeBrain in process, RemoteBrain over HTTP) and the MCP stage  *)
(* that takes its own tools out of a frame of calls before the rest reach  *)
(* the brain. The model calls tools by name, from the prompt it was last   *)
(* shown; a frame may hold several calls. A new prompt and the word that   *)
(* the call has moved are frames that go up to the model's stage, which    *)
(* may call again before it has them.                                      *)
(***************************************************************************)
EXTENDS Integers, Sequences, FiniteSets, SequencesExt, FiniteSetsExt

CONSTANTS
  GraphSpecs,    \* graphs: [kind, name, prompted, edges, template]; edges is a sequence of
                 \* [from, to, slug], a template one of tokens
  McpTools,      \* tools the MCP server may list
  MaxCallFrames  \* bound: frames of calls

NodesOf(g) == DOMAIN g.kind

ASSUME GraphAssumption ==
  /\ MaxCallFrames \in Nat
  /\ \A g \in GraphSpecs :
       /\ g.prompted \subseteq NodesOf(g) /\ DOMAIN g.name = NodesOf(g)
       /\ Len(g.edges) \in Nat /\ DOMAIN g.edges = 1 .. Len(g.edges)

VARIABLES
  graph,     \* the graph of the call
  brainKind, \* "declarative" or "remote"
  current,   \* Engine::current, or RemoteBrain::node_id
  visited,   \* names of the nodes visited, in order of the first visit
  cached,    \* the node that the brain's last prompt and tools are from
  brainDone, \* the brain answered End
  resumed,   \* the engine was put back on a node before the call
  strayed,   \* the policy service named another node without its prompt (history)
  upward,    \* Reprompt and ToolResult frames on their way to the model's stage
  knownTools,\* McpProcessor::known_tools, or <<>> before start
  shown,     \* the node whose prompt and tools the model was given last
  calls,     \* calls the MCP stage has still to handle: [id, name]
  passed,    \* passthrough: calls for the brain
  held,      \* results: MCP answers held back until the passthrough is pushed
  answered,  \* ids of the calls answered, in order
  callFrames,\* frames of calls so far
  path       \* nodes the engine was at (history)

graphVars == <<graph, brainKind, current, visited, cached, brainDone, resumed, strayed, upward,
               knownTools, shown, calls, passed, held, answered, callFrames, path>>
brainVars == <<current, visited, cached, brainDone, resumed, strayed, path>>

-----------------------------------------------------------------------------
(* Graph.                                                                  *)

Starts(g) == {n \in NodesOf(g) : g.kind[n] = "start"}
Dangling(g) == \E k \in DOMAIN g.edges : ~ {g.edges[k].from, g.edges[k].to} \subseteq NodesOf(g)
ParseOk(g) == Starts(g) # {} /\ ~ Dangling(g)

\* The edges that leave and that enter a node, by their places in the list.
Outgoing(g, n) == {k \in DOMAIN g.edges : g.edges[k].from = n}
Entering(g, n) == {k \in DOMAIN g.edges : g.edges[k].to = n}
IsTerminal(g, n) == g.kind[n] = "end"

\* [min_in, max_in, max_out]; Many stands for no bound.
Many == 99
EdgeBounds(kind) ==
  CASE kind \in {"start", "trigger"} -> [minIn |-> 0, maxIn |-> 0, maxOut |-> Many]
    [] kind = "agent" -> [minIn |-> 1, maxIn |-> Many, maxOut |-> Many]
    [] kind = "end" -> [minIn |-> 1, maxIn |-> Many, maxOut |-> 0]
    [] kind \in {"global", "webhook", "qa", "tuner"} -> [minIn |-> 0, maxIn |-> 0, maxOut |-> 0]
    [] OTHER -> [minIn |-> 0, maxIn |-> Many, maxOut |-> Many]

CardinalityErrors(g) ==
  {n \in NodesOf(g) :
     LET in == Cardinality(Entering(g, n))
         out == Cardinality(Outgoing(g, n))
         b == EdgeBounds(g.kind[n]) IN
     in < b.minIn \/ in > b.maxIn \/ out > b.maxOut}

\* validate_detailed: for the editor, it does not gate a run.
ValidateDetailed(g) == ParseOk(g) /\ CardinalityErrors(g) = {}

-----------------------------------------------------------------------------
(* Engine. A transition is named by the slug of its label; two edges may   *)
(* have the same.                                                          *)

TransitionNames(g, n) == {g.edges[k].slug : k \in Outgoing(g, n)}

\* The first edge of that name.
TransitionTarget(g, n, name) ==
  g.edges[Min({k \in Outgoing(g, n) : g.edges[k].slug = name})].to

\* A prompt-less start node is passed through by its first edge.
AdvanceThroughStart(g, n) ==
  IF g.kind[n] = "start" /\ n \notin g.prompted /\ Outgoing(g, n) # {}
  THEN g.edges[Min(Outgoing(g, n))].to ELSE n

RecordVisit(names, name) == IF name \in Range(names) THEN names ELSE Append(names, name)

EndCall == "endCall"
\* current_tools: the transitions and endCall; transfer targets are in the prompt only.
CurrentTools(g, n) == TransitionNames(g, n) \union {EndCall}

-----------------------------------------------------------------------------
(* var_interpolate. A template is a sequence of tokens; name's value holds *)
(* the tokens of a placeholder itself.                                     *)

Open == "{{"
Close == "}}"
Bar == "|"
Escape == "backslash-n"  \* the two characters, in a template or in a value
NewLine == "newline"
NameValue == <<Open, "city", Close, Escape>>

\* time_builtin, then resolve_placeholder: the value, or the fallback, or nothing.
ResolvePlaceholder(inner, value) ==
  LET bars == {k \in DOMAIN inner : inner[k] = Bar}
      bar == IF bars = {} THEN Len(inner) + 1 ELSE Min(bars)
      key == SubSeq(inner, 1, bar - 1) IN
  CASE inner = <<"current_time">> -> <<"12:00">>
    [] key = <<"name">> /\ value # <<>> -> value
    [] OTHER -> SubSeq(inner, bar + 1, Len(inner))

\* One pass from left to right: an opening with no closing after it is text.
InterpolateAt(t, value) ==
  LET from[i \in 1 .. Len(t) + 1] ==
        IF i > Len(t) THEN <<>>
        ELSE LET closes == {j \in i + 1 .. Len(t) : t[j] = Close} IN
             IF t[i] # Open \/ closes = {} THEN <<t[i]>> \o from[i + 1]
             ELSE ResolvePlaceholder(SubSeq(t, i + 1, Min(closes) - 1), value)
                    \o from[Min(closes) + 1]
  IN from[1]

\* Escapes are replaced last, those that came with a value too.
NewLines(t) == [k \in DOMAIN t |-> IF t[k] = Escape THEN NewLine ELSE t[k]]
VarInterpolate(t, value) == NewLines(InterpolateAt(t, value))

-----------------------------------------------------------------------------
(* The call.                                                               *)

\* Engine::new, or RemoteBrain::connect; then McpProcessor::start, where a failed
\* tools/list leaves no tools.
GraphInit ==
  /\ graph \in {g \in GraphSpecs : ParseOk(g)}
  /\ brainKind \in {"declarative", "remote"}
  /\ \E s \in Starts(graph) : current = AdvanceThroughStart(graph, s)
  /\ visited = RecordVisit(<<>>, graph.name[current])
  /\ cached = current /\ shown = current /\ upward = <<>>
  /\ brainDone = FALSE /\ resumed = FALSE /\ strayed = FALSE
  /\ knownTools \in {{}, McpTools}
  /\ calls = <<>> /\ passed = <<>> /\ held = <<>> /\ answered = <<>> /\ callFrames = 0
  /\ path = <<current>>

\* Engine::set_current_node, after a restart: the host puts the engine back on a node, and
\* the call is set up with that node's prompt.
SetCurrentNode(n) ==
  /\ brainKind = "declarative" /\ callFrames = 0 /\ ~ resumed /\ resumed' = TRUE
  /\ current' = n /\ shown' = n /\ cached' = n /\ path' = Append(path, n)
  /\ visited' = RecordVisit(visited, graph.name[n])
  /\ UNCHANGED <<graph, brainKind, brainDone, strayed, upward, knownTools, calls, passed, held,
                 answered, callFrames>>

\* The model calls one or two of the tools it was shown, or one that does not exist.
Callable == CurrentTools(graph, shown) \union knownTools \union {"ghost"}
ModelCalls ==
  /\ calls = <<>> /\ passed = <<>> /\ held = <<>>
  /\ callFrames < MaxCallFrames /\ callFrames' = callFrames + 1
  /\ \E x, y \in Callable :
       calls' \in {<<[id |-> 2 * callFrames + 1, name |-> x]>>,
                   <<[id |-> 2 * callFrames + 1, name |-> x], [id |-> 2 * callFrames + 2, name |-> y]>>}
  /\ UNCHANGED <<graph, brainKind, brainVars, upward, knownTools, shown, passed, held, answered>>

\* The next frame reaches the model's stage: update_system, or send_tool_result.
ModelHears ==
  /\ upward # <<>> /\ upward' = Tail(upward)
  /\ shown' = IF Head(upward).kind = "Reprompt" THEN Head(upward).node ELSE shown
  /\ UNCHANGED <<graph, brainKind, brainVars, knownTools, calls, passed, held, answered,
                 callFrames>>

\* McpProcessor: dispatch answers with the text or with an error, and holds the result.
McpHandle ==
  /\ calls # <<>>
  /\ calls' = Tail(calls)
  /\ IF Head(calls).name \in knownTools
     THEN held' = Append(held, Head(calls).id) /\ UNCHANGED passed
     ELSE passed' = Append(passed, Head(calls)) /\ UNCHANGED held
  /\ UNCHANGED <<graph, brainKind, brainVars, upward, knownTools, shown, answered, callFrames>>

\* The calls of others went down first, then the results.
McpResults ==
  /\ calls = <<>> /\ passed = <<>> /\ held # <<>>
  /\ answered' = answered \o held /\ held' = <<>>
  /\ UNCHANGED <<graph, brainKind, brainVars, upward, knownTools, shown, calls, passed,
                 callFrames>>

\* The brain's stage takes the next call, and pushes its result.
BrainHandled ==
  /\ calls = <<>> /\ passed # <<>>
  /\ passed' = Tail(passed) /\ answered' = Append(answered, Head(passed).id)
  /\ UNCHANGED <<graph, brainKind, resumed, knownTools, shown, calls, held, callFrames>>

\* BrainAction::Stay, with no change in the brain.
Stays == UNCHANGED <<current, visited, cached, brainDone, strayed, upward, path>>

\* BrainAction::Transition: the new prompt goes up, and behind it the result of the call.
Shows(to) ==
  /\ cached' = to
  /\ upward' = upward \o <<[kind |-> "Reprompt", node |-> to], [kind |-> "moved", node |-> to]>>

\* Engine::on_transition: the engine moves; an end node ends the call.
MovesTo(to) ==
  /\ current' = to /\ path' = Append(path, to)
  /\ visited' = RecordVisit(visited, graph.name[to])
  /\ IF IsTerminal(graph, to) THEN brainDone' = TRUE /\ UNCHANGED <<cached, upward>>
                              ELSE Shows(to) /\ UNCHANGED brainDone

\* DeclarativeBrain::on_tool_call. A call behind the one that ended the conversation is
\* handled like any other.
DeclarativeCall(name) ==
  IF name = EndCall THEN brainDone' = TRUE /\ UNCHANGED <<current, visited, cached, strayed, upward, path>>
  ELSE IF name \in TransitionNames(graph, current)
  THEN MovesTo(TransitionTarget(graph, current, name)) /\ UNCHANGED strayed
  ELSE Stays

\* Mutant: the node of an answer that is not understood is believed.
RemoteCallTorn(name) ==
  \/ Stays
  \/ \E n \in NodesOf(graph) :
       current' = n /\ UNCHANGED <<visited, cached, brainDone, strayed, upward, path>>

\* RemoteBrain::on_tool_call. The request fails or times out, or a transition lacks its
\* prompt or tools: nothing is changed. Or the policy service (external) answers: the node
\* it names is taken over whatever the action is, prompt and tools with a transition only.
RemoteCall(name) ==
  \/ Stays
  \/ /\ UNCHANGED <<visited, path>>
     /\ \E n \in NodesOf(graph) :
          /\ current' = n
          /\ \/ Shows(n) /\ strayed' = FALSE /\ UNCHANGED brainDone
             \/ /\ strayed' = (strayed \/ n # current) /\ UNCHANGED <<cached, upward>>
                /\ brainDone' \in {brainDone, TRUE}

BrainCall ==
  /\ BrainHandled
  /\ \/ brainKind = "declarative" /\ DeclarativeCall(Head(passed).name)
     \/ brainKind = "remote" /\ RemoteCall(Head(passed).name)

GraphNext ==
  \/ ModelCalls \/ ModelHears \/ McpHandle \/ McpResults \/ BrainCall
  \/ \E n \in NodesOf(graph) : SetCurrentNode(n)

GraphSpec == GraphInit /\ [][GraphNext]_graphVars

-----------------------------------------------------------------------------
(* Properties.                                                             *)

\* The prompt and the tools that the model has when nothing is on its way to it are the
\* last that the brain handed out, and those are of the node that the next call is resolved
\* against, over any batch of calls and any failed request; but not when a policy service
\* itself named a node and sent no prompt (on_tool_call, RemoteBrain::on_tool_call).
ViewMatches ==
  /\ upward = <<>> => shown = cached
  /\ ~ brainDone /\ ~ strayed => cached = current

\* The model is not told that the call has moved before it has the prompt of the node
\* (BrainProcessor::process_frame: update_system, then send_tool_result).
MovedWithPrompt ==
  \A k \in DOMAIN upward : upward[k].kind = "moved" =>
    IF k = 1 THEN shown = upward[k].node
    ELSE upward[k - 1] = [kind |-> "Reprompt", node |-> upward[k].node]

\* A call is answered once, by the MCP stage or by the brain, however the two share a
\* frame (McpProcessor::process_frame).
AnsweredOnce ==
  /\ IsInjective(answered \o held)
  /\ \A k \in DOMAIN passed : passed[k].id \notin Range(answered \o held)

\* nodes_visited, which is reported with the call, names every node of the path once, in
\* the order of the first visit (record_visit, collected_vars).
VisitedExact ==
  brainKind = "declarative" =>
    LET names == [k \in DOMAIN path |-> graph.name[path[k]]] IN
    /\ IsInjective(visited) /\ Range(visited) = Range(names)
    /\ \A i, j \in DOMAIN visited, k \in DOMAIN names :
         i < j /\ names[k] = visited[j] => \E m \in 1 .. (k - 1) : names[m] = visited[i]

\* In a graph that the editor accepts the engine never comes to a node that has no place
\* in a conversation, and never returns to the start (edge_bounds), unless it was put there
\* after a restart.
ValidNeverDetached ==
  ValidateDetailed(graph) =>
    \A k \in (IF resumed THEN 3 ELSE 2) .. Len(path) :
      graph.kind[path[k]] \notin {"start", "global", "webhook", "qa", "tuner", "trigger"}

\* The call moves over the graph and only over it: the model works from the node it is at,
\* each of its calls has one answer, and what is reported as visited is what was.
GraphFollowed ==
  ViewMatches /\ MovedWithPrompt /\ AnsweredOnce /\ VisitedExact /\ ValidNeverDetached

\* What a variable holds is text: it never opens a placeholder of its own, nor closes
\* one of the template. But an escaped new line in it is one, as in the template
\* (var_interpolate).
ValuesLiteral ==
  LET opaque == VarInterpolate(graph.template, <<"value">>) IN
  VarInterpolate(graph.template, NameValue)
    = FlattenSeq([k \in DOMAIN opaque |-> IF opaque[k] = "value" THEN NewLines(NameValue) ELSE <<opaque[k]>>])
=============================================================================
