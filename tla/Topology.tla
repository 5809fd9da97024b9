------------------------------ MODULE Topology ------------------------------
(***************************************************************************)
(* How link_topology and link_chain wire the stages of a pipeline. A task  *)
(* wraps the user's pipeline as <<Source, composite, Sink>>, and a         *)
(* composite that is a member of a chain gets a bridge task in front of    *)
(* it. Numbering the tasks in their downstream order, the next stage of i  *)
(* is always i + 1; the upstream neighbour is the interesting one.         *)
(***************************************************************************)
EXTENDS Integers, FiniteSetsExt

\* span[b] is the last stage of the composite behind bridge b. The stage after a
\* composite pushes upstream into the bridge, the composite's only input; the
\* first stage of a composite has the upstream neighbour of the bridge.
WiredPrev(last, span) ==
  LET prev[i \in 0 .. last] ==
        LET closed == {b \in DOMAIN span : span[b] = i - 1} IN
        IF i = 0 THEN -1
        ELSE IF closed # {} THEN Min(closed)
        ELSE IF i - 1 \in DOMAIN span THEN prev[i - 1]
        ELSE i - 1
  IN prev
=============================================================================
