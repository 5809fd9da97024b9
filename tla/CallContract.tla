---------------------------- MODULE CallContract ----------------------------
(***************************************************************************)
(* What a call promises the control plane: once somebody has asked for its *)
(* end it is reported, exactly once.                                       *)
(***************************************************************************)
CONSTANT Parties  \* who can ask for the end of a call

VARIABLES
  wanted,  \* the parties that have asked
  phase    \* "live", "reporting" or "completed"

Init == wanted = {} /\ phase = "live"

Want ==
  /\ \E p \in Parties : wanted' = wanted \union {p}
  /\ UNCHANGED phase

Report ==
  /\ phase = "live" /\ wanted # {}
  /\ phase' = "reporting" /\ UNCHANGED wanted

Complete ==
  /\ phase = "reporting" /\ phase' = "completed"
  /\ UNCHANGED wanted

Next == Want \/ Report \/ Complete

Spec == Init /\ [][Next]_<<wanted, phase>>
FairSpec == Spec /\ WF_<<wanted, phase>>(Report \/ Complete)
=============================================================================
