--------------------------- MODULE MCCascadedParts ---------------------------
(***************************************************************************)
(* Three machines of the cascaded call that share no state, side by side:  *)
(* a behaviour is one of one machine, and the others rest. At rest no fair *)
(* action of a machine is enabled.                                         *)
(***************************************************************************)
EXTENDS BotSpeakingNotifier, TurnMute, RollingContext

VARIABLE part  \* the machine in play

partsVars == <<part, notifierVars, muteVars, contextVars>>

Init == part \in {"notifier", "mute", "context"} /\ NotifierInit /\ MuteInit /\ ContextInit

Next ==
  /\ UNCHANGED part
  /\ \/ part = "notifier" /\ NotifierNext /\ UNCHANGED <<muteVars, contextVars>>
     \/ part = "mute" /\ MuteNext /\ UNCHANGED <<notifierVars, contextVars>>
     \/ part = "context" /\ ContextNext /\ UNCHANGED <<notifierVars, muteVars>>

Spec ==
  Init /\ [][Next]_partsVars /\ NotifierFairness /\ MuteFairness /\ ContextFairness
=============================================================================
