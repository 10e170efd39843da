------------------------------ MODULE FinalLog ------------------------------
(***************************************************************************)
(* What an engine promises about final states (the comments on Updater and *)
(* RequestFinalGameState): the session issues bundles, and each engine     *)
(* extends a log of final states, one per frame.  The state of a frame is  *)
(* final once a bundle from every engine known on it has been issued and   *)
(* applied; it never changes again, and no bundle still to be issued could *)
(* have changed it.                                                        *)
(***************************************************************************)
EXTENDS EventBundle

CONSTANTS
  BaseFrame, MaxFrame,  \* the log starts at BaseFrame; frames up to MaxFrame
  BaseState             \* [info, game] on BaseFrame, agreed beforehand

VARIABLES
  issued,  \* per frame, the bundles sent by the engines of the session
  log      \* frame -> [info, game], from BaseFrame to the newest final frame

vars == <<issued, log>>

Frames == BaseFrame + 1 .. MaxFrame

(* The state of a frame from the state before it and the frame's bundles.  *)
Outcome(prev, bundle) ==
  LET engines == ApplyEngineEvents(prev.info, bundle)
  IN  [info |-> engines, game |-> ApplyAndThink(prev.game, engines, bundle)]

Init ==
  /\ \A f \in Frames : issued[f] = EmptyBundle
  /\ log = [f \in {BaseFrame} |-> BaseState]

(* Bundles are only added, and one added to a final frame comes from an    *)
(* engine that is not known there and that changes no one's membership.    *)
Issue ==
  \A f \in Frames :
    /\ DOMAIN issued[f] \subseteq DOMAIN issued'[f]
    /\ \A id \in DOMAIN issued[f] : issued'[f][id] = issued[f][id]
    /\ f \in DOMAIN log =>
         \A id \in DOMAIN issued'[f] \ DOMAIN issued[f] :
           id \notin log[f].info /\ issued'[f][id].engine = <<>>

(* Any number of frames become final, each with nothing missing.           *)
Extend ==
  /\ DOMAIN log \subseteq DOMAIN log'
  /\ \A f \in DOMAIN log : log'[f] = log[f]
  /\ \A f \in DOMAIN log' \ DOMAIN log :
       /\ f \in Frames /\ f - 1 \in DOMAIN log'
       /\ log'[f] = Outcome(log'[f - 1], issued'[f])
       /\ log'[f].info \subseteq DOMAIN issued'[f]

Next == Issue /\ Extend

Spec == Init /\ [][Next]_vars

-----------------------------------------------------------------------------
(* Every final state is the outcome of all the bundles ever issued for its *)
(* frame, the ones issued after it became final included.                  *)
Follows(final, bundles) ==
  \A f \in DOMAIN final \ {BaseFrame} : final[f] = Outcome(final[f - 1], bundles[f])

LogFollowsIssued == Follows(log, issued)
=============================================================================
