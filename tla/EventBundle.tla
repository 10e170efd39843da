---------------------------- MODULE EventBundle ----------------------------
(***************************************************************************)
(* The data every component passes around (core/event.go, core/engine.go): *)
(* the events one engine generated on one frame (AllEvents), the bundle of *)
(* all engines' events for a frame (EventBundle, a Go map keyed by engine  *)
(* id), and what applying a bundle does to the set of known engines        *)
(* (EngineInfo) and to the Game.                                           *)
(*                                                                         *)
(* A Game is any user type whose Apply and Think are deterministic.  It is *)
(* represented here by the history of what was applied to it: one entry    *)
(* per Think, mapping each engine whose events were applied to the events. *)
(* Two replicas with equal histories have equal Games whatever the user's  *)
(* type does, so agreement on histories is agreement on every Game.        *)
(***************************************************************************)
EXTENDS Integers, Sequences, FiniteSets

CONSTANTS
  EngineId,  \* the engine ids of a session; RandomId() returns naturals
  Event      \* the game events a user may generate

ASSUME EngineIdAssumption == EngineId \subseteq Nat

EngineJoined(id)  == [kind |-> "EngineJoined",  id |-> id]
EngineDropped(id) == [kind |-> "EngineDropped", id |-> id]

EngineEvent == {EngineJoined(id) : id \in EngineId}
                 \cup {EngineDropped(id) : id \in EngineId}

AllEvents == [game : Seq(Event), engine : Seq(EngineEvent)]

NoEvents == [game |-> <<>>, engine |-> <<>>]      \* Go: AllEvents{}

(* An EventBundle is a function from a set of engine ids.                  *)
IsEventBundle(fb) == \E ids \in SUBSET EngineId : fb \in [ids -> AllEvents]
EmptyBundle == [id \in {} |-> NoEvents]
Only(id, events) == [k \in {id} |-> events]

(* AbsorbEventBundle adds the entries of fb2 to fb.  It panics on a key    *)
(* that is already present and, being a Go map write, on a nil map: the    *)
(* callers test MapCollision (and nilness) before they use Absorb.         *)
MapCollision(fb, fb2) == DOMAIN fb \cap DOMAIN fb2 # {}
Absorb(fb, fb2) ==
  [k \in DOMAIN fb \cup DOMAIN fb2 |-> IF k \in DOMAIN fb2 THEN fb2[k] ELSE fb[k]]

(* The places <<id, i>> at which engine event e occurs in a bundle, and    *)
(* the order in which each() reaches them.                                 *)
Places(fb, e) ==
  {p \in UNION {{id} \X DOMAIN fb[id].engine : id \in DOMAIN fb} :
     fb[p[1]].engine[p[2]] = e}
Later(p, q) == p[1] > q[1] \/ (p[1] = q[1] /\ p[2] > q[2])

(* EngineEvent.Apply over a whole bundle in each() order: an id that was   *)
(* known or is joined is known afterwards unless a drop has the last word. *)
ApplyEngineEvents(engines, fb) ==
  {id \in EngineId :
     /\ id \in engines \/ Places(fb, EngineJoined(id)) # {}
     /\ \A d \in Places(fb, EngineDropped(id)) :
          \E j \in Places(fb, EngineJoined(id)) : Later(j, d)}

(* Event.Apply over a bundle, for the engines known on the frame, followed *)
(* by Game.Think.  each() visits the ids in ascending order, so the entry  *)
(* (which engine contributed which events) determines the Apply calls.     *)
ApplyAndThink(game, engines, fb) ==
  Append(game, [id \in DOMAIN fb \cap engines |-> fb[id].game])

IsGame(game) ==
  /\ game \in Seq({game[i] : i \in DOMAIN game})
  /\ \A i \in DOMAIN game : \E ids \in SUBSET EngineId : game[i] \in [ids -> Seq(Event)]

(* FrameData: what the window keeps for one frame.  made is FALSE while    *)
(* Bundle is the nil map of a slot no one has initialised.                 *)
FrameData(info, game, bundle) ==
  [info |-> info, game |-> game, bundle |-> bundle, made |-> TRUE]
ZeroFrameData(game) ==
  [info |-> {}, game |-> game, bundle |-> EmptyBundle, made |-> FALSE]

IsFrameData(data) ==
  /\ data = [info |-> data.info, game |-> data.game,
             bundle |-> data.bundle, made |-> data.made]
  /\ data.info \subseteq EngineId /\ data.made \in BOOLEAN
  /\ IsGame(data.game) /\ IsEventBundle(data.bundle)

CannotAbsorb(data, fb) ==
  DOMAIN fb # {} /\ (~data.made \/ MapCollision(data.bundle, fb))

(* ThinkFrame with a bug: the game events are applied for the engines of   *)
(* the previous frame.                                                     *)
ThinkFrameForPrevious(prev, data) ==
  [data EXCEPT !.info = ApplyEngineEvents(prev.info, data.bundle),
               !.game = ApplyAndThink(prev.game, prev.info, data.bundle)]

(* The body of the rethink loop: the data of a frame recomputed from the   *)
(* frame before it and the bundle received so far.                         *)
ThinkFrame(prev, data) ==
  LET engines == ApplyEngineEvents(prev.info, data.bundle)
  IN  [data EXCEPT !.info = engines,
                   !.game = ApplyAndThink(prev.game, engines, data.bundle)]

(* A frame needs a bundle from every engine known on it.                   *)
Complete(data) == data.info \subseteq DOMAIN data.bundle
=============================================================================
