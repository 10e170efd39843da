----------------------------- MODULE MCUpdater -----------------------------
(* Values for the constants of Updater on small sessions.                  *)
EXTENDS Updater

(* Engine 1 always has an event, engine 2 sometimes, engine 3 never.       *)
SomeInputs == [id \in EngineId |->
  CASE id = 1 -> {<<"e1">>} [] id = 2 -> {<<>>, <<"e2">>} [] OTHER -> {<<>>}]
(* The newest state, and each frame up to the last.                        *)
AnyFrame == {-1} \cup Frames

(* A client's own session: its events can be told from the host's.         *)
OwnInput == [id \in EngineId |->
  CASE id = 1 -> {<<"e1">>} [] id = 2 -> {<<"e2">>} [] OTHER -> {<<>>}]
CallerSymmetry == Permutations(Callers)

OneInput == [id \in EngineId |-> {<<"e">>}]
=============================================================================
