------------------------------ MODULE Bundler ------------------------------
(***************************************************************************)
(* core.Bundler (core/bundler.go): collects local events, and on each tick *)
(* that completes frames sends one bundle per frame on Local_bundles.  The *)
(* channel is unbuffered: routine() is inside its send loop, deaf to       *)
(* everything else, until the updater has taken every bundle.              *)
(***************************************************************************)
EXTENDS Integers, SequencesExt

CONSTANTS
  Event, EngineEvent,  \* what arrives on Local_event and Local_engine_event
  Frame_ms,            \* Params.Frame_ms
  Start_ms,            \* Current_ms when Start is called
  Deltas,              \* what arrives on Time_delta
  MaxMs, MaxEvents     \* bounds on Current_ms and on the events of each kind

ASSUME BundlerAssumption ==
  /\ Frame_ms \in Nat \ {0} /\ Start_ms \in Nat /\ Deltas \subseteq Int
  /\ MaxMs \in Nat /\ MaxEvents \in Nat

VARIABLES
  pc,             \* "select", "send" (blocked on Local_bundles) or "closed"
  Current_ms,
  current_frame,
  current,        \* current_events and current_engine_events
  sent,           \* the bundles the updater has taken
  accepted,       \* all the events taken, in order
  stopping        \* a caller is blocked in Shutdown()

vars == <<pc, Current_ms, current_frame, current, sent, accepted, stopping>>

NoEvents == [game |-> <<>>, engine |-> <<>>]

(* Go's integer division truncates towards zero.                           *)
FrameAt(ms) == IF ms >= 0 THEN ms \div Frame_ms ELSE -((-ms) \div Frame_ms)

Init ==
  /\ pc = "select"
  /\ Current_ms = Start_ms
  /\ current_frame = FrameAt(Start_ms)
  /\ current = NoEvents /\ accepted = NoEvents
  /\ sent = <<>>
  /\ stopping = FALSE

(* The bounds on the events of a kind: there is a frame left to send them. *)
MayAccept(events) == Len(events) < MaxEvents /\ current_frame < FrameAt(MaxMs)

AcceptEvent(event) ==
  /\ pc = "select" /\ MayAccept(accepted.game)
  /\ current' = [current EXCEPT !.game = Append(@, event)]
  /\ accepted' = [accepted EXCEPT !.game = Append(@, event)]
  /\ UNCHANGED <<pc, Current_ms, current_frame, sent, stopping>>

AcceptEngineEvent(event) ==
  /\ pc = "select" /\ MayAccept(accepted.engine)
  /\ current' = [current EXCEPT !.engine = Append(@, event)]
  /\ accepted' = [accepted EXCEPT !.engine = Append(@, event)]
  /\ UNCHANGED <<pc, Current_ms, current_frame, sent, stopping>>

(* Tick with a bug: no catching up when the clock has skipped a frame.     *)
TickOneFrame ==
  /\ pc = "select" /\ Current_ms < MaxMs
  /\ Current_ms' = Current_ms + 1
  /\ pc' = IF current_frame + 1 = FrameAt(Current_ms + 1) THEN "send" ELSE "select"
  /\ UNCHANGED <<current_frame, current, sent, accepted, stopping>>

Tick ==
  /\ pc = "select" /\ Current_ms < MaxMs
  /\ Current_ms' = Current_ms + 1
  /\ pc' = IF current_frame < FrameAt(Current_ms + 1) THEN "send" ELSE "select"
  /\ UNCHANGED <<current_frame, current, sent, accepted, stopping>>

(* Send with a bug: the engine events stay and are sent again.             *)
SendKeepsEngineEvents ==
  /\ pc = "send"
  /\ sent' = Append(sent, [frame |-> current_frame, events |-> current])
  /\ current' = [current EXCEPT !.game = <<>>]
  /\ current_frame' = current_frame + 1
  /\ pc' = IF current_frame + 1 < FrameAt(Current_ms) THEN "send" ELSE "select"
  /\ UNCHANGED <<Current_ms, accepted, stopping>>
(* The updater takes the bundle the loop is blocked on.                    *)
Send ==
  /\ pc = "send"
  /\ sent' = Append(sent, [frame |-> current_frame, events |-> current])
  /\ current' = NoEvents
  /\ current_frame' = current_frame + 1
  /\ pc' = IF current_frame + 1 < FrameAt(Current_ms) THEN "send" ELSE "select"
  /\ UNCHANGED <<Current_ms, accepted, stopping>>

(* AdjustClock with a bug: the frame jumps with the clock.                 *)
AdjustClockJump ==
  /\ pc = "select"
  /\ \E delta \in Deltas :
       /\ Current_ms + delta \in -MaxMs .. MaxMs - Frame_ms
       /\ Current_ms' = Current_ms + delta
       /\ current_frame' = FrameAt(Current_ms + delta)
  /\ UNCHANGED <<pc, current, sent, accepted, stopping>>

AdjustClock ==
  /\ pc = "select"
  /\ \E delta \in Deltas :
       /\ Current_ms + delta \in -MaxMs .. MaxMs - Frame_ms
       /\ Current_ms' = Current_ms + delta
  /\ UNCHANGED <<pc, current_frame, current, sent, accepted, stopping>>

(* A caller blocks in Shutdown() until routine() selects its message and   *)
(* closes Local_bundles.                                                   *)
Shutdown ==
  /\ ~stopping
  /\ stopping' = TRUE
  /\ UNCHANGED <<pc, Current_ms, current_frame, current, sent, accepted>>

Close ==
  /\ pc = "select" /\ stopping
  /\ pc' = "closed"
  /\ UNCHANGED <<Current_ms, current_frame, current, sent, accepted, stopping>>

Next ==
  \/ \E event \in Event : AcceptEvent(event)
  \/ \E event \in EngineEvent : AcceptEngineEvent(event)
  \/ Tick \/ Send \/ AdjustClock \/ Shutdown \/ Close

Spec == Init /\ [][Next]_vars

-----------------------------------------------------------------------------
AllEvents == [game : Seq(Event), engine : Seq(EngineEvent)]

(* Fields keep their types; a clock set back may leave Current_ms below 0. *)
TypeOK ==
  /\ pc \in {"select", "send", "closed"}
  /\ Current_ms \in Int /\ current_frame \in Int
  /\ current \in AllEvents /\ accepted \in AllEvents
  /\ sent \in Seq([frame : Int, events : AllEvents])
  /\ stopping \in BOOLEAN

(* Every event taken is in exactly one bundle or still to be sent, in the  *)
(* order in which it arrived, whatever ticks and clock changes come        *)
(* between: the loop must not resend events with each frame it catches up  *)
(* on, and must not drop those that came while the clock was set back.     *)
EventsConserved ==
  /\ FlattenSeq([i \in DOMAIN sent |-> sent[i].events.game]) \o current.game
       = accepted.game
  /\ FlattenSeq([i \in DOMAIN sent |-> sent[i].events.engine]) \o current.engine
       = accepted.engine

(* The updater gets every frame once, in order: a clock set forward skips  *)
(* none and a clock set back repeats none.                                 *)
FramesConsecutive ==
  /\ current_frame = FrameAt(Start_ms) + Len(sent)
  /\ \A i \in DOMAIN sent : sent[i].frame = FrameAt(Start_ms) + i - 1
=============================================================================
